-------------------------- MODULE ElectionRestarts --------------------------
(***************************************************************************)
(* At most one leader when replicas restart, for any number of members and *)
(* of restarts, if the periods are Patient.  The first layer expands the   *)
(* actions: what a step sends and why (StepMail), and what it makes a      *)
(* proposer believe (StepBelief).  Effects collects what the second layer  *)
(* uses of a step that is no restart; each conjunct of LifeInv has a lemma *)
(* of its own there: the acceptor's words, the proposer's campaigns, the   *)
(* leases, and the three facts that keep two leaders apart (LowerLapsed,   *)
(* RivalsMute, WinnersApart).  The last layer is the restart itself, which *)
(* turns the words of a replica into those of a past life.                 *)
(***************************************************************************)
EXTENDS ElectionSafety, ElectionLives

USE DEF INVALID

-----------------------------------------------------------------------------
(* What a step sends, and why *)

\* m arrives in time.
Fresh(m) == now <= m.sent + MaxDelay

\* A proposer asks in the ballot that it enters, or again in the one it is in:
\* while it has a lease of an older ballot, or since it hands over to itself.
RequestMade(x) ==
    /\ x.ballot = ballot'[x.from]
    /\ \/ ballot[x.from] < x.ballot
       \/ /\ x.role = "leader" /\ x.ballot = ballot[x.from]
          /\ \/ CheckLeader(x.from) /\ prepared[x.from] # ballot[x.from]
             \/ \E h \in HandOvers :
                    Fresh(h) /\ h.from = x.from /\ h.ballot = x.ballot

\* A vote answers a leader's request at once, a follower's from the time window.
VoteMade(v) ==
    \/ /\ ~Silent(v.from)
       /\ \E x \in Prepares : /\ Fresh(x) /\ x.from = v.to /\ x.ballot = v.ballot
                              /\ x.role = "leader"
    \/ best[v.from] # NoRequest /\ best[v.from].from = v.to /\ window[v.from] = v.ballot

\* A grant answers a proposal.
GrantMade(g) ==
    /\ ~Silent(g.from)
    /\ \E m \in Proposals : /\ Fresh(m) /\ m.from = g.to /\ m.ballot = g.ballot
                            /\ m.start = g.start

\* A vote completes the majority.
Wins(p) ==
    /\ Up(p) /\ ballot' = ballot /\ prepared'[p] = ballot[p] /\ lease' = lease
    /\ IsMajority(prepareOk'[p])
    /\ \E v \in Votes : Fresh(v) /\ v.to = p /\ v.ballot = ballot[p]

\* A proposal is that of a winner, or of a leader that extends its lease.
ProposalMade(m) ==
    /\ m.start = m.sent /\ m.ballot = prepared'[m.from] /\ ballot' = ballot
    /\ Wins(m.from) \/ (prepared' = prepared /\ now < lease'[m.from])
    /\ \A n \in Proposals' : n \in Proposals \/ n = m

\* Why m is sent, by its type
Mailed(m) ==
    /\ m.sent = now
    /\ m.type # "rejected" => Up(m.from)
    /\ m.type = "prepare" => RequestMade(m)
    /\ m.type = "prepared" => VoteMade(m)
    /\ m.type = "accept" => ProposalMade(m)
    /\ m.type = "accepted" => GrantMade(m)
    /\ m.type = "change" => Prepares' = Prepares

\* An acceptor takes a follower's request into its time window.
TakesIn(q) ==
    /\ now' = now /\ ~Silent(q)
    /\ \E x \in Prepares :
        /\ Fresh(x) /\ x.role = "follower"
        /\ window'[q] = x.ballot /\ best'[q].from = x.from
    /\ \/ best'[q].opened = now
       \/ best[q] # NoRequest /\ best'[q].opened = best[q].opened

\* What a step that is no restart does to the mail and the time windows
MailStep ==
    /\ msgs \subseteq msgs'
    /\ msgs' = msgs \/ now' = now
    /\ \A m \in msgs' : m \notin msgs => Mailed(m)
    /\ \A q \in Nodes : best'[q] = NoRequest \/ Waits(q) \/ TakesIn(q)

\* A step of the proposer alone
LEMMA MailProposer ==
    ASSUME UNCHANGED <<now, acceptorVars>>, msgs \subseteq msgs',
           \A x \in msgs' : x \notin msgs => Mailed(x)
    PROVE  MailStep
<1>1. UNCHANGED <<now, best, window>>
    BY DEF acceptorVars
<1>2. \A q \in Nodes : Waits(q)
    BY <1>1 DEF Waits
<1>. QED
    BY <1>1, <1>2 DEF MailStep

\* ... that sends nothing, ...
LEMMA MailNone ==
    ASSUME UNCHANGED <<now, acceptorVars, msgs>>
    PROVE  MailStep
BY MailProposer

\* ... a request ...
LEMMA MailRequest ==
    ASSUME UNCHANGED <<now, acceptorVars>>, NEW p \in Nodes, NEW b0, NEW r, Up(p),
           msgs' = msgs \cup {PrepareReq(p, b0, r)}, b0 = ballot'[p],
           \/ ballot[p] < b0
           \/ /\ r = "leader" /\ b0 = ballot[p]
              /\ \/ CheckLeader(p) /\ prepared[p] # ballot[p]
                 \/ \E h \in HandOvers : Fresh(h) /\ h.from = p /\ h.ballot = b0
    PROVE  MailStep
<1>. DEFINE x == PrepareReq(p, b0, r)
<1>1. x.sent = now /\ x.type = "prepare" /\ x.from = p /\ x.ballot = b0 /\ x.role = r
    BY DEF PrepareReq
<1>. HIDE DEF x
<1>2. msgs' = msgs \cup {x}
    BY DEF x
<1>3. RequestMade(x)
    BY <1>1 DEF RequestMade
<1>4. Mailed(x)
    BY <1>1, <1>3 DEF Mailed
<1>. QED
    BY <1>2, <1>4, MailProposer

\* ... or a proposal
LEMMA MailProposal ==
    ASSUME UNCHANGED <<now, acceptorVars>>, NEW p \in Nodes, NEW b0, Up(p),
           msgs' = msgs \cup {AcceptReq(p, b0)}, b0 = prepared'[p], ballot' = ballot,
           Wins(p) \/ (prepared' = prepared /\ now < lease'[p])
    PROVE  MailStep
<1>. DEFINE x == AcceptReq(p, b0)
<1>1. x.sent = now /\ x.type = "accept" /\ x.from = p /\ x.ballot = b0 /\ x.start = now
    BY DEF AcceptReq
<1>. HIDE DEF x
<1>2. msgs' = msgs \cup {x}
    BY DEF x
<1>3. ProposalMade(x)
    <2>1. \A n \in Proposals' : n \in Proposals \/ n = x
        BY <1>2 DEF Proposals
    <2>. QED
        BY <1>1, <2>1 DEF ProposalMade
<1>4. Mailed(x)
    BY <1>1, <1>3 DEF Mailed
<1>. QED
    BY <1>2, <1>4, MailProposer

\* handle_message(ElectionPrepareRequestMsg)
LEMMA MailOnPrepareRequest ==
    ASSUME TypeRest, NEW p \in Nodes, NEW m \in msgs, m.type = "prepare",
           Fresh(m), Up(p), OnPrepareRequest(p, m)
    PROVE  MailStep
<1>. DEFINE S == IF m.from = p \/ m.ballot = ballot[p] THEN {}
                 ELSE IF m.ballot < ballot[p]
                 THEN {Reject(m, ballot[p])}
                 ELSE IF m.role = "leader" \/ p \notin Candidates THEN {}
                 ELSE {PrepareReq(p, m.ballot, role[p])}
            resp == PrepareResp(p, m.from, m.ballot, LeaseOf(accLease[p]))
            rej == Reject(m, accBallot[p])
<1>1. AcceptorOnPrepare(p, m, S) /\ now' = now
    BY DEF OnPrepareRequest
<1>2. /\ m.from \in Nodes /\ m.ballot \in Int /\ ballot[p] \in Int
      /\ m \in Prepares
    BY MessageFields, Domains DEF TypeRest, Prepares
<1>3. \A x \in S : Mailed(x)
    <2>1. Mailed(Reject(m, ballot[p]))
        <3>1. /\ Reject(m, ballot[p]).sent = now /\ Reject(m, ballot[p]).type = "rejected"
            BY DEF Reject
        <3>. QED
            BY <3>1 DEF Mailed
    <2>2. ASSUME m.from # p, m.ballot > ballot[p], p \in Candidates
          PROVE  Mailed(PrepareReq(p, m.ballot, role[p]))
        <3>. DEFINE x == PrepareReq(p, m.ballot, role[p])
        <3>1. x.sent = now /\ x.type = "prepare" /\ x.from = p /\ x.ballot = m.ballot
            BY DEF PrepareReq
        <3>2. ballot'[p] = m.ballot
            BY <2>2 DEF OnPrepareRequest, Advance, TypeRest
        <3>. HIDE DEF x
        <3>3. RequestMade(x)
            BY <1>2, <2>2, <3>1, <3>2 DEF RequestMade
        <3>4. Mailed(x)
            BY <3>1, <3>3 DEF Mailed
        <3>. QED
            BY <3>4 DEF x
    <2>. QED
        BY <1>2, <2>1, <2>2
<1>4. Mailed(rej)
    <2>1. rej.sent = now /\ rej.type = "rejected"
        BY DEF Reject
    <2>. QED
        BY <2>1 DEF Mailed
<1>5. ASSUME ~Silent(p), m.role = "leader"
      PROVE  Mailed(resp)
    <2>1. /\ resp.sent = now /\ resp.type = "prepared" /\ resp.from = p
          /\ resp.to = m.from /\ resp.ballot = m.ballot
        BY DEF PrepareResp
    <2>. HIDE DEF resp
    <2>2. VoteMade(resp)
        BY <1>2, <1>5, <2>1 DEF VoteMade
    <2>. QED
        BY <2>1, <2>2 DEF Mailed
<1>. HIDE DEF S, rej, resp
<1>6. \/ msgs' = msgs \cup S \/ msgs' = msgs \cup (S \cup {rej})
      \/ msgs' = msgs \cup (S \cup {resp}) /\ ~Silent(p) /\ m.role = "leader"
    BY <1>1 DEF AcceptorOnPrepare, Send, rej, resp
<1>7. \A x \in msgs' : x \notin msgs => Mailed(x)
    BY <1>3, <1>4, <1>5, <1>6
<1>8. ASSUME NEW q \in Nodes
      PROVE  best'[q] = NoRequest \/ Waits(q) \/ TakesIn(q)
    <2>1. CASE UNCHANGED <<window, best>>
        BY <1>1, <2>1 DEF Waits
    <2>2. CASE AdvanceAcceptor(p, m.ballot)
        BY <1>1, <2>2 DEF AdvanceAcceptor, TypeRest, Waits
    <2>3. CASE /\ ~Silent(p) /\ m.role = "follower"
               /\ window' = [window EXCEPT ![p] = m.ballot]
               /\ best' = [best EXCEPT ![p] = [from |-> m.from, opened |-> now]]
        <3>1. p = q => /\ window'[q] = m.ballot /\ best'[q].from = m.from
                       /\ best'[q].opened = now
            BY <2>3 DEF TypeRest
        <3>2. p # q => best'[q] = best[q] /\ window'[q] = window[q]
            BY <2>3 DEF TypeRest
        <3>. QED
            BY <1>1, <1>2, <2>3, <3>1, <3>2 DEF TakesIn, Waits
    <2>4. CASE /\ ~Silent(p) /\ m.role = "follower"
               /\ best[p] # NoRequest /\ m.ballot = window[p] /\ window' = window
               /\ best' = [best EXCEPT ![p] = [from |-> m.from, opened |-> best[p].opened]]
        <3>1. p = q => /\ window'[q] = m.ballot /\ best'[q].from = m.from
                       /\ best[q] # NoRequest /\ best'[q].opened = best[q].opened
            BY <2>4 DEF TypeRest
        <3>2. p # q => best'[q] = best[q] /\ window'[q] = window[q]
            BY <2>4 DEF TypeRest
        <3>. QED
            BY <1>1, <1>2, <2>4, <3>1, <3>2 DEF TakesIn, Waits
    <2>5. \/ UNCHANGED <<window, best>>
          \/ AdvanceAcceptor(p, m.ballot)
          \/ /\ ~Silent(p) /\ m.role = "follower"
             /\ window' = [window EXCEPT ![p] = m.ballot]
             /\ best' = [best EXCEPT ![p] = [from |-> m.from, opened |-> now]]
          \/ /\ ~Silent(p) /\ m.role = "follower"
             /\ best[p] # NoRequest /\ m.ballot = window[p] /\ window' = window
             /\ best' = [best EXCEPT ![p] = [from |-> m.from, opened |-> best[p].opened]]
        BY <1>1 DEF AcceptorOnPrepare
    <2>. QED
        BY <2>1, <2>2, <2>3, <2>4, <2>5
<1>. QED
    BY <1>1, <1>6, <1>7, <1>8 DEF MailStep

\* handle_message(ElectionAcceptRequestMsg)
LEMMA MailOnAcceptRequest ==
    ASSUME TypeRest, NEW p \in Nodes, NEW m \in msgs, m.type = "accept",
           Fresh(m), Up(p), OnAcceptRequest(p, m)
    PROVE  MailStep
<1>. DEFINE resp == AcceptResp(p, m)
            rej == Reject(m, accBallot[p])
<1>1. m \in Proposals /\ now' = now
    BY DEF Proposals, OnAcceptRequest
<1>2. Mailed(rej)
    <2>1. rej.sent = now /\ rej.type = "rejected"
        BY DEF Reject
    <2>. QED
        BY <2>1 DEF Mailed
<1>3. ASSUME ~Silent(p) PROVE Mailed(resp)
    <2>1. /\ resp.sent = now /\ resp.type = "accepted" /\ resp.from = p
          /\ resp.to = m.from /\ resp.ballot = m.ballot /\ resp.start = m.start
        BY DEF AcceptResp
    <2>. HIDE DEF resp
    <2>2. GrantMade(resp)
        BY <1>1, <1>3, <2>1 DEF GrantMade
    <2>. QED
        BY <2>1, <2>2 DEF Mailed
<1>. HIDE DEF rej, resp
<1>4. \/ msgs' = msgs \/ msgs' = msgs \cup {rej}
      \/ msgs' = msgs \cup {resp} /\ ~Silent(p)
    BY DEF OnAcceptRequest, Send, rej, resp
<1>5. \A q \in Nodes : best'[q] = NoRequest \/ Waits(q)
    <2>1. UNCHANGED <<window, best>> \/ AdvanceAcceptor(p, m.ballot)
        BY DEF OnAcceptRequest
    <2>. QED
        BY <1>1, <2>1 DEF AdvanceAcceptor, TypeRest, Waits
<1>6. \A x \in msgs' : x \notin msgs => Mailed(x)
    BY <1>2, <1>3, <1>4
<1>. QED
    BY <1>1, <1>4, <1>5, <1>6 DEF MailStep

\* The end of a time window
LEMMA MailVote ==
    ASSUME TypeRest, NEW p \in Nodes, Up(p), Vote(p)
    PROVE  MailStep
<1>1. PICK l : msgs' = msgs \cup {PrepareResp(p, best[p].from, window[p], l)}
    BY DEF Vote, Send
<1>. DEFINE resp == PrepareResp(p, best[p].from, window[p], l)
<1>2. /\ resp.sent = now /\ resp.type = "prepared" /\ resp.from = p
      /\ resp.to = best[p].from /\ resp.ballot = window[p]
    BY DEF PrepareResp
<1>. HIDE DEF resp
<1>3. best[p] # NoRequest /\ now' = now
    BY DEF Vote
<1>4. VoteMade(resp)
    BY <1>2, <1>3 DEF VoteMade
<1>5. Mailed(resp)
    BY <1>2, <1>4 DEF Mailed
<1>6. msgs' = msgs \cup {resp}
    BY <1>1 DEF resp
<1>7. \A q \in Nodes : best'[q] = NoRequest \/ Waits(q)
    BY DEF Vote, TypeRest, Waits
<1>. QED
    BY <1>3, <1>5, <1>6, <1>7 DEF MailStep

\* on_prepare_response()
LEMMA WinsOnPrepareResponse ==
    ASSUME TypeRest, NEW m \in msgs, m.type = "prepared", Fresh(m), Up(m.to),
           OnPrepareResponse(m)
    PROVE  \/ prepared' = prepared /\ msgs' = msgs
           \/ /\ Wins(m.to) /\ prepared' = [prepared EXCEPT ![m.to] = ballot[m.to]]
              /\ msgs' = msgs \cup {AcceptReq(m.to, ballot[m.to])}
<1>1. m.to \in Nodes /\ m.from \in Nodes /\ m \in Votes
    BY MessageFields DEF TypeRest, Votes
<1>. DEFINE p == m.to
            ok == prepareOk[p] \cup {m.from}
<1>2. CASE Cardinality(ok) = Cardinality(Nodes) \div 2 + 1
    <2>1. /\ prepared' = [prepared EXCEPT ![p] = ballot[p]]
          /\ prepareOk' = [prepareOk EXCEPT ![p] = ok]
          /\ msgs' = msgs \cup {AcceptReq(p, ballot[p])}
          /\ ballot' = ballot /\ lease' = lease /\ m.ballot = ballot[p]
        BY <1>2 DEF OnPrepareResponse, Send, leaseVars, Counts
    <2>2. ok \in SUBSET Nodes
        BY <1>1 DEF TypeRest
    <2>3. IsMajority(ok)
        BY <1>2, <2>2, HalfPlusOne
    <2>4. prepared'[p] = ballot[p] /\ prepareOk'[p] = ok
        BY <1>1, <2>1 DEF TypeRest
    <2>. HIDE DEF ok
    <2>. QED
        BY <1>1, <2>1, <2>3, <2>4 DEF Wins
<1>3. CASE Cardinality(ok) # Cardinality(Nodes) \div 2 + 1
    BY <1>3 DEF OnPrepareResponse
<1>. QED
    BY <1>2, <1>3

\* on_accept_response(): who takes over has a lease.
LEMMA ProposesOnAcceptResponse ==
    ASSUME NEW m \in msgs, OnAcceptResponse(m)
    PROVE  \/ msgs' = msgs
           \/ /\ msgs' = msgs \cup {AcceptReq(m.to, prepared[m.to])}
              /\ now < lease'[m.to]
<1>1. CASE IsMajority({q \in Nodes : Acks(m)[q] # 0})
    BY <1>1 DEF OnAcceptResponse, Acks, TakesOver, Send
<1>2. CASE ~IsMajority({q \in Nodes : Acks(m)[q] # 0})
    BY <1>2 DEF OnAcceptResponse, Acks
<1>. QED
    BY <1>1, <1>2

\* What a step other than a restart sends.
LEMMA StepMail ==
    ASSUME TypeRest, \A p \in Nodes : ~Restart(p), Step
    PROVE  MailStep
<1>1. CASE Tick
    <2>1. msgs' = msgs /\ now' = now + 1
        BY <1>1 DEF Tick
    <2>2. \A q \in Nodes : best'[q] = NoRequest \/ Waits(q)
        BY <1>1, <2>1 DEF Tick, acceptorVars, Waits
    <2>. QED
        BY <2>1, <2>2 DEF MailStep
<1>2. ASSUME NEW m \in msgs, Fresh(m), Receive(m)
      PROVE  MailStep
    <2>1. ASSUME m.type = "prepared", Up(m.to), OnPrepareResponse(m)
          PROVE  MailStep
        <3>1. UNCHANGED <<now, acceptorVars>> /\ ballot' = ballot /\ m.to \in Nodes
            BY <2>1, MessageFields DEF OnPrepareResponse, TypeRest
        <3>2. CASE msgs' = msgs
            BY <3>1, <3>2, MailNone
        <3>3. CASE /\ Wins(m.to) /\ prepared' = [prepared EXCEPT ![m.to] = ballot[m.to]]
                   /\ msgs' = msgs \cup {AcceptReq(m.to, ballot[m.to])}
            <4>1. PICK b0 : b0 = ballot[m.to]
                OBVIOUS
            <4>2. prepared'[m.to] = b0
                BY <3>1, <3>3, <4>1 DEF TypeRest
            <4>. QED
                BY <2>1, <3>1, <3>3, <4>1, <4>2, MailProposal
        <3>. QED
            BY <1>2, <2>1, <3>2, <3>3, WinsOnPrepareResponse
    <2>2. ASSUME m.type = "accepted", Up(m.to), OnAcceptResponse(m)
          PROVE  MailStep
        <3>1. /\ UNCHANGED <<now, acceptorVars>> /\ ballot' = ballot /\ prepared' = prepared
              /\ m.to \in Nodes
            BY <2>2, MessageFields DEF OnAcceptResponse, TypeRest
        <3>2. CASE msgs' = msgs
            BY <3>1, <3>2, MailNone
        <3>3. CASE /\ msgs' = msgs \cup {AcceptReq(m.to, prepared[m.to])}
                   /\ now < lease'[m.to]
            <4>1. PICK b0 : b0 = prepared[m.to]
                OBVIOUS
            <4>. QED
                BY <2>2, <3>1, <3>3, <4>1, MailProposal
        <3>. QED
            BY <2>2, <3>2, <3>3, ProposesOnAcceptResponse
    <2>3. ASSUME m.type \in {"prepared", "accepted", "rejected"}, Up(m.to), LearnBallot(m)
          PROVE  MailStep
        <3>1. /\ m.to \in Nodes /\ m.ballot \in Int /\ ballot[m.to] \in Int
              /\ UNCHANGED <<now, acceptorVars>> /\ ballot[m.to] < m.ballot
            BY <2>3, MessageFields, Domains DEF TypeRest, LearnBallot
        <3>2. CASE CheckLeader(m.to)
            <4>1. PICK b0 : b0 = m.ballot + 1
                OBVIOUS
            <4>2. ballot'[m.to] = b0 /\ ballot[m.to] < b0
                BY <2>3, <3>1, <3>2, <4>1 DEF LearnBallot, Advance, TypeRest
            <4>3. msgs' = msgs \cup {PrepareReq(m.to, b0, "leader")}
                BY <2>3, <3>2, <4>1 DEF LearnBallot, Send
            <4>. QED
                BY <2>3, <3>1, <4>2, <4>3, MailRequest
        <3>3. CASE ~CheckLeader(m.to)
            BY <2>3, <3>1, <3>3, MailNone DEF LearnBallot
        <3>. QED
            BY <3>2, <3>3
    <2>4. ASSUME m.type = "change", Up(m.to), OnChangeLeader(m)
          PROVE  MailStep
        <3>1. /\ m.to \in Nodes /\ m.ballot \in Int /\ ballot[m.to] \in Int
              /\ UNCHANGED <<now, acceptorVars>> /\ m \in HandOvers
            BY <2>4, MessageFields, Domains DEF TypeRest, OnChangeLeader, HandOvers
        <3>2. PICK b0 : b0 = m.ballot
            OBVIOUS
        <3>3. ballot'[m.to] = b0
            BY <2>4, <3>1, <3>2 DEF OnChangeLeader, TypeRest
        <3>4. ballot[m.to] < b0 \/ (b0 = ballot[m.to] /\ m.from = m.to)
            BY <2>4, <3>1, <3>2 DEF OnChangeLeader
        <3>5. CASE m.to \in Candidates
            <4>1. msgs' = msgs \cup {PrepareReq(m.to, b0, "leader")}
                BY <2>4, <3>2, <3>5 DEF OnChangeLeader, Send
            <4>. QED
                BY <1>2, <2>4, <3>1, <3>2, <3>3, <3>4, <4>1, MailRequest
        <3>6. CASE m.to \notin Candidates
            <4>1. msgs' = msgs
                BY <2>4, <3>6 DEF OnChangeLeader, Send
            <4>. QED
                BY <3>1, <4>1, MailNone
        <3>. QED
            BY <3>5, <3>6
    <2>. QED
        BY <1>2, <2>1, <2>2, <2>3, <2>4, MailOnPrepareRequest, MailOnAcceptRequest
        DEF Receive
<1>3. ASSUME NEW p \in Nodes, Up(p), RenewLease(p)
      PROVE  MailStep
    <2>1. CASE CheckLeader(p)
        <3>1. PICK b0 : b0 = prepared[p]
            OBVIOUS
        <3>2. /\ msgs' = msgs \cup {AcceptReq(p, b0)} /\ prepared' = prepared
              /\ ballot' = ballot /\ lease' = lease /\ UNCHANGED <<now, acceptorVars>>
            BY <1>3, <2>1, <3>1 DEF RenewLease, Send, proposerVars, leaseVars
        <3>3. now < lease'[p]
            BY <2>1, <3>2 DEF CheckLeader
        <3>. QED
            BY <1>3, <3>1, <3>2, <3>3, MailProposal
    <2>2. CASE ~CheckLeader(p)
        BY <1>3, <2>2, MailNone DEF RenewLease
    <2>. QED
        BY <2>1, <2>2
<1>4. ASSUME NEW p \in Nodes, Up(p), Devote(p)
      PROVE  MailStep
    <2>1. PICK b0, r : b0 = ballot'[p] /\ r = role'[p]
        OBVIOUS
    <2>2. msgs' = msgs \cup {PrepareReq(p, b0, r)} /\ UNCHANGED <<now, acceptorVars>>
        BY <1>4, <2>1 DEF Devote, Send
    <2>3. CASE r = "follower"
        <3>1. Advance(p, ballot[p] + 1) /\ ballot[p] \in Int
            BY <1>4, <2>1, <2>3, Domains DEF Devote, TypeRest
        <3>2. ballot[p] < b0
            BY <2>1, <3>1 DEF Advance, TypeRest
        <3>. QED
            BY <1>4, <2>1, <2>2, <3>2, MailRequest
    <2>4. CASE r # "follower"
        <3>1. CheckLeader(p) /\ ballot' = ballot /\ prepared[p] # ballot[p]
            BY <1>4, <2>1, <2>4 DEF Devote, TypeRest
        <3>2. r = "leader"
            <4>1. TypeRest'
                BY <1>4, DevoteType
            <4>. QED
                BY <2>1, <2>4, <4>1 DEF TypeRest
        <3>. QED
            BY <1>4, <2>1, <2>2, <3>1, <3>2, MailRequest
    <2>. QED
        BY <2>3, <2>4
<1>5. ASSUME NEW p \in Nodes, DevoteInVain(p)
      PROVE  MailStep
    BY <1>5, MailNone DEF DevoteInVain
<1>6. ASSUME NEW p \in Nodes, ForgetLease(p)
      PROVE  MailStep
    <2>1. UNCHANGED <<now, msgs, best, window>>
        BY <1>6 DEF ForgetLease
    <2>2. \A q \in Nodes : Waits(q)
        BY <2>1 DEF Waits
    <2>. QED
        BY <2>1, <2>2 DEF MailStep
<1>7. ASSUME NEW p \in Nodes, Up(p), NEW q \in Nodes, ChangeLeaderTo(p, q)
      PROVE  MailStep
    <2>. DEFINE h == ChangeLeader(p, q, ballot[p] + 1, ballot[p])
    <2>1. h.sent = now /\ h.type = "change" /\ h.from = p
        BY DEF ChangeLeader
    <2>. HIDE DEF h
    <2>2. msgs' = msgs \cup {h} /\ UNCHANGED <<now, acceptorVars>>
        BY <1>7 DEF ChangeLeaderTo, Send, h
    <2>3. Prepares' = Prepares
        BY <2>1, <2>2 DEF Prepares
    <2>4. Mailed(h)
        BY <1>7, <2>1, <2>3 DEF Mailed
    <2>. QED
        BY <2>2, <2>4, MailProposer
<1>. QED
    BY <1>1, <1>2, <1>3, <1>4, <1>5, <1>6, <1>7, MailVote DEF Step, Run, Fresh

-----------------------------------------------------------------------------
(* What a step makes a proposer believe, and why *)

\* A proposer adds votes of its ballot, or starts over.
VotesBelieved(p) ==
    \/ prepareOk'[p] = {}
    \/ /\ ballot'[p] = ballot[p]
       /\ \A q \in prepareOk'[p] :
            \/ q \in prepareOk[p]
            \/ /\ Up(p)
               /\ \E v \in Votes : /\ Fresh(v) /\ v.from = q /\ v.to = p
                                   /\ v.ballot = ballot[p] /\ LeaseAllows(p, v.lease)

\* The same for the promises it collects.
PromisesBelieved(p) ==
    \A q \in Nodes :
        \/ promised'[p][q] = 0
        \/ promised'[p][q] = promised[p][q] /\ ballot'[p] = ballot[p]
        \/ /\ Up(p) /\ ballot'[p] = ballot[p]
           /\ \E g \in Grants : /\ Fresh(g) /\ g.from = q /\ g.to = p
                                /\ g.ballot = ballot[p]
                                /\ promised'[p][q] = g.start + LeaseInterval

\* A hand-over names its source; a new ballot drops it.
SourceBelieved(p) ==
    \/ source'[p] = NoSource
    \/ source'[p] = source[p] /\ ballot'[p] = ballot[p]
    \/ \E h \in HandOvers :
        /\ Up(p) /\ Fresh(h) /\ h.to = p /\ h.ballot = ballot'[p]
        /\ h.from = source'[p].addr /\ h.old = source'[p].ballot
        /\ ballot[p] < ballot'[p] \/ h.from = p
        /\ HandOvers' = HandOvers
        /\ \A x \in Prepares' : x \notin Prepares => x.role = "leader"

\* A ballot is won by a majority.
BallotWon(p) ==
    \/ prepared'[p] = prepared[p]
    \/ /\ Wins(p)
       /\ \E m \in Proposals' : m.from = p /\ m.ballot = ballot[p] /\ m.start = now

\* The lease is the median of promises in the ballot, one of them new.
LeaseExtended(p) ==
    /\ Up(p) /\ UNCHANGED <<ballot, prepared>> /\ HandOvers' = HandOvers
    /\ 0 < lease'[p]
    /\ \E m \in Grants :
        /\ Fresh(m) /\ m.to = p /\ m.ballot = ballot[p]
        /\ IsMajority({q \in Nodes : Acks(m)[q] >= lease'[p]})
        /\ \E q \in Nodes : Acks(m)[q] = lease'[p]

\* A lease is kept, given up or extended.
LeaseBelieved(p) ==
    lease'[p] = lease[p] \/ lease'[p] = INVALID \/ LeaseExtended(p)

\* What a step that is no restart makes the proposers believe
BeliefStep ==
    \A p \in Nodes :
        /\ VotesBelieved(p) /\ PromisesBelieved(p) /\ SourceBelieved(p)
        /\ BallotWon(p) /\ LeaseBelieved(p)

\* Nothing new
LEMMA BeliefSame ==
    ASSUME UNCHANGED <<ballot, countVars, source, prepared, lease>>
    PROVE  BeliefStep
<1>1. UNCHANGED <<ballot, prepareOk, promised, source, prepared, lease>>
    BY DEF countVars
<1>2. \A p \in Nodes : VotesBelieved(p)
    BY <1>1 DEF VotesBelieved
<1>3. \A p \in Nodes : PromisesBelieved(p) /\ SourceBelieved(p) /\ BallotWon(p)
                         /\ LeaseBelieved(p)
    BY <1>1 DEF PromisesBelieved, SourceBelieved, BallotWon, LeaseBelieved
<1>. QED
    BY <1>2, <1>3 DEF BeliefStep

\* A new ballot, with the lease as it is or given up
LEMMA BeliefAdvance ==
    ASSUME TypeRest, prepared' = prepared, NEW r \in Nodes, NEW b0 \in Ballot,
           Advance(r, b0),
           \A p \in Nodes : lease'[p] = lease[p] \/ lease'[p] = INVALID
    PROVE  BeliefStep
<1>1. \A p \in Nodes : p # r =>
        /\ ballot'[p] = ballot[p] /\ prepareOk'[p] = prepareOk[p]
        /\ promised'[p] = promised[p] /\ source'[p] = source[p]
    BY DEF Advance, TypeRest
<1>2. /\ ballot'[r] = b0 /\ prepareOk'[r] = {} /\ source'[r] = NoSource
      /\ \A q \in Nodes : promised'[r][q] = 0
    BY DEF Advance, TypeRest
<1>3. \A p \in Nodes : VotesBelieved(p)
    BY <1>1, <1>2 DEF VotesBelieved
<1>4. \A p \in Nodes : PromisesBelieved(p) /\ SourceBelieved(p) /\ BallotWon(p)
                         /\ LeaseBelieved(p)
    BY <1>1, <1>2 DEF PromisesBelieved, SourceBelieved, BallotWon, LeaseBelieved
<1>. QED
    BY <1>3, <1>4 DEF BeliefStep

\* on_prepare_response()
LEMMA BeliefOnPrepareResponse ==
    ASSUME TypeRest, NEW m \in msgs, m.type = "prepared", Fresh(m), Up(m.to),
           OnPrepareResponse(m)
    PROVE  BeliefStep
<1>1. m.to \in Nodes /\ m.from \in Nodes /\ m \in Votes
    BY MessageFields DEF TypeRest, Votes
<1>. DEFINE r == m.to
            ok == prepareOk[r] \cup {m.from}
<1>2. /\ UNCHANGED <<ballot, promised, source, lease>>
      /\ prepareOk' = [prepareOk EXCEPT ![r] = ok]
      /\ m.ballot = ballot[r] /\ LeaseAllows(r, m.lease)
    BY DEF OnPrepareResponse, Counts, leaseVars
<1>3. \A p \in Nodes : VotesBelieved(p)
    <2>1. \A p \in Nodes : \A q \in prepareOk'[p] :
            q \in prepareOk[p] \/ (p = r /\ q = m.from)
        BY <1>1, <1>2 DEF TypeRest
    <2>. QED
        BY <1>1, <1>2, <2>1 DEF VotesBelieved
<1>4. \A p \in Nodes : PromisesBelieved(p) /\ SourceBelieved(p) /\ LeaseBelieved(p)
    BY <1>2 DEF PromisesBelieved, SourceBelieved, LeaseBelieved
<1>5. \A p \in Nodes : BallotWon(p)
    <2>1. CASE prepared' = prepared
        BY <2>1 DEF BallotWon
    <2>2. CASE /\ Wins(r) /\ prepared' = [prepared EXCEPT ![r] = ballot[r]]
               /\ msgs' = msgs \cup {AcceptReq(r, ballot[r])}
        <3>1. \A p \in Nodes : p # r => prepared'[p] = prepared[p]
            BY <2>2 DEF TypeRest
        <3>. DEFINE x == AcceptReq(r, ballot[r])
        <3>2. x.type = "accept" /\ x.from = r /\ x.ballot = ballot[r] /\ x.start = now
            BY DEF AcceptReq
        <3>3. x \in msgs'
            BY <2>2
        <3>. HIDE DEF x
        <3>4. x \in Proposals'
            BY <3>2, <3>3 DEF Proposals
        <3>5. BallotWon(r)
            BY <2>2, <3>2, <3>4 DEF BallotWon
        <3>. QED
            BY <3>1, <3>5 DEF BallotWon
    <2>. QED
        BY <2>1, <2>2, WinsOnPrepareResponse
<1>. QED
    BY <1>3, <1>4, <1>5 DEF BeliefStep

\* on_accept_response()
LEMMA BeliefOnAcceptResponse ==
    ASSUME TypeRest, NEW m \in msgs, m.type = "accepted", Fresh(m), Up(m.to),
           OnAcceptResponse(m)
    PROVE  BeliefStep
<1>1. m.to \in Nodes /\ m.from \in Nodes /\ m \in Grants
    BY MessageFields DEF TypeRest, Grants
<1>2. ballot' = ballot /\ prepared' = prepared /\ m.ballot = ballot[m.to]
    BY OnAcceptResponseEffects DEF Counts
<1>3. \A p \in Nodes : prepareOk'[p] = {} \/ prepareOk'[p] = prepareOk[p]
    <2>1. CASE prepareOk' = prepareOk
        BY <2>1
    <2>2. CASE prepareOk' = [prepareOk EXCEPT ![m.to] = {}]
        BY <1>1, <2>2 DEF TypeRest
    <2>3. CASE prepareOk' = [prepareOk EXCEPT ![m.to] = prepareOk[m.to]]
        BY <1>1, <2>3 DEF TypeRest
    <2>. QED
        BY <2>1, <2>2, <2>3, OnAcceptResponseEffects
<1>4. \A p \in Nodes : source'[p] = NoSource \/ source'[p] = source[p]
    <2>1. CASE source' = source
        BY <2>1
    <2>2. CASE source' = [source EXCEPT ![m.to] = NoSource]
        BY <1>1, <2>2 DEF TypeRest
    <2>. QED
        BY <2>1, <2>2, OnAcceptResponseEffects
<1>5. \A p, q \in Nodes :
        \/ promised'[p][q] = 0 \/ promised'[p][q] = promised[p][q]
        \/ p = m.to /\ q = m.from /\ promised'[p][q] = m.start + LeaseInterval
    <2>1. \A q \in Nodes : \/ Acks(m)[q] = promised[m.to][q]
                           \/ q = m.from /\ Acks(m)[q] = m.start + LeaseInterval
        BY <1>1 DEF Acks, TypeRest
    <2>2. CASE promised' = [promised EXCEPT ![m.to] = Acks(m)]
        BY <1>1, <2>1, <2>2 DEF TypeRest
    <2>3. CASE promised' = [promised EXCEPT ![m.to] = [q \in Nodes |-> 0]]
        BY <1>1, <2>3 DEF TypeRest
    <2>. QED
        BY <2>2, <2>3, OnAcceptResponseEffects
<1>6. \A p \in Nodes : VotesBelieved(p)
    BY <1>2, <1>3 DEF VotesBelieved
<1>7. \A p \in Nodes : PromisesBelieved(p)
    BY <1>1, <1>2, <1>5 DEF PromisesBelieved
<1>8. \A p \in Nodes : SourceBelieved(p) /\ BallotWon(p)
    BY <1>2, <1>4 DEF SourceBelieved, BallotWon
<1>9. HandOvers' = HandOvers
    <2>1. AcceptReq(m.to, prepared[m.to]).type = "accept"
        BY DEF AcceptReq
    <2>. QED
        BY <2>1, OnAcceptResponseEffects DEF HandOvers
<1>10. \A p \in Nodes : LeaseBelieved(p)
    <2>1. CASE UNCHANGED leaseVars
        BY <2>1 DEF leaseVars, LeaseBelieved
    <2>2. ASSUME NEW t \in {Acks(m)[q] : q \in Nodes},
                 IsMajority({q \in Nodes : Acks(m)[q] # 0}),
                 IsMedian(Acks(m), t), NewLease(m.to, t)
          PROVE  \A p \in Nodes : LeaseBelieved(p)
        <3>1. Acks(m) \in [Nodes -> Time \ {INVALID}]
            BY AcksType
        <3>2. t \in Nat
            BY <3>1, Domains
        <3>3. t # 0
            <4>1. SUFFICES ASSUME t = 0 PROVE FALSE
                OBVIOUS
            <4>2. \A q \in Nodes : Acks(m)[q] \in Nat
                BY <3>1, Domains
            <4>3. {q \in Nodes : Acks(m)[q] # 0} = {q \in Nodes : Acks(m)[q] > t}
                BY <4>1, <4>2
            <4>. QED
                BY <2>2, <4>3 DEF IsMedian
        <3>4. IsMajority({q \in Nodes : Acks(m)[q] >= t})
            BY <2>2 DEF IsMedian
        <3>. DEFINE old == IF role[m.to] = "leader" /\ ~CheckLeader(m.to)
                           THEN INVALID ELSE lease[m.to]
        <3>5. lease' = [lease EXCEPT ![m.to] = IF t > old THEN t ELSE old]
            BY <2>2 DEF NewLease
        <3>6. old = INVALID \/ old = lease[m.to]
            OBVIOUS
        <3>. HIDE DEF old
        <3>7. /\ lease'[m.to] = t \/ lease'[m.to] = lease[m.to] \/ lease'[m.to] = INVALID
              /\ \A p \in Nodes : p # m.to => lease'[p] = lease[p]
            BY <1>1, <3>5, <3>6 DEF TypeRest
        <3>8. lease'[m.to] = t => LeaseExtended(m.to)
            <4>1. PICK q \in Nodes : t = Acks(m)[q]
                OBVIOUS
            <4>2. SUFFICES ASSUME lease'[m.to] = t
                           PROVE  LeaseExtended(m.to)
                OBVIOUS
            <4>3. 0 < lease'[m.to] /\ Acks(m)[q] = lease'[m.to]
                BY <3>2, <3>3, <4>1, <4>2
            <4>4. IsMajority({r \in Nodes : Acks(m)[r] >= lease'[m.to]})
                BY <3>4, <4>2
            <4>. QED
                BY <1>1, <1>2, <1>9, <4>1, <4>3, <4>4 DEF LeaseExtended
        <3>. QED
            BY <3>7, <3>8 DEF LeaseBelieved
    <2>. QED
        BY <2>1, <2>2, OnAcceptResponseEffects
<1>. QED
    BY <1>6, <1>7, <1>8, <1>10 DEF BeliefStep

\* on_change_leader()
LEMMA BeliefOnChangeLeader ==
    ASSUME TypeRest, NEW m \in msgs, m.type = "change", Fresh(m), Up(m.to),
           OnChangeLeader(m)
    PROVE  BeliefStep
<1>1. m.to \in Nodes /\ m.ballot \in Int /\ m \in HandOvers /\ ballot[m.to] \in Int
    BY MessageFields, Domains DEF TypeRest, HandOvers
<1>2. /\ UNCHANGED <<prepared, lease>>
      /\ ballot' = [ballot EXCEPT ![m.to] = m.ballot]
      /\ prepareOk' = [prepareOk EXCEPT ![m.to] = {}]
      /\ promised' = [promised EXCEPT ![m.to] = [q \in Nodes |-> 0]]
      /\ source' = [source EXCEPT ![m.to] = [addr |-> m.from, ballot |-> m.old]]
      /\ m.from = m.to \/ m.ballot > ballot[m.to]
    BY DEF OnChangeLeader, leaseVars
<1>3. \A p \in Nodes : p # m.to =>
        /\ ballot'[p] = ballot[p] /\ prepareOk'[p] = prepareOk[p]
        /\ promised'[p] = promised[p] /\ source'[p] = source[p]
    BY <1>2 DEF TypeRest
<1>4. /\ ballot'[m.to] = m.ballot /\ prepareOk'[m.to] = {}
      /\ \A q \in Nodes : promised'[m.to][q] = 0
      /\ source'[m.to].addr = m.from /\ source'[m.to].ballot = m.old
    BY <1>1, <1>2 DEF TypeRest
<1>5. \A p \in Nodes : VotesBelieved(p)
    BY <1>3, <1>4 DEF VotesBelieved
<1>6. \A p \in Nodes : PromisesBelieved(p) /\ BallotWon(p) /\ LeaseBelieved(p)
    BY <1>2, <1>3, <1>4 DEF PromisesBelieved, BallotWon, LeaseBelieved
<1>7. SourceBelieved(m.to)
    <2>1. ballot[m.to] < ballot'[m.to] \/ m.from = m.to
        BY <1>1, <1>2, <1>4
    <2>2. /\ HandOvers' = HandOvers
          /\ \A x \in Prepares' : x \notin Prepares => x.role = "leader"
        <3>1. /\ PrepareReq(m.to, m.ballot, "leader").type = "prepare"
              /\ PrepareReq(m.to, m.ballot, "leader").role = "leader"
            BY DEF PrepareReq
        <3>2. msgs' = msgs \/ msgs' = msgs \cup {PrepareReq(m.to, m.ballot, "leader")}
            BY DEF OnChangeLeader, Send
        <3>. QED
            BY <3>1, <3>2 DEF HandOvers, Prepares
    <2>. QED
        BY <1>1, <1>4, <2>1, <2>2 DEF SourceBelieved
<1>8. \A p \in Nodes : SourceBelieved(p)
    BY <1>3, <1>7 DEF SourceBelieved
<1>. QED
    BY <1>5, <1>6, <1>8 DEF BeliefStep

\* What a step other than a restart makes of the proposers.
LEMMA StepBelief ==
    ASSUME TypeRest, \A p \in Nodes : ~Restart(p), Step
    PROVE  BeliefStep
<1>1. CASE Tick
    BY <1>1, BeliefSame DEF Tick, proposerVars, leaseVars
<1>2. ASSUME NEW m \in msgs, NEW p \in Nodes,
             \/ m.type = "prepare" /\ OnPrepareRequest(p, m)
             \/ m.type = "accept" /\ OnAcceptRequest(p, m)
      PROVE  BeliefStep
    <2>1. m.ballot \in Ballot /\ UNCHANGED <<prepared, lease>>
        BY <1>2, MessageFields DEF TypeRest, OnPrepareRequest, OnAcceptRequest, leaseVars
    <2>2. Advance(p, m.ballot) \/ UNCHANGED <<ballot, countVars, source>>
        BY <1>2 DEF OnPrepareRequest, OnAcceptRequest
    <2>. QED
        BY <2>1, <2>2, BeliefAdvance, BeliefSame
<1>3. ASSUME NEW m \in msgs, LearnBallot(m),
             m.type \in {"prepared", "accepted", "rejected"}
      PROVE  BeliefStep
    <2>1. m.to \in Nodes /\ m.ballot \in Ballot /\ UNCHANGED <<prepared, lease>>
        BY <1>3, MessageFields DEF TypeRest, LearnBallot, leaseVars
    <2>2. \E b0 \in Ballot : Advance(m.to, b0)
        <3>1. m.ballot < MaxBallot => m.ballot + 1 \in Ballot
            BY <2>1, Domains, TimeAssumption
        <3>. QED
            BY <1>3, <2>1, <3>1 DEF LearnBallot
    <2>. QED
        BY <2>1, <2>2, BeliefAdvance
<1>4. ASSUME NEW p \in Nodes, RenewLease(p)
      PROVE  BeliefStep
    <2>1. CASE CheckLeader(p)
        BY <1>4, <2>1, BeliefSame DEF RenewLease, proposerVars, leaseVars
    <2>2. CASE ~CheckLeader(p)
        <3>1. /\ UNCHANGED <<ballot, prepared, source>>
              /\ prepareOk' = [prepareOk EXCEPT ![p] = {}]
              /\ promised' = [promised EXCEPT ![p] = [q \in Nodes |-> 0]]
              /\ lease' = [lease EXCEPT ![p] = INVALID]
            BY <1>4, <2>2 DEF RenewLease
        <3>2. \A r \in Nodes : prepareOk'[r] = {} \/ prepareOk'[r] = prepareOk[r]
            BY <3>1 DEF TypeRest
        <3>3. \A r, q \in Nodes : promised'[r][q] = 0 \/ promised'[r][q] = promised[r][q]
            BY <3>1 DEF TypeRest
        <3>4. \A r \in Nodes : lease'[r] = lease[r] \/ lease'[r] = INVALID
            BY <3>1 DEF TypeRest
        <3>5. \A r \in Nodes : VotesBelieved(r)
            BY <3>1, <3>2 DEF VotesBelieved
        <3>6. \A r \in Nodes : PromisesBelieved(r) /\ SourceBelieved(r) /\ BallotWon(r)
                                 /\ LeaseBelieved(r)
            BY <3>1, <3>3, <3>4
            DEF PromisesBelieved, SourceBelieved, BallotWon, LeaseBelieved
        <3>. QED
            BY <3>5, <3>6 DEF BeliefStep
    <2>. QED
        BY <2>1, <2>2
<1>5. ASSUME NEW p \in Nodes, Devote(p)
      PROVE  BeliefStep
    <2>1. UNCHANGED <<prepared, lease>>
        BY <1>5 DEF Devote, leaseVars
    <2>2. CASE ballot[p] < MaxBallot /\ Advance(p, ballot[p] + 1)
        <3>1. ballot[p] + 1 \in Ballot
            BY <2>2, Domains, TimeAssumption DEF TypeRest
        <3>. QED
            BY <2>1, <2>2, <3>1, BeliefAdvance
    <2>3. CASE UNCHANGED <<ballot, countVars, source>>
        BY <2>1, <2>3, BeliefSame
    <2>. QED
        BY <1>5, <2>2, <2>3 DEF Devote
<1>6. ASSUME NEW p \in Nodes, DevoteInVain(p) \/ Vote(p) \/ ForgetLease(p)
      PROVE  BeliefStep
    <2>1. UNCHANGED <<ballot, countVars, source, prepared, lease>>
        BY <1>6 DEF DevoteInVain, Vote, ForgetLease, proposerVars, leaseVars
    <2>. QED
        BY <2>1, BeliefSame
<1>7. ASSUME NEW p \in Nodes, NEW q \in Nodes, ChangeLeaderTo(p, q)
      PROVE  BeliefStep
    <2>1. ballot[p] + 1 \in Ballot
        BY <1>7, Domains, TimeAssumption DEF TypeRest, ChangeLeaderTo
    <2>2. /\ prepared' = prepared /\ Advance(p, ballot[p] + 1)
          /\ lease' = [lease EXCEPT ![p] = INVALID]
        BY <1>7 DEF ChangeLeaderTo
    <2>3. \A r \in Nodes : lease'[r] = lease[r] \/ lease'[r] = INVALID
        BY <2>2 DEF TypeRest
    <2>. QED
        BY <2>1, <2>2, <2>3, BeliefAdvance
<1>8. ASSUME NEW m \in msgs, Fresh(m), Receive(m)
      PROVE  BeliefStep
    BY <1>2, <1>3, <1>8, BeliefOnPrepareResponse, BeliefOnAcceptResponse,
       BeliefOnChangeLeader DEF Receive
<1>. QED
    BY <1>1, <1>4, <1>5, <1>6, <1>7, <1>8 DEF Step, Run, Fresh

-----------------------------------------------------------------------------
(* What a step makes an acceptor promise *)

\* An acceptor that takes a lease tells its owner.
LeaseTaken ==
    \A q \in Nodes :
        \/ accLease'[q] = accLease[q] \/ accLease'[q].owner = NoNode
        \/ \E g \in Grants' :
            /\ g.from = q /\ g.sent = now
            /\ g.to = accLease'[q].owner /\ g.ballot = accLease'[q].ballot

\* Each step that is no restart is of this kind.
LEMMA StepLeaseTaken ==
    ASSUME TypeRest, \A p \in Nodes : ~Restart(p), Step
    PROVE  LeaseTaken
<1>1. CASE accLease' = accLease
    BY <1>1 DEF LeaseTaken
<1>2. ASSUME NEW m \in msgs, m.type = "accept", NEW p \in Nodes, OnAcceptRequest(p, m)
      PROVE  LeaseTaken
    <2>1. CASE accLease' = accLease
        BY <1>1, <2>1
    <2>2. ASSUME NEW e \in Time,
                 accLease' = [accLease EXCEPT ![p] =
                            [owner |-> m.from, ballot |-> m.ballot, end |-> e]],
                 msgs' = msgs \cup {AcceptResp(p, m)}
          PROVE  LeaseTaken
        <3>. DEFINE g == AcceptResp(p, m)
        <3>1. /\ g.type = "accepted" /\ g.from = p /\ g.to = m.from
              /\ g.ballot = m.ballot /\ g.sent = now
            BY DEF AcceptResp
        <3>. HIDE DEF g
        <3>2. g \in Grants'
            BY <2>2, <3>1 DEF Grants, g
        <3>3. /\ accLease'[p].owner = m.from /\ accLease'[p].ballot = m.ballot
              /\ \A q \in Nodes : q # p => accLease'[q] = accLease[q]
            BY <2>2 DEF TypeRest
        <3>. QED
            BY <3>1, <3>2, <3>3 DEF LeaseTaken
    <2>. QED
        BY <1>2, <2>1, <2>2, OnAcceptRequestEffects
<1>3. ASSUME NEW p \in Nodes, Vote(p) \/ ForgetLease(p)
      PROVE  LeaseTaken
    <2>1. \A q \in Nodes : accLease'[q] = accLease[q] \/ accLease'[q].owner = NoNode
        <3>1. CASE ForgetLease(p)
            BY <3>1 DEF ForgetLease, TypeRest
        <3>2. CASE Vote(p)
            <4>1. accLease' = [accLease EXCEPT ![p] = VotingLease(p)]
                BY <3>2 DEF Vote, VotingLease
            <4>2. VotingLease(p) = accLease[p] \/ VotingLease(p).owner = NoNode
                BY DEF VotingLease, TypeRest
            <4>. QED
                BY <4>1, <4>2 DEF TypeRest
        <3>. QED
            BY <1>3, <3>1, <3>2
    <2>. QED
        BY <2>1 DEF LeaseTaken
<1>4. ASSUME NEW m \in msgs, Receive(m), m.type # "accept"
      PROVE  accLease' = accLease
    BY <1>4 DEF Receive, OnPrepareRequest, OnPrepareResponse, OnAcceptResponse,
                LearnBallot, OnChangeLeader, acceptorVars
<1>5. ASSUME NEW p \in Nodes, Run(p), ~Vote(p), ~ForgetLease(p)
      PROVE  accLease' = accLease
    BY <1>5 DEF Run, RenewLease, Devote, DevoteInVain, ChangeLeaderTo, acceptorVars
<1>6. Tick => accLease' = accLease
    BY DEF Tick, acceptorVars
<1>. QED
    BY <1>1, <1>2, <1>3, <1>4, <1>5, <1>6 DEF Step, Receive

-----------------------------------------------------------------------------
(* The numbers *)

\* The types that the argument uses, without those of the rest
LifeTyped ==
    /\ \A m \in msgs : m.sent \in Nat /\ (m.type # "rejected" => m.from \in Nodes)
    /\ \A x \in Prepares : /\ x \in msgs /\ x.type = "prepare" /\ x.from \in Nodes
                           /\ x.ballot \in Int /\ x.sent \in Nat
                           /\ x.role \in {"leader", "follower"}
    /\ \A v \in Votes : /\ v \in msgs /\ v.type = "prepared" /\ v.from \in Nodes
                        /\ v.to \in Nodes /\ v.ballot \in Int /\ v.sent \in Nat
                        /\ v.lease \in VoteLease
    /\ \A m \in Proposals : /\ m \in msgs /\ m.type = "accept" /\ m.from \in Nodes
                            /\ m.ballot \in Ballot /\ m.ballot \in Int
                            /\ m.sent \in Nat /\ m.start \in Nat
    /\ \A g \in Grants : /\ g \in msgs /\ g.type = "accepted" /\ g.from \in Nodes
                         /\ g.to \in Nodes /\ g.ballot \in Ballot /\ g.ballot \in Int
                         /\ g.sent \in Nat /\ g.start \in Nat
    /\ \A h \in HandOvers : /\ h \in msgs /\ h.type = "change" /\ h.from \in Nodes
                            /\ h.to \in Nodes /\ h.ballot \in Int /\ h.old \in Int
                            /\ h.sent \in Nat
    /\ \A q \in Nodes : /\ accBallot[q] \in Int /\ ballot[q] \in Int /\ ballot[q] \in Ballot
                        /\ prepared[q] \in Int /\ prepared[q] \in Ballot
                        /\ window[q] \in Int /\ lease[q] \in Int /\ initTs[q] \in Int
                        /\ accLease[q].end \in Int /\ accLease[q].ballot \in Int
                        /\ prepareOk[q] \in SUBSET Nodes
    /\ \A q \in Nodes : best[q] # NoRequest =>
            best[q].from \in Nodes /\ best[q].opened \in Int
    /\ now \in Nat /\ now <= MaxTime

\* They follow from the type invariant.
LEMMA LifeNumbers == TypeRest => LifeTyped
<1>. SUFFICES ASSUME TypeRest PROVE LifeTyped
    OBVIOUS
<1>1. \A m \in msgs : m \in Message
    BY DEF TypeRest
<1>2. \A m \in msgs : m.sent \in Nat /\ (m.type # "rejected" => m.from \in Nodes)
    BY <1>1, MessageFields, Domains
<1>3. \A x \in Prepares : /\ x \in msgs /\ x.type = "prepare" /\ x.from \in Nodes
                          /\ x.ballot \in Int /\ x.sent \in Nat
                          /\ x.role \in {"leader", "follower"}
    BY <1>1, <1>2, MessageFields, Domains DEF Prepares
<1>4. \A v \in Votes : /\ v \in msgs /\ v.type = "prepared" /\ v.from \in Nodes
                       /\ v.to \in Nodes /\ v.ballot \in Int /\ v.sent \in Nat
                       /\ v.lease \in VoteLease
    BY <1>2, Numbers DEF Votes
<1>5. \A m \in Proposals : /\ m \in msgs /\ m.type = "accept" /\ m.from \in Nodes
                           /\ m.ballot \in Ballot /\ m.ballot \in Int
                           /\ m.sent \in Nat /\ m.start \in Nat
    BY <1>2, Numbers DEF Proposals
<1>6. \A g \in Grants : /\ g \in msgs /\ g.type = "accepted" /\ g.from \in Nodes
                        /\ g.to \in Nodes /\ g.ballot \in Ballot /\ g.ballot \in Int
                        /\ g.sent \in Nat /\ g.start \in Nat
    BY <1>2, Numbers DEF Grants
<1>7. \A h \in HandOvers : /\ h \in msgs /\ h.type = "change" /\ h.from \in Nodes
                           /\ h.to \in Nodes /\ h.ballot \in Int /\ h.old \in Int
                           /\ h.sent \in Nat
    BY <1>2, Numbers DEF HandOvers
<1>8. \A q \in Nodes : /\ accBallot[q] \in Int /\ ballot[q] \in Int /\ ballot[q] \in Ballot
                       /\ prepared[q] \in Int /\ prepared[q] \in Ballot
                       /\ window[q] \in Int /\ lease[q] \in Int /\ initTs[q] \in Int
                       /\ accLease[q].end \in Int /\ accLease[q].ballot \in Int
                       /\ prepareOk[q] \in SUBSET Nodes
    BY Domains DEF TypeRest
<1>9. \A q \in Nodes : best[q] # NoRequest =>
            best[q].from \in Nodes /\ best[q].opened \in Int
    <2>1. \A q \in Nodes : best[q] # NoRequest => best[q] \in [from : Nodes, opened : Clock]
        BY DEF TypeRest, Request
    <2>. QED
        BY <2>1, Domains
<1>10. now \in Nat /\ now <= MaxTime
    BY Domains DEF TypeRest
<1>. QED
    BY <1>2, <1>3, <1>4, <1>5, <1>6, <1>7, <1>8, <1>9, <1>10 DEF LifeTyped

\* The times that a replica waits, in relation to each other.
Periods ==
    /\ LeaseInterval \in Nat /\ MaxLeaseTime \in Nat /\ MaxDelay \in Nat
    /\ MaxWindow \in Nat /\ DownTime \in Nat /\ Campaign \in Nat /\ Gap \in Nat
    /\ MaxTime \in Nat
    /\ 0 < LeaseInterval /\ MaxDelay < LeaseInterval /\ MaxWindow <= LeaseInterval
    /\ Campaign = MaxDelay + MaxDelay + LeaseInterval
    /\ Gap = DownTime + MaxLeaseTime
    /\ Campaign < DownTime /\ Campaign + Campaign + LeaseInterval <= Gap

\* Patient gives them.
LEMMA PeriodsHold == Patient => Periods
BY TimeAssumption DEF Patient, Periods, Campaign, Gap

\* Messages stay, and new ones have been sent for a reason.
News ==
    /\ msgs \subseteq msgs'
    /\ \A m \in msgs' : m \notin msgs =>
        m.sent = now /\ now' = now /\ (m.type # "rejected" => Up(m.from))
    /\ Prepares \subseteq Prepares' /\ Votes \subseteq Votes'
    /\ Proposals \subseteq Proposals' /\ Grants \subseteq Grants'
    /\ HandOvers \subseteq HandOvers'
    /\ \A x \in Prepares' : x \notin Prepares =>
        x.sent = now /\ now' = now /\ Up(x.from) /\ RequestMade(x)
    /\ \A v \in Votes' : v \notin Votes =>
        v.sent = now /\ now' = now /\ Up(v.from) /\ VoteMade(v) /\ VoteSent(v)
    /\ \A m \in Proposals' : m \notin Proposals =>
        m.sent = now /\ now' = now /\ Up(m.from) /\ ProposalMade(m)
    /\ \A g \in Grants' : g \notin Grants =>
        g.sent = now /\ now' = now /\ Up(g.from) /\ GrantMade(g) /\ GrantSent(g)
    /\ \A h \in HandOvers' : h \notin HandOvers =>
        /\ h.sent = now /\ now' = now /\ Up(h.from) /\ Prepares' = Prepares
        /\ HandOverSent(h)

\* Each step that is no restart sends only what News allows.
LEMMA StepNews ==
    ASSUME MailStep, NetworkStep
    PROVE  News
<1>1. msgs \subseteq msgs' /\ \A m \in msgs' : m \notin msgs => now' = now /\ Mailed(m)
    BY DEF MailStep
<1>2. /\ Prepares \subseteq Prepares' /\ Votes \subseteq Votes'
      /\ Proposals \subseteq Proposals' /\ Grants \subseteq Grants'
      /\ HandOvers \subseteq HandOvers'
    BY DEF MailStep, Prepares, Votes, Proposals, Grants, HandOvers
<1>3. \A x \in Prepares' : x \notin Prepares =>
        x.sent = now /\ now' = now /\ Up(x.from) /\ RequestMade(x)
    BY <1>1 DEF Prepares, Mailed
<1>4. \A v \in Votes' : v \notin Votes =>
        v.sent = now /\ now' = now /\ Up(v.from) /\ VoteMade(v) /\ VoteSent(v)
    BY <1>1 DEF Votes, Mailed, NetworkStep
<1>5. \A m \in Proposals' : m \notin Proposals =>
        m.sent = now /\ now' = now /\ Up(m.from) /\ ProposalMade(m)
    BY <1>1 DEF Proposals, Mailed
<1>6. \A g \in Grants' : g \notin Grants =>
        g.sent = now /\ now' = now /\ Up(g.from) /\ GrantMade(g) /\ GrantSent(g)
    BY <1>1 DEF Grants, Mailed, NetworkStep
<1>7. \A h \in HandOvers' : h \notin HandOvers =>
        /\ h.sent = now /\ now' = now /\ Up(h.from) /\ Prepares' = Prepares
        /\ HandOverSent(h)
    BY <1>1 DEF HandOvers, Mailed, NetworkStep
<1>. QED
    BY <1>1, <1>2, <1>3, <1>4, <1>5, <1>6, <1>7 DEF News, Mailed

\* A step that is not a restart
Effects ==
    /\ TypeRest /\ LifeTyped /\ LifeTyped' /\ Periods
    /\ News /\ AcceptorStep /\ LeaseTaken /\ ProposerStep /\ BeliefStep
    /\ \A q \in Nodes : best'[q] = NoRequest \/ Waits(q) \/ TakesIn(q)
    /\ initTs' = initTs

-----------------------------------------------------------------------------
(* The acceptor's words *)

\* Nothing is said in the silence after a restart.
LEMMA LivesStep ==
    ASSUME Effects, Lives, WindowAsked
    PROVE  Lives'
<1>1. LifeTyped /\ LifeTyped' /\ Periods /\ News /\ initTs' = initTs /\ now <= now'
    BY DEF Effects, AcceptorStep
<1>2. ASSUME NEW m \in msgs'
      PROVE  /\ m.sent <= now'
             /\ m.type # "rejected" => Present(m.from, m.sent)' \/ Past(m.from, m.sent)'
    <2>1. CASE m \in msgs
        BY <1>1, <2>1 DEF Lives, LifeTyped, Present, Past
    <2>2. CASE m \notin msgs
        BY <1>1, <2>2 DEF News, LifeTyped, Up, Present
    <2>. QED
        BY <2>1, <2>2
<1>3. ASSUME NEW w \in Words'
      PROVE  initTs'[w.from] + MaxLeaseTime <= w.sent \/ Past(w.from, w.sent)'
    <2>1. CASE w \in Words
        BY <1>1, <2>1 DEF Lives, Past
    <2>2. CASE w \in Votes' /\ w \notin Votes
        <3>1. ~Silent(w.from) \/ best[w.from] # NoRequest
            BY <1>1, <2>2 DEF News, VoteMade
        <3>2. initTs[w.from] + MaxLeaseTime <= now
            BY <1>1, <2>2, <3>1 DEF WindowAsked, Silent, LifeTyped, Periods
        <3>. QED
            BY <1>1, <2>2, <3>2 DEF News
    <2>3. CASE w \in Grants' /\ w \notin Grants
        <3>1. ~Silent(w.from)
            BY <1>1, <2>3 DEF News, GrantMade
        <3>2. initTs[w.from] + MaxLeaseTime <= now
            BY <1>1, <2>3, <3>1 DEF Silent, LifeTyped, Periods
        <3>. QED
            BY <1>1, <2>3, <3>2 DEF News
    <2>. QED
        BY <2>1, <2>2, <2>3 DEF Words
<1>4. \A m \in Proposals' : m.start = m.sent
    BY <1>1 DEF Lives, News, ProposalMade
<1>. QED
    BY <1>2, <1>3, <1>4 DEF Lives

\* The facts about a word that the argument uses: a past word is one Gap old
\* before the next word can be said.
LEMMA PastWord ==
    ASSUME LifeTyped, Periods, Lives, NEW w \in Words
    PROVE  /\ w.from \in Nodes /\ w.sent \in Nat /\ w.ballot \in Int /\ w.sent <= now
           /\ \/ Present(w.from, w.sent)
              \/ w.sent + Gap <= initTs[w.from] + MaxLeaseTime /\ Past(w.from, w.sent)
<1>1. /\ w \in msgs /\ w.type # "rejected" /\ w.from \in Nodes /\ w.sent \in Nat
      /\ w.ballot \in Int /\ initTs[w.from] \in Int
    BY DEF Words, LifeTyped
<1>2. w.sent <= now /\ (Present(w.from, w.sent) \/ Past(w.from, w.sent))
    BY <1>1 DEF Lives
<1>3. Past(w.from, w.sent) => w.sent + Gap <= initTs[w.from] + MaxLeaseTime
    BY <1>1 DEF Past, Periods
<1>. QED
    BY <1>1, <1>2, <1>3

\* A new word: its sender is not silent.
LEMMA NewWord ==
    ASSUME Effects, Lives', NEW w \in Words', w \notin Words
    PROVE  /\ w.from \in Nodes /\ w.sent = now /\ now' = now /\ w.ballot \in Int
           /\ initTs[w.from] + MaxLeaseTime <= now /\ initTs[w.from] <= now
<1>1. LifeTyped /\ LifeTyped' /\ Periods /\ News /\ initTs' = initTs
    BY DEF Effects
<1>2. /\ w.from \in Nodes /\ w.sent = now /\ now' = now /\ w.ballot \in Int /\ Up(w.from)
    BY <1>1 DEF Words, News, LifeTyped
<1>3. initTs[w.from] + MaxLeaseTime <= w.sent \/ w.sent + DownTime <= initTs[w.from]
    BY <1>1 DEF Lives, Past
<1>4. initTs[w.from] \in Int /\ now \in Int /\ DownTime > 0 /\ DownTime \in Int
    BY <1>1, <1>2 DEF LifeTyped, Periods
<1>5. initTs[w.from] <= now
    BY <1>2 DEF Up
<1>6. initTs[w.from] + MaxLeaseTime <= now
    BY <1>2, <1>3, <1>4, <1>5
<1>. QED
    BY <1>2, <1>5, <1>6

\* An acceptor's ballot only grows within a life.
LEMMA WordKeptStep ==
    ASSUME Effects, WordKept
    PROVE  WordKept'
<1>1. LifeTyped /\ LifeTyped' /\ News /\ initTs' = initTs
    BY DEF Effects
<1>2. \A q \in Nodes : accBallot[q] <= accBallot'[q]
    BY DEF Effects, AcceptorStep
<1>. SUFFICES ASSUME NEW w \in Words', Present(w.from, w.sent)'
              PROVE  w.ballot <= accBallot'[w.from]
    BY DEF WordKept
<1>3. w.from \in Nodes /\ w.ballot \in Int
    BY <1>1 DEF Words, LifeTyped
<1>4. CASE w \in Words
    <2>1. w.ballot <= accBallot[w.from]
        BY <1>1, <1>4 DEF WordKept, Present
    <2>. QED
        BY <1>1, <1>2, <1>3, <2>1 DEF LifeTyped
<1>5. CASE w \in Votes' /\ w \notin Votes
    BY <1>1, <1>3, <1>5 DEF News, VoteSent
<1>6. CASE w \in Grants' /\ w \notin Grants
    BY <1>1, <1>3, <1>6 DEF News, GrantSent
<1>. QED
    BY <1>4, <1>5, <1>6 DEF Words

\* A vote in a ballot that its sender has voted in before is one after a restart.
LEMMA VotesApartStep ==
    ASSUME Effects, Lives, Lives', WordKept, VotesApart
    PROVE  VotesApart'
<1>1. LifeTyped /\ LifeTyped' /\ Periods /\ News
    BY DEF Effects
<1>. SUFFICES ASSUME NEW v \in Votes', NEW w \in Votes', v.from = w.from,
                     v.ballot = w.ballot, v.sent <= w.sent
              PROVE  v.to = w.to \/ v.sent + Gap <= w.sent
    BY DEF VotesApart
<1>2. ASSUME NEW x \in Votes, NEW y \in Votes', y \notin Votes, x.from = y.from,
             x.ballot = y.ballot
      PROVE  x.sent + Gap <= y.sent /\ x.sent < y.sent
    <2>1. VoteSent(y) /\ x \in Words /\ y \in Words'
        BY <1>1, <1>2 DEF News, Words
    <2>2. y \notin Words
        BY <1>1, <1>2 DEF Words, Grants, LifeTyped
    <2>3. /\ x.sent \in Nat /\ x.from \in Nodes /\ x.ballot \in Int
          /\ \/ Present(x.from, x.sent)
             \/ x.sent + Gap <= initTs[x.from] + MaxLeaseTime
        BY <1>1, <2>1, PastWord
    <2>4. y.sent = now /\ initTs[y.from] + MaxLeaseTime <= now
        BY <2>1, <2>2, NewWord
    <2>5. ~Present(x.from, x.sent)
        <3>1. accBallot[x.from] < x.ballot /\ accBallot[x.from] \in Int
            BY <1>1, <1>2, <2>1, <2>3 DEF VoteSent, LifeTyped
        <3>. QED
            BY <2>1, <2>3, <3>1 DEF WordKept
    <2>6. initTs[x.from] \in Int /\ now \in Int
        BY <1>1, <2>3 DEF LifeTyped
    <2>. QED
        BY <1>1, <1>2, <2>3, <2>4, <2>5, <2>6 DEF Periods
<1>3. CASE v \in Votes /\ w \in Votes
    BY <1>3 DEF VotesApart
<1>4. CASE v \in Votes /\ w \notin Votes
    BY <1>2, <1>4
<1>5. CASE v \notin Votes /\ w \in Votes
    <2>1. w.sent < v.sent
        BY <1>2, <1>5
    <2>. QED
        BY <1>1, <2>1 DEF LifeTyped
<1>6. CASE v \notin Votes /\ w \notin Votes
    BY <1>1, <1>6 DEF News, VoteSent
<1>. QED
    BY <1>3, <1>4, <1>5, <1>6

\* A time window closes in time, and keeps a request that came in time.
LEMMA WindowAskedStep ==
    ASSUME Effects, WindowAsked
    PROVE  WindowAsked'
<1>1. LifeTyped /\ LifeTyped' /\ Periods /\ News /\ initTs' = initTs
    BY DEF Effects
<1>. SUFFICES ASSUME NEW q \in Nodes, best'[q] # NoRequest
              PROVE  /\ initTs'[q] + MaxLeaseTime <= now'
                     /\ best'[q].opened <= now' /\ now' <= best'[q].opened + MaxWindow
                     /\ \E x \in Prepares' :
                        /\ x.from = best'[q].from /\ x.ballot = window'[q]
                        /\ x.role = "follower" /\ best'[q].opened <= x.sent + MaxDelay
    BY DEF WindowAsked
<1>2. now \in Int /\ now' \in Int /\ initTs[q] \in Int /\ best'[q].opened \in Int
    BY <1>1 DEF LifeTyped
<1>3. CASE Waits(q)
    <2>1. /\ best[q] # NoRequest /\ best'[q] = best[q] /\ window'[q] = window[q]
          /\ now' = now \/ (now' = now + 1 /\ now < best[q].opened + MaxWindow)
        BY <1>3 DEF Waits
    <2>2. /\ initTs[q] + MaxLeaseTime <= now
          /\ best[q].opened <= now /\ now <= best[q].opened + MaxWindow
        BY <2>1 DEF WindowAsked
    <2>3. PICK x \in Prepares : /\ x.from = best[q].from /\ x.ballot = window[q]
                                /\ x.role = "follower"
                                /\ best[q].opened <= x.sent + MaxDelay
        BY <2>1 DEF WindowAsked
    <2>4. x \in Prepares'
        BY <1>1 DEF News
    <2>5. /\ initTs'[q] + MaxLeaseTime <= now'
          /\ best'[q].opened <= now' /\ now' <= best'[q].opened + MaxWindow
        BY <1>1, <1>2, <2>1, <2>2 DEF Periods
    <2>. QED
        BY <2>1, <2>3, <2>4, <2>5
<1>4. CASE TakesIn(q)
    <2>1. now' = now /\ initTs[q] + MaxLeaseTime <= now
        BY <1>1, <1>2, <1>4 DEF TakesIn, Silent, Periods
    <2>2. PICK x \in Prepares : /\ Fresh(x) /\ x.role = "follower"
                                /\ window'[q] = x.ballot /\ best'[q].from = x.from
        BY <1>4 DEF TakesIn
    <2>3. x \in Prepares' /\ x.sent \in Nat
        BY <1>1 DEF News, LifeTyped
    <2>4. best'[q].opened <= now /\ now <= best'[q].opened + MaxWindow
        BY <1>1, <1>2, <1>4 DEF TakesIn, WindowAsked, Periods
    <2>5. best'[q].opened <= x.sent + MaxDelay
        BY <1>1, <1>2, <2>2, <2>3, <2>4 DEF Fresh, Periods
    <2>. QED
        BY <1>1, <2>1, <2>2, <2>3, <2>4, <2>5
<1>. QED
    BY <1>3, <1>4 DEF Effects

\* A vote comes from a request in time, or from a window that kept one.
LEMMA VoteAskedStep ==
    ASSUME Effects, Lives, WindowAsked, VoteAsked
    PROVE  VoteAsked'
<1>1. LifeTyped /\ LifeTyped' /\ Periods /\ News
    BY DEF Effects
<1>. SUFFICES ASSUME NEW v \in Votes'
              PROVE  \E x \in Prepares' :
                /\ x.from = v.to /\ x.ballot = v.ballot /\ x.sent <= v.sent
                /\ v.sent <= x.sent + MaxDelay + (IF x.role = "leader" THEN 0 ELSE MaxWindow)
    BY DEF VoteAsked
<1>2. CASE v \in Votes
    BY <1>1, <1>2 DEF VoteAsked, News
<1>3. CASE v \notin Votes
    <2>1. VoteMade(v) /\ v.sent = now
        BY <1>1, <1>3 DEF News
    <2>2. \A x \in Prepares : x.sent \in Nat /\ x.sent <= now /\ x \in Prepares'
        BY <1>1 DEF LifeTyped, Lives, News
    <2>3. CASE \E x \in Prepares : /\ Fresh(x) /\ x.from = v.to /\ x.ballot = v.ballot
                                   /\ x.role = "leader"
        <3>1. PICK x \in Prepares : /\ Fresh(x) /\ x.from = v.to /\ x.ballot = v.ballot
                                    /\ x.role = "leader"
            BY <2>3
        <3>2. v.sent <= x.sent + MaxDelay + (IF x.role = "leader" THEN 0 ELSE MaxWindow)
            BY <1>1, <2>1, <2>2, <3>1 DEF Fresh, Periods
        <3>. QED
            BY <2>1, <2>2, <3>1, <3>2
    <2>4. CASE best[v.from] # NoRequest /\ best[v.from].from = v.to /\ window[v.from] = v.ballot
        <3>1. v.from \in Nodes
            BY <1>1 DEF LifeTyped
        <3>2. PICK x \in Prepares : /\ x.from = v.to /\ x.ballot = v.ballot
                                    /\ x.role = "follower"
                                    /\ best[v.from].opened <= x.sent + MaxDelay
            BY <2>4, <3>1 DEF WindowAsked
        <3>3. now <= best[v.from].opened + MaxWindow /\ best[v.from].opened \in Int
            BY <1>1, <2>4, <3>1 DEF WindowAsked, LifeTyped
        <3>4. v.sent <= x.sent + MaxDelay + (IF x.role = "leader" THEN 0 ELSE MaxWindow)
            BY <1>1, <2>1, <2>2, <3>2, <3>3 DEF Periods, LifeTyped
        <3>. QED
            BY <2>1, <2>2, <3>2, <3>4
    <2>. QED
        BY <2>1, <2>3, <2>4 DEF VoteMade
<1>. QED
    BY <1>2, <1>3

\* A grant answers a proposal in time.
LEMMA GrantAskedStep ==
    ASSUME Effects, Lives, GrantAsked
    PROVE  GrantAsked'
<1>1. LifeTyped /\ LifeTyped' /\ Periods /\ News
    BY DEF Effects
<1>. SUFFICES ASSUME NEW g \in Grants'
              PROVE  /\ g.start <= g.sent /\ g.sent <= g.start + MaxDelay
                     /\ \E m \in Proposals' :
                        m.from = g.to /\ m.ballot = g.ballot /\ m.start = g.start
    BY DEF GrantAsked
<1>2. CASE g \in Grants
    BY <1>1, <1>2 DEF GrantAsked, News
<1>3. CASE g \notin Grants
    <2>1. PICK m \in Proposals : /\ Fresh(m) /\ m.from = g.to /\ m.ballot = g.ballot
                                 /\ m.start = g.start
        BY <1>1, <1>3 DEF News, GrantMade
    <2>2. m.sent <= now /\ m.start = m.sent /\ m \in Proposals' /\ g.sent = now
        BY <1>1, <1>3 DEF Lives, LifeTyped, News
    <2>. QED
        BY <1>1, <2>1, <2>2 DEF Fresh
<1>. QED
    BY <1>2, <1>3

-----------------------------------------------------------------------------
(* The proposer's campaigns *)

\* prepare_success_ballot_ only grows.
LEMMA BallotsGrow ==
    ASSUME Effects, OwnBallots, NEW p \in Nodes
    PROVE  /\ ballot[p] <= ballot'[p] /\ prepared[p] <= prepared'[p]
           /\ prepared'[p] <= ballot'[p]
           /\ \/ prepared'[p] = prepared[p]
              \/ Wins(p) /\ ballot'[p] = ballot[p] /\ prepared'[p] = ballot[p]
<1>1. ballot[p] <= ballot'[p] /\ BallotWon(p)
    BY DEF Effects, ProposerStep, BeliefStep
<1>2. /\ ballot[p] \in Int /\ ballot'[p] \in Int /\ prepared[p] \in Int
      /\ prepared'[p] \in Int /\ prepared[p] <= ballot[p]
    BY DEF Effects, LifeTyped, OwnBallots
<1>3. \/ prepared'[p] = prepared[p]
      \/ Wins(p) /\ ballot'[p] = ballot[p] /\ prepared'[p] = ballot[p]
    BY <1>1 DEF BallotWon, Wins
<1>. QED
    BY <1>1, <1>2, <1>3

\* A proposer sends only what its ballots allow, and does not go back.
LEMMA OwnBallotsStep ==
    ASSUME Effects, OwnBallots
    PROVE  OwnBallots'
<1>1. LifeTyped /\ LifeTyped' /\ News /\ initTs' = initTs
    BY DEF Effects
<1>2. \A p \in Nodes : /\ ballot[p] <= ballot'[p] /\ prepared[p] <= prepared'[p]
                       /\ prepared'[p] <= ballot'[p]
    BY BallotsGrow
<1>3. \A p \in Nodes : /\ ballot[p] \in Int /\ ballot'[p] \in Int
                       /\ prepared[p] \in Int /\ prepared'[p] \in Int
    BY <1>1 DEF LifeTyped
<1>4. ASSUME NEW x \in Prepares', Present(x.from, x.sent)'
      PROVE  x.ballot <= ballot'[x.from]
    <2>1. x.from \in Nodes /\ x.ballot \in Int
        BY <1>1 DEF LifeTyped
    <2>2. CASE x \in Prepares
        <3>1. x.ballot <= ballot[x.from]
            BY <1>1, <1>4, <2>2 DEF OwnBallots, Present
        <3>. QED
            BY <1>2, <1>3, <2>1, <3>1
    <2>3. CASE x \notin Prepares
        BY <1>1, <1>3, <2>1, <2>3 DEF News, RequestMade
    <2>. QED
        BY <2>2, <2>3
<1>5. ASSUME NEW m \in Proposals', Present(m.from, m.sent)'
      PROVE  m.ballot <= prepared'[m.from]
    <2>1. m.from \in Nodes /\ m.ballot \in Int
        BY <1>1 DEF LifeTyped
    <2>2. CASE m \in Proposals
        <3>1. m.ballot <= prepared[m.from]
            BY <1>1, <1>5, <2>2 DEF OwnBallots, Present
        <3>. QED
            BY <1>2, <1>3, <2>1, <3>1
    <2>3. CASE m \notin Proposals
        BY <1>1, <1>3, <2>1, <2>3 DEF News, ProposalMade
    <2>. QED
        BY <2>2, <2>3
<1>6. ASSUME NEW h \in HandOvers', Present(h.from, h.sent)'
      PROVE  h.old < h.ballot /\ h.ballot <= ballot'[h.from]
    <2>1. h.from \in Nodes /\ h.ballot \in Int /\ h.old \in Int
        BY <1>1 DEF LifeTyped
    <2>2. CASE h \in HandOvers
        <3>1. h.old < h.ballot /\ h.ballot <= ballot[h.from]
            BY <1>1, <1>6, <2>2 DEF OwnBallots, Present
        <3>. QED
            BY <1>2, <1>3, <2>1, <3>1
    <2>3. CASE h \notin HandOvers
        BY <1>1, <1>3, <2>1, <2>3 DEF News, HandOverSent
    <2>. QED
        BY <2>2, <2>3
<1>. QED
    BY <1>2, <1>4, <1>5, <1>6 DEF OwnBallots

\* A vote that arrives in time answers a request of the receiver's present life.
LEMMA FreshVote ==
    ASSUME LifeTyped, Periods, Lives, VoteAsked, NEW p \in Nodes, Up(p),
           NEW v \in Votes, Fresh(v), v.to = p
    PROVE  \E x \in Prepares :
            /\ x.from = p /\ x.ballot = v.ballot /\ Present(p, x.sent) /\ x.sent <= v.sent
            /\ x.role = "leader" => v.sent <= x.sent + MaxDelay
            /\ x.role # "leader" => v.sent <= x.sent + MaxDelay + MaxWindow
<1>1. PICK x \in Prepares :
        /\ x.from = p /\ x.ballot = v.ballot /\ x.sent <= v.sent
        /\ v.sent <= x.sent + MaxDelay + (IF x.role = "leader" THEN 0 ELSE MaxWindow)
    BY DEF VoteAsked
<1>2. /\ x.sent \in Nat /\ v.sent \in Nat /\ now \in Nat /\ initTs[p] \in Int
      /\ x \in msgs /\ x.type = "prepare"
    BY DEF LifeTyped
<1>3. /\ x.role = "leader" => v.sent <= x.sent + MaxDelay
      /\ x.role # "leader" => v.sent <= x.sent + MaxDelay + MaxWindow
    BY <1>1, <1>2 DEF Periods
<1>4. v.sent <= x.sent + MaxDelay + MaxWindow
    BY <1>2, <1>3 DEF Periods
<1>5. ~Past(p, x.sent)
    BY <1>2, <1>4 DEF Past, Periods, Fresh, Up
<1>6. Present(p, x.sent)
    BY <1>1, <1>2, <1>5 DEF Lives
<1>. QED
    BY <1>1, <1>3, <1>6

\* So does a grant, and its ballot is the one that the receiver has won.
LEMMA FreshGrant ==
    ASSUME LifeTyped, Periods, Lives, GrantAsked, OwnBallots, NEW p \in Nodes, Up(p),
           NEW g \in Grants, Fresh(g), g.to = p, g.ballot = ballot[p]
    PROVE  Present(p, g.start) /\ prepared[p] = ballot[p]
<1>1. PICK n \in Proposals : n.from = p /\ n.ballot = ballot[p] /\ n.start = g.start
    BY DEF GrantAsked
<1>2. /\ n.sent = g.start /\ n \in msgs /\ n.type = "accept"
      /\ n.sent \in Nat /\ g.sent \in Nat /\ now \in Nat /\ initTs[p] \in Int
      /\ ballot[p] \in Int /\ prepared[p] \in Int
    BY <1>1 DEF LifeTyped, Lives
<1>3. g.sent <= n.sent + MaxDelay
    BY <1>2 DEF GrantAsked
<1>4. ~Past(p, n.sent)
    BY <1>2, <1>3 DEF Past, Periods, Fresh, Up
<1>5. Present(p, n.sent)
    BY <1>1, <1>2, <1>4 DEF Lives
<1>6. n.ballot <= prepared[p] /\ prepared[p] <= ballot[p]
    BY <1>1, <1>5 DEF OwnBallots
<1>. QED
    BY <1>1, <1>2, <1>5, <1>6

\* A hand-over that arrives at its own sender in time is of its present life.
LEMMA FreshHandOver ==
    ASSUME LifeTyped, Periods, Lives, NEW p \in Nodes, Up(p),
           NEW h \in HandOvers, Fresh(h), h.from = p
    PROVE  Present(p, h.sent)
<1>1. /\ h \in msgs /\ h.type = "change" /\ h.sent \in Nat /\ now \in Nat
      /\ initTs[p] \in Int
    BY DEF LifeTyped
<1>2. ~Past(p, h.sent)
    BY <1>1 DEF Past, Periods, Fresh, Up
<1>. QED
    BY <1>1, <1>2 DEF Lives

\* A lease ends at most one interval from now.
LEMMA LeaseNear ==
    ASSUME LifeTyped, Periods, Lives, LeaseHeld, NEW p \in Nodes
    PROVE  lease[p] <= now + LeaseInterval
<1>1. lease[p] \in Int /\ now \in Nat
    BY DEF LifeTyped
<1>2. CASE lease[p] = INVALID
    BY <1>1, <1>2 DEF Periods
<1>3. CASE lease[p] # INVALID
    <2>1. PICK m \in Proposals : lease[p] <= m.start + LeaseInterval
        BY <1>3 DEF LeaseHeld
    <2>2. m.start <= now /\ m.start \in Nat
        BY DEF Lives, LifeTyped
    <2>. QED
        BY <1>1, <2>1, <2>2 DEF Periods
<1>. QED
    BY <1>2, <1>3

\* While the ballot is not won, a step leaves the lease alone or gives it up.
LEMMA LeaseInCampaign ==
    ASSUME Effects, Lives, GrantAsked, OwnBallots, NEW p \in Nodes,
           prepared'[p] # ballot'[p]
    PROVE  lease'[p] = lease[p] \/ lease'[p] = INVALID
<1>1. LifeTyped /\ Periods
    BY DEF Effects
<1>2. ~LeaseExtended(p)
    <2>. SUFFICES ASSUME LeaseExtended(p) PROVE FALSE
        OBVIOUS
    <2>1. PICK m \in Grants : Fresh(m) /\ m.to = p /\ m.ballot = ballot[p]
        BY DEF LeaseExtended
    <2>2. prepared[p] = ballot[p]
        BY <1>1, <2>1, FreshGrant DEF LeaseExtended
    <2>. QED
        BY <2>2 DEF LeaseExtended
<1>. QED
    BY <1>2 DEF Effects, BeliefStep, LeaseBelieved

\* The requests of a ballot: the first when the ballot is entered, the others
\* while a lease lasts that is older than the first, or when the ballot was
\* handed over.
LEMMA CampaignShortStep ==
    ASSUME Effects, Lives, GrantAsked, OwnBallots, CampaignShort, HandedOver, LeaseHeld
    PROVE  CampaignShort'
<1>1. LifeTyped /\ LifeTyped' /\ Periods /\ News /\ initTs' = initTs
    BY DEF Effects
<1>2. ASSUME NEW x \in Prepares', NEW y \in Prepares', x.from = y.from,
             x.ballot = y.ballot, Present(x.from, x.sent)', Present(y.from, y.sent)'
      PROVE  /\ x.sent <= y.sent + LeaseInterval
             /\ x.role = "follower" => x.sent <= y.sent
    <2>1. x.sent \in Nat /\ y.sent \in Nat /\ x.from \in Nodes /\ x.ballot \in Int
        BY <1>1 DEF LifeTyped
    <2>2. Present(x.from, x.sent) /\ Present(y.from, y.sent)
        BY <1>1, <1>2 DEF Present
    <2>3. CASE x \in Prepares /\ y \in Prepares
        BY <1>2, <2>2, <2>3 DEF CampaignShort
    <2>4. CASE y \notin Prepares
        <3>1. y.sent = now /\ x.sent <= now
            <4>1. x \in Prepares => x.sent <= now
                BY <1>1 DEF Lives, LifeTyped
            <4>. QED
                BY <1>1, <2>1, <2>4, <4>1 DEF News
        <3>. QED
            BY <1>1, <2>1, <3>1 DEF Periods
    <2>5. CASE x \notin Prepares /\ y \in Prepares
        <3>1. RequestMade(x) /\ x.sent = now /\ Up(x.from)
            BY <1>1, <2>5 DEF News
        <3>2. y.ballot <= ballot[x.from] /\ ballot[x.from] \in Int
            BY <1>1, <1>2, <2>1, <2>2, <2>5 DEF OwnBallots, LifeTyped
        <3>3. /\ x.role = "leader" /\ x.ballot = ballot[x.from]
              /\ \/ CheckLeader(x.from) /\ prepared[x.from] # ballot[x.from]
                 \/ \E h \in HandOvers :
                        Fresh(h) /\ h.from = x.from /\ h.ballot = x.ballot
            BY <1>2, <2>1, <3>1, <3>2 DEF RequestMade
        <3>4. CASE CheckLeader(x.from) /\ prepared[x.from] # ballot[x.from]
            <4>1. lease[x.from] <= y.sent + LeaseInterval /\ lease[x.from] \in Int
                BY <1>1, <1>2, <2>1, <2>2, <2>5, <3>3, <3>4 DEF CampaignShort, LifeTyped
            <4>. QED
                BY <1>1, <2>1, <3>1, <3>3, <3>4, <4>1 DEF CheckLeader, Periods, LifeTyped
        <3>5. CASE \E h \in HandOvers :
                        Fresh(h) /\ h.from = x.from /\ h.ballot = x.ballot
            <4>1. PICK h \in HandOvers : Fresh(h) /\ h.from = x.from /\ h.ballot = x.ballot
                BY <3>5
            <4>2. Present(h.from, h.sent)
                BY <1>1, <2>1, <3>1, <4>1, FreshHandOver
            <4>3. SoonAfter(x.from, h)
                BY <4>1, <4>2 DEF HandedOver
            <4>4. h.sent <= y.sent
                BY <1>2, <2>2, <2>5, <4>1, <4>3 DEF SoonAfter
            <4>5. h.sent \in Nat /\ now <= h.sent + MaxDelay
                BY <1>1, <4>1 DEF LifeTyped, Fresh
            <4>. QED
                BY <1>1, <2>1, <3>1, <3>3, <4>4, <4>5 DEF Periods
        <3>. QED
            BY <3>3, <3>4, <3>5
    <2>. QED
        BY <2>3, <2>4, <2>5
<1>3. ASSUME NEW y \in Prepares', Present(y.from, y.sent)', y.ballot = ballot'[y.from],
             prepared'[y.from] # ballot'[y.from]
      PROVE  lease'[y.from] <= y.sent + LeaseInterval
    <2>. DEFINE p == y.from
    <2>1. y.sent \in Nat /\ p \in Nodes /\ y.ballot \in Int
        BY <1>1 DEF LifeTyped
    <2>2. lease'[p] = lease[p] \/ lease'[p] = INVALID
        BY <1>3, <2>1, LeaseInCampaign
    <2>3. CASE lease'[p] = INVALID
        BY <1>1, <2>1, <2>3 DEF Periods
    <2>4. CASE lease'[p] = lease[p] /\ y \in Prepares
        <3>1. Present(p, y.sent) /\ y.ballot <= ballot[p]
            BY <1>1, <1>3, <2>4 DEF Present, OwnBallots
        <3>2. ballot[p] <= ballot'[p] /\ ballot[p] \in Int
            BY <1>1, <2>1, BallotsGrow DEF LifeTyped
        <3>3. ballot[p] = y.ballot /\ ballot'[p] = ballot[p]
            BY <1>3, <2>1, <3>1, <3>2
        <3>4. prepared'[p] = prepared[p]
            BY <1>3, <2>1, <3>3, BallotsGrow
        <3>. QED
            BY <1>3, <2>4, <3>1, <3>3, <3>4 DEF CampaignShort
    <2>5. CASE lease'[p] = lease[p] /\ y \notin Prepares
        <3>1. lease[p] <= now + LeaseInterval
            BY <1>1, <2>1, LeaseNear
        <3>. QED
            BY <1>1, <2>5, <3>1 DEF News
    <2>. QED
        BY <2>2, <2>3, <2>4, <2>5
<1>. QED
    BY <1>2, <1>3 DEF CampaignShort

\* What is soon after a hand-over stays so.
LEMMA SoonAfterKept ==
    ASSUME Effects, Lives, GrantAsked, OwnBallots, HandedOver,
           NEW p \in Nodes, NEW h \in HandOvers, h.ballot <= ballot[p], SoonAfter(p, h)
    PROVE  SoonAfter(p, h)'
<1>1. LifeTyped /\ LifeTyped' /\ Periods /\ News /\ initTs' = initTs
    BY DEF Effects
<1>2. /\ h.sent \in Nat /\ h.sent <= now /\ h.ballot \in Int /\ ballot[p] \in Int
      /\ ballot'[p] \in Int /\ ballot[p] <= ballot'[p] /\ now \in Nat
    BY <1>1, BallotsGrow DEF LifeTyped, Lives
<1>3. ASSUME NEW x \in Prepares', x.from = p, x.ballot = h.ballot, Present(p, x.sent)'
      PROVE  /\ x.role = "leader"
             /\ h.sent <= x.sent /\ x.sent <= h.sent + MaxDelay + LeaseInterval
    <2>1. CASE x \in Prepares
        BY <1>1, <1>3, <2>1 DEF SoonAfter, Present
    <2>2. CASE x \notin Prepares
        <3>1. RequestMade(x) /\ x.sent = now /\ Up(p)
            BY <1>1, <1>3, <2>2 DEF News
        <3>2. /\ x.role = "leader" /\ x.ballot = ballot[p]
              /\ \/ CheckLeader(p) /\ prepared[p] # ballot[p]
                 \/ \E k \in HandOvers : Fresh(k) /\ k.from = p /\ k.ballot = x.ballot
            BY <1>2, <1>3, <3>1 DEF RequestMade
        <3>3. now <= h.sent + MaxDelay + LeaseInterval
            <4>1. CASE CheckLeader(p) /\ prepared[p] # ballot[p]
                <5>1. lease[p] <= h.sent + MaxDelay + LeaseInterval /\ lease[p] \in Int
                    BY <1>1, <1>3, <3>2, <4>1 DEF SoonAfter, LifeTyped
                <5>. QED
                    BY <1>1, <1>2, <4>1, <5>1 DEF CheckLeader, Periods
            <4>2. CASE \E k \in HandOvers : Fresh(k) /\ k.from = p /\ k.ballot = x.ballot
                <5>1. PICK k \in HandOvers : Fresh(k) /\ k.from = p /\ k.ballot = x.ballot
                    BY <4>2
                <5>2. Present(p, k.sent)
                    BY <1>1, <3>1, <5>1, FreshHandOver
                <5>3. k.sent <= h.sent /\ k.sent \in Nat
                    BY <1>1, <1>3, <5>1, <5>2 DEF SoonAfter, LifeTyped
                <5>. QED
                    BY <1>1, <1>2, <5>1, <5>3 DEF Fresh, Periods
            <4>. QED
                BY <3>2, <4>1, <4>2
        <3>. QED
            BY <1>2, <3>1, <3>2, <3>3
    <2>. QED
        BY <2>1, <2>2
<1>4. ASSUME NEW k \in HandOvers', k.from = p, k.ballot = h.ballot, Present(p, k.sent)'
      PROVE  k.sent <= h.sent
    <2>1. CASE k \in HandOvers
        BY <1>1, <1>4, <2>1 DEF SoonAfter, Present
    <2>2. CASE k \notin HandOvers
        <3>1. k.ballot = ballot[p] + 1
            BY <1>1, <1>4, <2>2 DEF News, HandOverSent
        <3>. QED
            BY <1>2, <1>4, <3>1
    <2>. QED
        BY <2>1, <2>2
<1>5. ASSUME ballot'[p] = h.ballot, prepared'[p] # ballot'[p]
      PROVE  lease'[p] <= h.sent + MaxDelay + LeaseInterval
    <2>1. lease'[p] = lease[p] \/ lease'[p] = INVALID
        BY <1>5, LeaseInCampaign
    <2>2. CASE lease'[p] = INVALID
        BY <1>1, <1>2, <2>2 DEF Periods
    <2>3. CASE lease'[p] = lease[p]
        <3>1. ballot[p] = h.ballot /\ ballot'[p] = ballot[p]
            BY <1>2, <1>5
        <3>2. prepared'[p] = prepared[p]
            BY <1>5, <3>1, BallotsGrow
        <3>. QED
            BY <1>5, <2>3, <3>1, <3>2 DEF SoonAfter
    <2>. QED
        BY <2>1, <2>2, <2>3
<1>. QED
    BY <1>3, <1>4, <1>5 DEF SoonAfter

\* Who hands a ballot over asks in it, if at all, soon after.
LEMMA HandedOverStep ==
    ASSUME Effects, Lives, GrantAsked, OwnBallots, HandedOver
    PROVE  HandedOver'
<1>1. LifeTyped /\ LifeTyped' /\ Periods /\ News /\ initTs' = initTs
    BY DEF Effects
<1>. SUFFICES ASSUME NEW h \in HandOvers', Present(h.from, h.sent)'
              PROVE  SoonAfter(h.from, h)'
    BY DEF HandedOver
<1>2. Present(h.from, h.sent) /\ h.from \in Nodes
    BY <1>1 DEF Present, LifeTyped
<1>3. CASE h \in HandOvers
    <2>1. h.ballot <= ballot[h.from]
        BY <1>2, <1>3 DEF OwnBallots
    <2>2. SoonAfter(h.from, h)
        BY <1>2, <1>3 DEF HandedOver
    <2>. QED
        BY <1>2, <1>3, <2>1, <2>2, SoonAfterKept
<1>4. CASE h \notin HandOvers
    <2>. DEFINE p == h.from
    <2>1. /\ HandOverSent(h) /\ h.sent = now /\ Prepares' = Prepares
        BY <1>1, <1>4 DEF News
    <2>2. /\ ballot[p] < h.ballot /\ lease'[p] = INVALID /\ h.sent \in Nat
        BY <1>1, <1>2, <2>1 DEF HandOverSent, LifeTyped
    <2>3. \A x \in Prepares' : ~(x.from = p /\ x.ballot = h.ballot /\ Present(p, x.sent)')
        BY <1>1, <1>2, <2>1, <2>2 DEF OwnBallots, LifeTyped, Present
    <2>4. \A k \in HandOvers' :
            k.from = p /\ k.ballot = h.ballot /\ Present(p, k.sent)' => k.sent <= h.sent
        BY <1>1, <1>2, <2>1, <2>2 DEF OwnBallots, LifeTyped, Present, News
    <2>5. lease'[p] <= h.sent + MaxDelay + LeaseInterval
        BY <1>1, <2>2 DEF Periods
    <2>. QED
        BY <2>3, <2>4, <2>5 DEF SoonAfter
<1>. QED
    BY <1>3, <1>4

\* on_change_leader(): whoever takes over has just heard of it.
LEMMA SourceKnownStep ==
    ASSUME Effects, Lives, GrantAsked, OwnBallots, HandedOver, SourceKnown, LeaseHeld
    PROVE  SourceKnown'
<1>1. LifeTyped /\ LifeTyped' /\ Periods /\ News /\ initTs' = initTs
    BY DEF Effects
<1>. SUFFICES ASSUME NEW p \in Nodes, source'[p] # NoSource
              PROVE  \E h \in HandOvers' :
                        /\ h.to = p /\ h.ballot = ballot'[p]
                        /\ h.from = source'[p].addr /\ h.old = source'[p].ballot
                        /\ SoonAfter(p, h)'
    BY DEF SourceKnown
<1>2. SourceBelieved(p) /\ ballot[p] \in Int /\ ballot'[p] \in Int
    BY <1>1 DEF Effects, BeliefStep, LifeTyped
<1>3. CASE source'[p] = source[p] /\ ballot'[p] = ballot[p]
    <2>1. PICK h \in HandOvers :
            /\ h.to = p /\ h.ballot = ballot[p]
            /\ h.from = source[p].addr /\ h.old = source[p].ballot
            /\ SoonAfter(p, h)
        BY <1>3 DEF SourceKnown
    <2>2. h.ballot <= ballot[p]
        BY <1>2, <2>1
    <2>3. SoonAfter(p, h)'
        BY <2>1, <2>2, SoonAfterKept
    <2>. QED
        BY <1>1, <1>3, <2>1, <2>3 DEF News
<1>4. ASSUME NEW h \in HandOvers,
             /\ Up(p) /\ Fresh(h) /\ h.to = p /\ h.ballot = ballot'[p]
             /\ h.from = source'[p].addr /\ h.old = source'[p].ballot
             /\ ballot[p] < ballot'[p] \/ h.from = p
             /\ HandOvers' = HandOvers
             /\ \A x \in Prepares' : x \notin Prepares => x.role = "leader"
      PROVE  SoonAfter(p, h)'
    <2>1. CASE h.from = p
        <3>1. Present(p, h.sent)
            BY <1>1, <1>4, <2>1, FreshHandOver
        <3>2. SoonAfter(p, h) /\ h.ballot <= ballot[p]
            BY <2>1, <3>1 DEF HandedOver, OwnBallots
        <3>. QED
            BY <3>2, SoonAfterKept
    <2>2. CASE ballot[p] < ballot'[p]
        <3>1. h.sent \in Nat /\ h.sent <= now /\ now <= h.sent + MaxDelay /\ now \in Nat
            BY <1>1, <1>4 DEF LifeTyped, Lives, Fresh
        <3>2. ASSUME NEW x \in Prepares', x.from = p, x.ballot = h.ballot, Present(p, x.sent)'
              PROVE  /\ x.role = "leader"
                     /\ h.sent <= x.sent /\ x.sent <= h.sent + MaxDelay + LeaseInterval
            <4>1. x \notin Prepares
                <5>. SUFFICES ASSUME x \in Prepares PROVE FALSE
                    OBVIOUS
                <5>1. x.ballot <= ballot[p] /\ x.ballot \in Int
                    BY <1>1, <3>2 DEF OwnBallots, Present, LifeTyped
                <5>. QED
                    BY <1>2, <1>4, <2>2, <3>2, <5>1
            <4>. QED
                BY <1>1, <1>4, <3>1, <4>1 DEF News, Periods
        <3>3. \A k \in HandOvers' :
                k.from = p /\ k.ballot = h.ballot /\ Present(p, k.sent)' => k.sent <= h.sent
            BY <1>1, <1>2, <1>4, <2>2 DEF OwnBallots, LifeTyped, Present
        <3>4. prepared'[p] # ballot'[p] => lease'[p] <= h.sent + MaxDelay + LeaseInterval
            <4>1. lease[p] <= now + LeaseInterval /\ lease[p] \in Int
                BY <1>1, LeaseNear DEF LifeTyped
            <4>. QED
                BY <1>1, <3>1, <4>1, LeaseInCampaign DEF Periods
        <3>. QED
            BY <3>2, <3>3, <3>4 DEF SoonAfter
    <2>. QED
        BY <1>4, <2>1, <2>2
<1>5. HandOvers \subseteq HandOvers'
    BY <1>1 DEF News
<1>. QED
    BY <1>2, <1>3, <1>4, <1>5 DEF SourceBelieved

\* A vote that is counted has been sent for it.
LEMMA CountedVote ==
    ASSUME Effects, Lives, VoteAsked, SourceKnown, Tallied, NEW p \in Nodes,
           NEW q \in prepareOk'[p]
    PROVE  /\ ballot'[p] = ballot[p]
           /\ \E v \in Votes :
                /\ v.from = q /\ v.to = p /\ v.ballot = ballot[p] /\ CountsFor(v)
                /\ \E x \in Prepares : /\ x.from = p /\ x.ballot = ballot[p]
                                       /\ Present(p, x.sent) /\ x.sent <= v.sent
<1>1. LifeTyped /\ Periods /\ VotesBelieved(p)
    BY DEF Effects, BeliefStep
<1>2. ballot'[p] = ballot[p]
    BY <1>1 DEF VotesBelieved
<1>3. CASE q \in prepareOk[p]
    BY <1>2, <1>3 DEF Tallied
<1>4. CASE /\ Up(p)
           /\ \E v \in Votes : /\ Fresh(v) /\ v.from = q /\ v.to = p
                               /\ v.ballot = ballot[p] /\ LeaseAllows(p, v.lease)
    <2>1. PICK v \in Votes : /\ Fresh(v) /\ v.from = q /\ v.to = p
                             /\ v.ballot = ballot[p] /\ LeaseAllows(p, v.lease)
        BY <1>4
    <2>2. PICK x \in Prepares :
            /\ x.from = p /\ x.ballot = v.ballot /\ Present(p, x.sent) /\ x.sent <= v.sent
            /\ x.role = "leader" => v.sent <= x.sent + MaxDelay
        BY <1>1, <1>4, <2>1, FreshVote
    <2>3. CountsFor(v)
        <3>1. CASE v.lease = NoLease \/ v.lease.owner = p
            BY <2>1, <3>1 DEF CountsFor
        <3>2. CASE /\ v.lease # NoLease /\ v.lease.owner = source[p].addr
                   /\ v.lease.ballot = source[p].ballot
            <4>1. v.lease.owner \in Nodes
                BY <1>1, <3>2 DEF LifeTyped, VoteLease
            <4>2. source[p] # NoSource
                BY <3>2, <4>1, NodesAssumption DEF NoSource
            <4>3. PICK h \in HandOvers :
                    /\ h.to = p /\ h.ballot = ballot[p]
                    /\ h.from = source[p].addr /\ h.old = source[p].ballot
                    /\ SoonAfter(p, h)
                BY <4>2 DEF SourceKnown
            <4>4. x.role = "leader" /\ x.sent <= h.sent + MaxDelay + LeaseInterval
                BY <2>1, <2>2, <4>3 DEF SoonAfter
            <4>5. v.sent <= h.sent + Campaign
                BY <1>1, <2>2, <4>4 DEF LifeTyped, Periods
            <4>. QED
                BY <2>1, <3>2, <4>3, <4>5 DEF CountsFor
        <3>. QED
            BY <2>1, <3>1, <3>2 DEF LeaseAllows
    <2>. QED
        BY <1>2, <2>1, <2>2, <2>3
<1>. QED
    BY <1>1, <1>3, <1>4 DEF VotesBelieved

\* A vote or promise is counted in the ballot that it was sent for.
LEMMA TalliedStep ==
    ASSUME Effects, Lives, VoteAsked, GrantAsked, OwnBallots, SourceKnown, Tallied
    PROVE  Tallied'
<1>1. LifeTyped /\ LifeTyped' /\ Periods /\ News /\ initTs' = initTs
    BY DEF Effects
<1>2. ASSUME NEW p \in Nodes, NEW q \in prepareOk'[p]
      PROVE  \E v \in Votes' :
                /\ v.from = q /\ v.to = p /\ v.ballot = ballot'[p] /\ CountsFor(v)'
                /\ \E x \in Prepares' : /\ x.from = p /\ x.ballot = ballot'[p]
                                        /\ Present(p, x.sent)' /\ x.sent <= v.sent
    <2>1. ballot'[p] = ballot[p]
        BY <1>2, CountedVote
    <2>2. PICK v \in Votes :
                /\ v.from = q /\ v.to = p /\ v.ballot = ballot[p] /\ CountsFor(v)
                /\ \E x \in Prepares : /\ x.from = p /\ x.ballot = ballot[p]
                                       /\ Present(p, x.sent) /\ x.sent <= v.sent
        BY <1>2, CountedVote
    <2>3. CountsFor(v)'
        BY <1>1, <2>2 DEF CountsFor, News
    <2>4. \E x \in Prepares' : /\ x.from = p /\ x.ballot = ballot'[p]
                               /\ Present(p, x.sent)' /\ x.sent <= v.sent
        BY <1>1, <2>1, <2>2 DEF News, Present
    <2>5. v \in Votes'
        BY <1>1 DEF News
    <2>. QED
        BY <2>1, <2>2, <2>3, <2>4, <2>5
<1>3. ASSUME NEW p \in Nodes, NEW q \in Nodes, promised'[p][q] # 0
      PROVE  \E g \in Grants' : /\ g.from = q /\ g.to = p /\ g.ballot = ballot'[p]
                                /\ promised'[p][q] = g.start + LeaseInterval
                                /\ Present(p, g.start)'
    <2>1. PromisesBelieved(p) /\ Grants \subseteq Grants'
        BY <1>1 DEF Effects, BeliefStep, News
    <2>2. CASE promised'[p][q] = promised[p][q] /\ ballot'[p] = ballot[p]
        BY <1>1, <1>3, <2>1, <2>2 DEF Tallied, Present
    <2>3. CASE /\ Up(p) /\ ballot'[p] = ballot[p]
               /\ \E g \in Grants : /\ Fresh(g) /\ g.from = q /\ g.to = p
                                    /\ g.ballot = ballot[p]
                                    /\ promised'[p][q] = g.start + LeaseInterval
        <3>1. PICK g \in Grants : /\ Fresh(g) /\ g.from = q /\ g.to = p
                                  /\ g.ballot = ballot[p]
                                  /\ promised'[p][q] = g.start + LeaseInterval
            BY <2>3
        <3>2. Present(p, g.start)
            BY <1>1, <2>3, <3>1, FreshGrant
        <3>. QED
            BY <1>1, <2>1, <2>3, <3>1, <3>2 DEF Present
    <2>. QED
        BY <1>3, <2>1, <2>2, <2>3 DEF PromisesBelieved
<1>. QED
    BY <1>2, <1>3 DEF Tallied

-----------------------------------------------------------------------------
(* Leases *)

\* An acceptor replaces a lease that lasts only by a later one.
LEMMA LeaseKeptStep ==
    ASSUME Effects, Lives, WordKept, GrantAsked', LeaseKept
    PROVE  LeaseKept'
<1>1. LifeTyped /\ LifeTyped' /\ Periods /\ News /\ initTs' = initTs /\ now <= now'
    BY DEF Effects, AcceptorStep
<1>. SUFFICES ASSUME NEW g \in Grants', Present(g.from, g.sent)',
                     now' < g.start + LeaseInterval
              PROVE  /\ accLease'[g.from].owner # NoNode
                     /\ g.start + LeaseInterval <= accLease'[g.from].end
                     /\ \E k \in Grants' :
                        /\ k.from = g.from /\ k.to = accLease'[g.from].owner
                        /\ k.ballot = accLease'[g.from].ballot
                        /\ g.sent <= k.sent /\ g.ballot <= k.ballot
    BY DEF LeaseKept
<1>. DEFINE q == g.from
<1>2. /\ q \in Nodes /\ g.start \in Nat /\ g.sent \in Nat /\ g.ballot \in Int
      /\ g.to \in Nodes /\ now \in Nat /\ now' \in Nat /\ g.start + LeaseInterval \in Int
      /\ accLease[q].end \in Int /\ accLease'[q].end \in Int
    BY <1>1 DEF LifeTyped, Periods
<1>3. CASE g \notin Grants
    <2>1. GrantSent(g) /\ g.sent = now
        BY <1>1, <1>3 DEF News
    <2>2. /\ accLease'[q].owner = g.to /\ accLease'[q].ballot = g.ballot
          /\ now + LeaseInterval <= accLease'[q].end /\ g.start <= now
        BY <2>1 DEF GrantSent, GrantAsked
    <2>3. g.start + LeaseInterval <= accLease'[q].end
        BY <1>1, <1>2, <2>2 DEF Periods
    <2>4. g.to # NoNode
        BY <1>2, NodesAssumption
    <2>5. g.sent <= g.sent /\ g.ballot <= g.ballot
        BY <1>2
    <2>. QED
        BY <2>2, <2>3, <2>4, <2>5
<1>4. CASE g \in Grants
    <2>1. now < g.start + LeaseInterval /\ Present(q, g.sent)
        BY <1>1, <1>2 DEF Present
    <2>2. /\ accLease[q].owner # NoNode /\ g.start + LeaseInterval <= accLease[q].end
          /\ \E k \in Grants :
                /\ k.from = q /\ k.to = accLease[q].owner /\ k.ballot = accLease[q].ballot
                /\ g.sent <= k.sent /\ g.ballot <= k.ballot
        BY <1>4, <2>1 DEF LeaseKept
    <2>3. ~Expired(q)
        BY <1>2, <2>1, <2>2 DEF Expired
    <2>4. CASE accLease'[q] = accLease[q]
        BY <1>1, <2>2, <2>4 DEF News
    <2>5. ASSUME accLease'[q] # accLease[q]
          PROVE  /\ accLease'[q].owner # NoNode
                 /\ g.start + LeaseInterval <= accLease'[q].end
                 /\ \E k \in Grants' :
                    /\ k.from = q /\ k.to = accLease'[q].owner
                    /\ k.ballot = accLease'[q].ballot
                    /\ g.sent <= k.sent /\ g.ballot <= k.ballot
        <3>1. PICK m \in Proposals :
                /\ accBallot[q] <= m.ballot
                /\ accLease'[q].owner = m.from /\ accLease'[q].ballot = m.ballot
                /\ accLease[q].end <= accLease'[q].end
            BY <1>2, <2>3, <2>5 DEF Effects, AcceptorStep
        <3>2. m.from \in Nodes /\ m.ballot \in Int /\ accBallot[q] \in Int
            BY <1>1, <1>2 DEF LifeTyped
        <3>3. accLease'[q].owner # NoNode
            BY <3>1, <3>2, NodesAssumption
        <3>4. PICK k \in Grants' :
                /\ k.from = q /\ k.sent = now
                /\ k.to = accLease'[q].owner /\ k.ballot = accLease'[q].ballot
            BY <1>2, <2>5, <3>3 DEF Effects, LeaseTaken
        <3>5. g.ballot <= accBallot[q]
            BY <1>4, <2>1 DEF WordKept, Words
        <3>6. g.ballot <= k.ballot
            BY <1>2, <3>1, <3>2, <3>4, <3>5
        <3>7. g.sent <= now
            BY <1>1, <1>4 DEF Lives, LifeTyped
        <3>8. g.start + LeaseInterval <= accLease'[q].end
            BY <1>2, <2>2, <3>1
        <3>. QED
            BY <3>3, <3>4, <3>6, <3>7, <3>8
    <2>. QED
        BY <2>4, <2>5
<1>. QED
    BY <1>3, <1>4

\* A vote carries the lease; a grant that comes after it is of its ballot or above.
LEMMA LeaseToldStep ==
    ASSUME Effects, Lives, Lives', WordKept, GrantAsked, LeaseKept, LeaseTold
    PROVE  LeaseTold'
<1>1. LifeTyped /\ LifeTyped' /\ Periods /\ News
    BY DEF Effects
<1>. SUFFICES ASSUME NEW v \in Votes', NEW g \in Grants',
                     v.from = g.from, g.ballot < v.ballot,
                     v.sent < g.start + LeaseInterval, g.sent < v.sent + Gap
              PROVE  /\ v.lease # NoLease
                     /\ \E k \in Grants' :
                        /\ k.from = g.from /\ k.to = v.lease.owner
                        /\ k.ballot = v.lease.ballot
                        /\ g.sent <= k.sent /\ k.sent <= v.sent /\ g.ballot <= k.ballot
    BY DEF LeaseTold
<1>2. /\ g.from \in Nodes /\ g.ballot \in Int /\ v.ballot \in Int
      /\ v.sent \in Nat /\ g.sent \in Nat /\ g.start \in Nat
      /\ initTs[g.from] \in Int /\ accBallot[g.from] \in Int /\ now \in Nat
      /\ accLease[g.from].end \in Int
    BY <1>1 DEF LifeTyped
<1>3. CASE v \in Votes /\ g \in Grants
    <2>1. /\ v.lease # NoLease
          /\ \E k \in Grants :
                /\ k.from = g.from /\ k.to = v.lease.owner /\ k.ballot = v.lease.ballot
                /\ g.sent <= k.sent /\ k.sent <= v.sent /\ g.ballot <= k.ballot
        BY <1>3 DEF LeaseTold
    <2>. QED
        BY <1>1, <2>1 DEF News
<1>4. CASE v \notin Votes
    <2>1. VoteSent(v) /\ v.sent = now /\ Grants' = Grants
        BY <1>1, <1>4 DEF News, VoteSent
    <2>2. v \in Words' /\ v \notin Words /\ g \in Words /\ g \in Grants
        BY <1>1, <1>4, <2>1 DEF Words, LifeTyped
    <2>3. initTs[v.from] + MaxLeaseTime <= now
        BY <2>2, NewWord
    <2>4. g.start <= g.sent
        BY <2>2 DEF GrantAsked
    <2>5. Present(g.from, g.sent)
        <3>1. ~(g.sent + Gap <= initTs[g.from] + MaxLeaseTime)
            BY <1>1, <1>2, <2>1, <2>3, <2>4 DEF Periods
        <3>. QED
            BY <1>1, <2>2, <3>1, PastWord
    <2>6. /\ accLease[g.from].owner # NoNode
          /\ g.start + LeaseInterval <= accLease[g.from].end
          /\ \E k \in Grants :
                /\ k.from = g.from /\ k.to = accLease[g.from].owner
                /\ k.ballot = accLease[g.from].ballot
                /\ g.sent <= k.sent /\ g.ballot <= k.ballot
        BY <2>1, <2>2, <2>5 DEF LeaseKept
    <2>7. ~Expired(g.from)
        BY <1>1, <1>2, <2>1, <2>6 DEF Expired, Periods
    <2>8. v.lease = [owner |-> accLease[g.from].owner, ballot |-> accLease[g.from].ballot]
        BY <2>1, <2>6, <2>7 DEF VoteSent, LeaseOf
    <2>9. v.lease # NoLease
        BY <2>6, <2>8 DEF NoLease
    <2>10. \A k \in Grants : k.sent <= now
        BY <1>1 DEF Lives, LifeTyped
    <2>. QED
        BY <2>1, <2>6, <2>8, <2>9, <2>10
<1>5. CASE v \in Votes /\ g \notin Grants
    <2>1. GrantSent(g) /\ g.sent = now
        BY <1>1, <1>5 DEF News
    <2>2. g \in Words' /\ g \notin Words /\ v \in Words
        BY <1>1, <1>5 DEF Words, LifeTyped
    <2>3. initTs[g.from] + MaxLeaseTime <= now
        BY <2>2, NewWord
    <2>4. ~Present(v.from, v.sent)
        BY <1>2, <2>1, <2>2 DEF WordKept, GrantSent
    <2>5. v.sent + Gap <= initTs[v.from] + MaxLeaseTime
        BY <1>1, <2>2, <2>4, PastWord
    <2>. QED
        BY <1>1, <1>2, <2>1, <2>3, <2>5 DEF Periods
<1>. QED
    BY <1>3, <1>4, <1>5

\* What has lapsed does not come back.
LEMMA LapsedGrows ==
    ASSUME Effects, Lives', NEW p \in Nodes, NEW b0 \in Ballot, NEW t \in Int
    PROVE  Lapsed(p, b0, t) \subseteq Lapsed(p, b0, t)'
<1>1. LifeTyped /\ LifeTyped' /\ Periods /\ News /\ initTs' = initTs /\ now <= now'
    BY DEF Effects, AcceptorStep
<1>. SUFFICES ASSUME NEW q \in Nodes, q \in Lapsed(p, b0, t)
              PROVE  q \in Lapsed(p, b0, t)'
    BY DEF Lapsed
<1>2. /\ accBallot[q] <= accBallot'[q] /\ b0 \in Int /\ accBallot[q] \in Int
      /\ accBallot'[q] \in Int /\ now \in Nat /\ now' \in Nat /\ initTs[q] \in Int
    BY <1>1, Domains DEF Effects, AcceptorStep, LifeTyped
<1>3. /\ \A g \in Grants : g.from = q /\ g.to = p /\ g.ballot = b0 =>
                g.start < t \/ t + LeaseInterval <= g.sent
      /\ \/ b0 < accBallot[q]
         \/ t + LeaseInterval <= initTs[q] + MaxLeaseTime
         \/ t + LeaseInterval <= now
    BY DEF Lapsed
<1>4. ASSUME NEW g \in Grants', g.from = q, g.to = p, g.ballot = b0
      PROVE  g.start < t \/ t + LeaseInterval <= g.sent
    <2>1. CASE g \in Grants
        BY <1>3, <1>4, <2>1
    <2>2. CASE g \notin Grants
        <3>1. GrantSent(g) /\ g.sent = now
            BY <1>1, <2>2 DEF News
        <3>2. g \in Words' /\ g \notin Words
            BY <1>1, <2>2 DEF Words, LifeTyped
        <3>3. initTs[q] + MaxLeaseTime <= now
            BY <1>4, <3>2, NewWord
        <3>4. ~(b0 < accBallot[q])
            BY <1>2, <1>4, <3>1 DEF GrantSent
        <3>. QED
            BY <1>1, <1>2, <1>3, <3>1, <3>3, <3>4 DEF Periods
    <2>. QED
        BY <2>1, <2>2
<1>5. \/ b0 < accBallot'[q]
      \/ t + LeaseInterval <= initTs'[q] + MaxLeaseTime
      \/ t + LeaseInterval <= now'
    BY <1>1, <1>2, <1>3 DEF Periods
<1>. QED
    BY <1>4, <1>5 DEF Lapsed

\* Nor does a mute acceptor speak.
LEMMA MuteGrows ==
    ASSUME Effects, Lives', NEW p \in Nodes, NEW b0 \in Ballot, NEW t \in Int
    PROVE  Mute(p, b0, t) \subseteq Mute(p, b0, t)'
<1>1. LifeTyped /\ LifeTyped' /\ Periods /\ News /\ initTs' = initTs /\ now <= now'
    BY DEF Effects, AcceptorStep
<1>. SUFFICES ASSUME NEW q \in Nodes, q \in Mute(p, b0, t)
              PROVE  q \in Mute(p, b0, t)'
    BY DEF Mute
<1>2. /\ accBallot[q] <= accBallot'[q] /\ b0 \in Int /\ accBallot[q] \in Int
      /\ accBallot'[q] \in Int /\ now \in Nat /\ now' \in Nat /\ initTs[q] \in Int
    BY <1>1, Domains DEF Effects, AcceptorStep, LifeTyped
<1>3. /\ \A v \in Votes : v.from = q /\ v.to = p /\ v.ballot = b0 =>
                v.sent < t \/ t + Campaign < v.sent
      /\ \/ b0 <= accBallot[q]
         \/ t + Campaign < initTs[q] + MaxLeaseTime
         \/ t + Campaign < now
    BY DEF Mute
<1>4. ASSUME NEW v \in Votes', v.from = q, v.to = p, v.ballot = b0
      PROVE  v.sent < t \/ t + Campaign < v.sent
    <2>1. CASE v \in Votes
        BY <1>3, <1>4, <2>1
    <2>2. CASE v \notin Votes
        <3>1. VoteSent(v) /\ v.sent = now
            BY <1>1, <2>2 DEF News
        <3>2. v \in Words' /\ v \notin Words
            BY <1>1, <2>2 DEF Words, LifeTyped
        <3>3. initTs[q] + MaxLeaseTime <= now
            BY <1>4, <3>2, NewWord
        <3>4. ~(b0 <= accBallot[q])
            BY <1>2, <1>4, <3>1 DEF VoteSent
        <3>. QED
            BY <1>1, <1>2, <1>3, <3>1, <3>3, <3>4 DEF Periods
    <2>. QED
        BY <2>1, <2>2
<1>5. \/ b0 <= accBallot'[q]
      \/ t + Campaign < initTs'[q] + MaxLeaseTime
      \/ t + Campaign < now'
    BY <1>1, <1>2, <1>3 DEF Periods
<1>. QED
    BY <1>4, <1>5 DEF Mute

\* The votes of a majority that make p win were sent within one campaign.
LEMMA WinningVotes ==
    ASSUME Effects, Lives, VoteAsked, CampaignShort, SourceKnown, Tallied,
           NEW p \in Nodes, Wins(p), NEW q \in prepareOk'[p]
    PROVE  \E v \in Votes :
            /\ v.from = q /\ v.to = p /\ v.ballot = ballot[p] /\ CountsFor(v)
            /\ now <= v.sent + Campaign /\ v.sent <= now
            /\ prepared[p] # ballot[p] => lease[p] <= v.sent + LeaseInterval
<1>1. LifeTyped /\ Periods
    BY DEF Effects
<1>2. PICK v \in Votes :
            /\ v.from = q /\ v.to = p /\ v.ballot = ballot[p] /\ CountsFor(v)
            /\ \E x \in Prepares : /\ x.from = p /\ x.ballot = ballot[p]
                                   /\ Present(p, x.sent) /\ x.sent <= v.sent
    BY CountedVote
<1>3. PICK x \in Prepares : /\ x.from = p /\ x.ballot = ballot[p]
                            /\ Present(p, x.sent) /\ x.sent <= v.sent
    BY <1>2
<1>4. PICK v1 \in Votes : Fresh(v1) /\ v1.to = p /\ v1.ballot = ballot[p]
    BY DEF Wins
<1>5. PICK x1 \in Prepares :
            /\ x1.from = p /\ x1.ballot = v1.ballot /\ Present(p, x1.sent)
            /\ x1.role = "leader" => v1.sent <= x1.sent + MaxDelay
            /\ x1.role # "leader" => v1.sent <= x1.sent + MaxDelay + MaxWindow
    BY <1>1, <1>4, FreshVote DEF Wins
<1>6. /\ x1.sent <= x.sent + LeaseInterval
      /\ x1.role = "follower" => x1.sent <= x.sent
    BY <1>3, <1>4, <1>5 DEF CampaignShort
<1>7. /\ v.sent \in Nat /\ v1.sent \in Nat /\ x.sent \in Nat /\ x1.sent \in Nat
      /\ x1.role \in {"leader", "follower"} /\ now \in Nat /\ lease[p] \in Int
      /\ v.sent <= now /\ now <= v1.sent + MaxDelay
    BY <1>1, <1>4 DEF LifeTyped, Lives, Fresh
<1>8. now <= x.sent + Campaign
    <2>1. CASE x1.role = "leader"
        BY <1>1, <1>5, <1>6, <1>7, <2>1 DEF Periods
    <2>2. CASE x1.role = "follower"
        BY <1>1, <1>5, <1>6, <1>7, <2>2 DEF Periods
    <2>. QED
        BY <1>7, <2>1, <2>2
<1>9. prepared[p] # ballot[p] => lease[p] <= x.sent + LeaseInterval
    BY <1>3 DEF CampaignShort
<1>10. now <= v.sent + Campaign
    BY <1>1, <1>3, <1>7, <1>8 DEF Periods
<1>11. prepared[p] # ballot[p] => lease[p] <= v.sent + LeaseInterval
    BY <1>1, <1>3, <1>7, <1>9 DEF Periods
<1>. QED
    BY <1>2, <1>7, <1>10, <1>11

\* What record_accept_ok() has counted are grants of the present life.
LEMMA AcksArePresent ==
    ASSUME Effects, Lives, GrantAsked, OwnBallots, Tallied, NEW p \in Nodes, Up(p),
           NEW m \in Grants, Fresh(m), m.to = p, m.ballot = ballot[p],
           NEW q \in Nodes, Acks(m)[q] # 0
    PROVE  \E g \in Grants : /\ g.from = q /\ g.to = p /\ g.ballot = ballot[p]
                             /\ Acks(m)[q] = g.start + LeaseInterval
                             /\ Present(p, g.start)
<1>1. LifeTyped /\ Periods /\ TypeRest /\ m.from \in Nodes
    BY DEF Effects, LifeTyped
<1>2. promised[p] \in [Nodes -> Time \ {INVALID}]
    BY <1>1 DEF TypeRest
<1>3. \/ Acks(m)[q] = promised[p][q]
      \/ q = m.from /\ Acks(m)[q] = m.start + LeaseInterval
    BY <1>1, <1>2 DEF Acks
<1>4. Present(p, m.start)
    BY <1>1, FreshGrant
<1>. QED
    BY <1>3, <1>4 DEF Tallied

\* A lease, as it is after a step, is backed by grants from before the step ...
LEMMA LeaseBackedNow ==
    ASSUME Effects, Lives, GrantAsked, OwnBallots, Tallied, LeaseHeld,
           NEW p \in Nodes, NEW e \in Int, lease'[p] = e, e # INVALID
    PROVE  \E b0 \in Ballot :
            Keeps(p, b0, e - LeaseInterval) /\ IsMajority(Backers(p, b0, e))
<1>1. LifeTyped /\ Periods /\ TypeRest
    BY DEF Effects
<1>2. CASE lease[p] = e
    BY <1>2 DEF LeaseHeld
<1>3. CASE LeaseExtended(p)
    <2>1. PICK m \in Grants :
            /\ Fresh(m) /\ m.to = p /\ m.ballot = ballot[p]
            /\ IsMajority({q \in Nodes : Acks(m)[q] >= e})
            /\ \E q \in Nodes : Acks(m)[q] = e
        BY <1>3 DEF LeaseExtended
    <2>2. Up(p) /\ 0 < e /\ ballot[p] \in Ballot /\ ballot[p] \in Int
        BY <1>1, <1>3 DEF LeaseExtended, LifeTyped
    <2>3. PICK r \in Nodes : Acks(m)[r] = e
        BY <2>1
    <2>4. PICK k \in Grants : e = k.start + LeaseInterval /\ Present(p, k.start)
        BY <2>1, <2>2, <2>3, AcksArePresent
    <2>5. Keeps(p, ballot[p], e - LeaseInterval)
        <3>. SUFFICES ASSUME NEW h \in HandOvers, h.from = p
                      PROVE  h.old < ballot[p] \/ h.sent + DownTime <= e - LeaseInterval
            BY DEF Keeps
        <3>1. /\ h \in msgs /\ h.type = "change" /\ h.old \in Int /\ h.ballot \in Int
              /\ h.sent \in Nat /\ k.start \in Nat /\ initTs[p] \in Int
            BY <1>1 DEF LifeTyped
        <3>2. CASE Present(p, h.sent)
            BY <2>2, <3>1, <3>2 DEF OwnBallots
        <3>3. CASE Past(p, h.sent)
            BY <1>1, <2>4, <3>1, <3>3 DEF Past, Present, Periods
        <3>. QED
            BY <3>1, <3>2, <3>3 DEF Lives
    <2>6. {q \in Nodes : Acks(m)[q] >= e} \subseteq Backers(p, ballot[p], e)
        <3>. SUFFICES ASSUME NEW q \in Nodes, Acks(m)[q] >= e
                      PROVE  q \in Backers(p, ballot[p], e)
            OBVIOUS
        <3>1. Acks(m)[q] \in Nat
            <4>1. Acks(m) \in [Nodes -> Time \ {INVALID}]
                BY <1>1, AcksType DEF Grants
            <4>2. Acks(m)[q] \in Time \ {INVALID}
                BY <4>1
            <4>. QED
                BY <4>2, Domains
        <3>2. PICK g \in Grants : /\ g.from = q /\ g.to = p /\ g.ballot = ballot[p]
                                  /\ Acks(m)[q] = g.start + LeaseInterval
            BY <2>1, <2>2, <3>1, AcksArePresent
        <3>3. e <= g.start + LeaseInterval
            BY <3>1, <3>2
        <3>. QED
            BY <3>2, <3>3 DEF Backers
    <2>7. Backers(p, ballot[p], e) \in SUBSET Nodes
        BY DEF Backers
    <2>8. IsMajority(Backers(p, ballot[p], e))
        BY <2>1, <2>6, <2>7, MajorityGrows
    <2>. QED
        BY <2>2, <2>5, <2>8
<1>. QED
    BY <1>2, <1>3 DEF Effects, BeliefStep, LeaseBelieved

\* ... and, unless the step wins a ballot, so are the proposal and the words.
LEMMA LeaseSpokenNow ==
    ASSUME Effects, Lives, GrantAsked, OwnBallots, Tallied, LeaseHeld,
           NEW p \in Nodes, NEW e \in Int, lease'[p] = e, e # INVALID,
           prepared'[p] = prepared[p]
    PROVE  /\ \E m \in Proposals : /\ m.from = p /\ m.ballot = prepared[p]
                                   /\ e <= m.start + LeaseInterval
           /\ IsMajority(Speakers(p, prepared[p], e))
<1>1. LifeTyped /\ Periods /\ TypeRest
    BY DEF Effects
<1>2. CASE lease[p] = e
    BY <1>2 DEF LeaseHeld
<1>3. CASE LeaseExtended(p)
    <2>1. PICK m \in Grants :
            /\ Fresh(m) /\ m.to = p /\ m.ballot = ballot[p]
            /\ IsMajority({q \in Nodes : Acks(m)[q] >= e})
            /\ \E q \in Nodes : Acks(m)[q] = e
        BY <1>3 DEF LeaseExtended
    <2>2. Up(p) /\ 0 < e
        BY <1>3 DEF LeaseExtended
    <2>3. prepared[p] = ballot[p]
        BY <1>1, <2>1, <2>2, FreshGrant
    <2>4. PICK r \in Nodes : Acks(m)[r] = e
        BY <2>1
    <2>5. PICK k \in Grants : /\ e = k.start + LeaseInterval /\ k.to = p
                              /\ k.ballot = ballot[p]
        BY <2>1, <2>2, <2>4, AcksArePresent
    <2>6. PICK n \in Proposals : n.from = p /\ n.ballot = ballot[p] /\ n.start = k.start
        BY <2>5 DEF GrantAsked
    <2>7. e <= n.start + LeaseInterval
        BY <1>1, <2>5, <2>6 DEF LifeTyped, Periods
    <2>8. {q \in Nodes : Acks(m)[q] >= e} \subseteq Speakers(p, prepared[p], e)
        <3>. SUFFICES ASSUME NEW q \in Nodes, Acks(m)[q] >= e
                      PROVE  q \in Speakers(p, prepared[p], e)
            OBVIOUS
        <3>1. Acks(m)[q] \in Nat
            <4>1. Acks(m) \in [Nodes -> Time \ {INVALID}]
                BY <1>1, AcksType DEF Grants
            <4>2. Acks(m)[q] \in Time \ {INVALID}
                BY <4>1
            <4>. QED
                BY <4>2, Domains
        <3>2. PICK g \in Grants : /\ g.from = q /\ g.to = p /\ g.ballot = ballot[p]
                                  /\ Acks(m)[q] = g.start + LeaseInterval
            BY <2>1, <2>2, <3>1, AcksArePresent
        <3>3. g.start <= g.sent /\ g.start \in Nat /\ g.sent \in Nat
            BY <1>1 DEF GrantAsked, LifeTyped
        <3>4. e <= g.sent + LeaseInterval /\ g \in Words
            BY <1>1, <3>1, <3>2, <3>3 DEF Periods, Words
        <3>. QED
            BY <2>3, <3>2, <3>4 DEF Speakers
    <2>9. Speakers(p, prepared[p], e) \in SUBSET Nodes
        BY DEF Speakers
    <2>10. IsMajority(Speakers(p, prepared[p], e))
        BY <2>1, <2>8, <2>9, MajorityGrows
    <2>. QED
        BY <2>3, <2>6, <2>7, <2>10
<1>. QED
    BY <1>2, <1>3 DEF Effects, BeliefStep, LeaseBelieved

\* A lease comes from grants of the ballot that was won last.
LEMMA LeaseHeldStep ==
    ASSUME Effects, Lives, VoteAsked, GrantAsked, OwnBallots, CampaignShort,
           SourceKnown, Tallied, LeaseHeld
    PROVE  LeaseHeld'
<1>1. LifeTyped /\ LifeTyped' /\ Periods /\ News
    BY DEF Effects
<1>. SUFFICES ASSUME NEW p \in Nodes, NEW e \in Int, lease'[p] = e, e # INVALID,
                     NEW b1 \in Int, prepared'[p] = b1
              PROVE  /\ \E m \in Proposals' :
                        /\ m.from = p /\ m.ballot = b1
                        /\ e <= m.start + LeaseInterval
                     /\ IsMajority(Speakers(p, b1, e)')
                     /\ \E b0 \in Ballot :
                        /\ Keeps(p, b0, e - LeaseInterval)'
                        /\ IsMajority(Backers(p, b0, e)')
    <2>1. \A p \in Nodes : lease'[p] \in Int /\ prepared'[p] \in Int
        BY <1>1 DEF LifeTyped
    <2>. QED
        BY <2>1 DEF LeaseHeld, IsMajority, Keeps, Backers, Speakers
<1>2. PICK b0 \in Ballot :
        Keeps(p, b0, e - LeaseInterval) /\ IsMajority(Backers(p, b0, e))
    BY LeaseBackedNow
<1>3. Keeps(p, b0, e - LeaseInterval)'
    <2>1. \A h \in HandOvers' : h.from = p => h \in HandOvers
        BY <1>1 DEF News, HandOverSent
    <2>. QED
        BY <1>2, <2>1 DEF Keeps
<1>4. IsMajority(Backers(p, b0, e)')
    <2>1. Backers(p, b0, e) \subseteq Backers(p, b0, e)' /\ Backers(p, b0, e)' \in SUBSET Nodes
        BY <1>1 DEF News, Backers
    <2>. QED
        BY <1>2, <2>1, MajorityGrows
<1>5. CASE prepared'[p] = prepared[p]
    <2>1. /\ \E m \in Proposals : /\ m.from = p /\ m.ballot = prepared[p]
                                  /\ e <= m.start + LeaseInterval
          /\ IsMajority(Speakers(p, prepared[p], e))
        BY <1>5, LeaseSpokenNow
    <2>2. /\ Speakers(p, prepared[p], e) \subseteq Speakers(p, b1, e)'
          /\ Speakers(p, b1, e)' \in SUBSET Nodes
        BY <1>1, <1>5 DEF News, Speakers, Words
    <2>3. IsMajority(Speakers(p, b1, e)')
        BY <2>1, <2>2, MajorityGrows
    <2>. QED
        BY <1>1, <1>2, <1>3, <1>4, <1>5, <2>1, <2>3 DEF News
<1>6. CASE prepared'[p] # prepared[p]
    <2>1. /\ Wins(p) /\ prepared'[p] = ballot[p] /\ lease[p] = e
          /\ \E m \in Proposals' : m.from = p /\ m.ballot = ballot[p] /\ m.start = now
        BY <1>6 DEF Effects, BeliefStep, BallotWon, Wins
    <2>2. e <= now + LeaseInterval
        BY <1>1, <2>1, LeaseNear
    <2>3. prepareOk'[p] \subseteq Speakers(p, b1, e)'
        <3>. SUFFICES ASSUME NEW q \in prepareOk'[p]
                      PROVE  q \in Speakers(p, b1, e)'
            OBVIOUS
        <3>1. PICK v \in Votes :
                /\ v.from = q /\ v.to = p /\ v.ballot = ballot[p]
                /\ prepared[p] # ballot[p] => lease[p] <= v.sent + LeaseInterval
            BY <2>1, WinningVotes
        <3>2. v \in Words' /\ q \in Nodes
            BY <1>1, <3>1 DEF News, Words, LifeTyped
        <3>. QED
            BY <1>6, <2>1, <3>1, <3>2 DEF Speakers
    <2>4. Speakers(p, b1, e)' \in SUBSET Nodes
        BY DEF Speakers
    <2>5. IsMajority(Speakers(p, b1, e)')
        BY <2>1, <2>3, <2>4, MajorityGrows DEF Wins
    <2>. QED
        BY <1>2, <1>3, <1>4, <2>1, <2>2, <2>5
<1>. QED
    BY <1>5, <1>6

-----------------------------------------------------------------------------
(* The winner of a ballot, and the leader that goes on *)

\* The votes that win a ballot exclude leases of lower ballots: either the
\* voters have none, or one of them tells of a lease, whose proposal excludes
\* them.
LEMMA WinnerExcludes ==
    ASSUME Effects, Lives, WordKept, VoteAsked, GrantAsked, CampaignShort, SourceKnown,
           Tallied, LeaseTold, LowerLapsed, WinnersApart,
           NEW r \in Nodes, Wins(r), NEW p \in Nodes, p # r,
           NEW b0 \in Ballot, b0 < ballot[r], NEW t \in Moment, Keeps(p, b0, t),
           now < t + LeaseInterval, t < now + LeaseInterval
    PROVE  IsMajority(Lapsed(p, b0, t))
<1>1. LifeTyped /\ Periods
    BY DEF Effects
<1>2. t \in Int /\ b0 \in Int /\ ballot[r] \in Int /\ now \in Nat
    BY <1>1, Domains DEF Moment, LifeTyped, Periods
<1>3. CASE \A q \in prepareOk'[r] : \A g \in Grants :
                g.from = q /\ g.to = p /\ g.ballot = b0 =>
                    g.start < t \/ t + LeaseInterval <= g.sent
    <2>1. ASSUME NEW q \in prepareOk'[r]
          PROVE  q \in Lapsed(p, b0, t)
        <3>1. PICK v \in Votes : /\ v.from = q /\ v.ballot = ballot[r]
                                 /\ now <= v.sent + Campaign
            BY WinningVotes
        <3>2. v \in Words
            BY DEF Words
        <3>3. /\ q \in Nodes /\ v.sent \in Nat
              /\ \/ Present(q, v.sent)
                 \/ v.sent + Gap <= initTs[q] + MaxLeaseTime
            BY <1>1, <3>1, <3>2, PastWord
        <3>4. initTs[q] \in Int /\ accBallot[q] \in Int
            BY <1>1, <3>3 DEF LifeTyped
        <3>5. CASE Present(q, v.sent)
            <4>1. b0 < accBallot[q]
                BY <1>2, <3>1, <3>2, <3>4, <3>5 DEF WordKept
            <4>. QED
                BY <1>3, <3>3, <4>1 DEF Lapsed
        <3>6. CASE v.sent + Gap <= initTs[q] + MaxLeaseTime
            <4>1. t + LeaseInterval <= initTs[q] + MaxLeaseTime
                BY <1>1, <1>2, <3>1, <3>3, <3>4, <3>6 DEF Periods
            <4>. QED
                BY <1>3, <3>3, <4>1 DEF Lapsed
        <3>. QED
            BY <3>3, <3>5, <3>6
    <2>2. IsMajority(prepareOk'[r]) /\ Lapsed(p, b0, t) \in SUBSET Nodes
        BY DEF Wins, Lapsed
    <2>. QED
        BY <2>1, <2>2, MajorityGrows
<1>4. ASSUME NEW q \in prepareOk'[r], NEW g \in Grants,
             g.from = q, g.to = p, g.ballot = b0,
             ~(g.start < t), ~(t + LeaseInterval <= g.sent)
      PROVE  IsMajority(Lapsed(p, b0, t))
    <2>1. PICK v \in Votes :
            /\ v.from = q /\ v.to = r /\ v.ballot = ballot[r] /\ CountsFor(v)
            /\ now <= v.sent + Campaign /\ v.sent <= now
        BY WinningVotes
    <2>2. v.sent \in Nat /\ g.sent \in Nat /\ g.start \in Nat /\ g.start <= g.sent
        BY <1>1 DEF LifeTyped, GrantAsked
    <2>3. t <= g.start /\ g.sent < t + LeaseInterval /\ g.sent <= now
        BY <1>1, <1>2, <1>4, <2>2 DEF Periods, Lives, LifeTyped
    <2>4. v.sent < g.start + LeaseInterval /\ g.sent < v.sent + Gap
        BY <1>1, <1>2, <2>1, <2>2, <2>3 DEF Periods
    <2>5. v.lease # NoLease
        BY <1>2, <1>4, <2>1, <2>4 DEF LeaseTold
    <2>6. PICK k \in Grants :
            /\ k.from = q /\ k.to = v.lease.owner /\ k.ballot = v.lease.ballot
            /\ g.sent <= k.sent /\ k.sent <= v.sent /\ b0 <= k.ballot
        BY <1>2, <1>4, <2>1, <2>4 DEF LeaseTold
    <2>7. PICK m \in Proposals : m.from = k.to /\ m.ballot = k.ballot /\ m.start = k.start
        BY DEF GrantAsked
    <2>8. /\ k.sent \in Nat /\ k.start \in Nat /\ k.start <= k.sent
          /\ k.sent <= k.start + MaxDelay /\ k.ballot \in Int /\ k.to \in Nodes
        BY <1>1 DEF LifeTyped, GrantAsked
    <2>9. k.to # p
        <3>. SUFFICES ASSUME k.to = p PROVE FALSE
            OBVIOUS
        <3>1. PICK h \in HandOvers : /\ h.from = p /\ h.old = k.ballot
                                     /\ v.sent <= h.sent + Campaign
            BY <2>1, <2>5, <2>6 DEF CountsFor
        <3>2. h.sent \in Nat /\ h.old \in Int
            BY <1>1 DEF LifeTyped
        <3>3. h.sent + DownTime <= t
            BY <1>2, <2>6, <3>1, <3>2 DEF Keeps
        <3>. QED
            BY <1>1, <1>2, <2>2, <2>3, <2>6, <2>8, <3>1, <3>2, <3>3 DEF Periods
    <2>10. m.start < t + LeaseInterval /\ t < m.start + LeaseInterval
        BY <1>1, <1>2, <2>1, <2>2, <2>3, <2>6, <2>7, <2>8 DEF Periods
    <2>11. CASE b0 < k.ballot
        BY <2>7, <2>9, <2>10, <2>11 DEF LowerLapsed
    <2>12. CASE b0 = k.ballot
        <3>1. PICK n \in Proposals : n.from = p /\ n.ballot = b0 /\ n.start = g.start
            BY <1>4 DEF GrantAsked
        <3>2. /\ m.start <= n.start => m.start + LeaseInterval <= n.start
              /\ n.start <= m.start => n.start + LeaseInterval <= m.start
            BY <2>7, <2>9, <2>12, <3>1 DEF WinnersApart
        <3>. QED
            BY <1>1, <1>2, <2>1, <2>2, <2>3, <2>6, <2>7, <2>8, <2>10, <3>1, <3>2 DEF Periods
    <2>. QED
        BY <1>2, <2>6, <2>8, <2>11, <2>12
<1>. QED
    BY <1>3, <1>4

\* A leader that goes on excludes what its earlier proposal has excluded, and
\* the acceptors that spoke for it last exclude the rest.
LEMMA LeaderExcludes ==
    ASSUME Effects, Lives, WordKept, GrantAsked, OwnBallots, Tallied, LowerLapsed, LeaseHeld,
           NEW r \in Nodes, prepared' = prepared, now < lease'[r],
           NEW p \in Nodes, p # r,
           NEW b0 \in Ballot, b0 < prepared[r], NEW t \in Moment, Keeps(p, b0, t),
           now < t + LeaseInterval, t < now + LeaseInterval
    PROVE  IsMajority(Lapsed(p, b0, t))
<1>1. LifeTyped /\ LifeTyped' /\ Periods
    BY DEF Effects
<1>2. t \in Int /\ b0 \in Int /\ prepared[r] \in Int /\ now \in Nat
    BY <1>1, Domains DEF Moment, LifeTyped, Periods
<1>3. PICK e \in Int : lease'[r] = e
    BY <1>1 DEF LifeTyped
<1>4. e # INVALID
    BY <1>2, <1>3
<1>5. PICK m \in Proposals : /\ m.from = r /\ m.ballot = prepared[r]
                             /\ e <= m.start + LeaseInterval
    BY <1>3, <1>4, LeaseSpokenNow
<1>6. m.start \in Nat /\ m.start <= now
    BY <1>1 DEF LifeTyped, Lives
<1>7. CASE t < m.start + LeaseInterval
    <2>1. m.start < t + LeaseInterval
        BY <1>1, <1>2, <1>6 DEF Periods
    <2>. QED
        BY <1>5, <1>7, <2>1 DEF LowerLapsed
<1>8. CASE m.start + LeaseInterval <= t
    <2>1. now < t
        BY <1>1, <1>2, <1>3, <1>5, <1>6, <1>8 DEF Periods
    <2>2. ASSUME NEW q \in Nodes, q \in Speakers(r, prepared[r], e)
          PROVE  q \in Lapsed(p, b0, t)
        <3>1. PICK w \in Words : /\ w.from = q /\ w.ballot = prepared[r]
                                 /\ e <= w.sent + LeaseInterval
            BY <2>2 DEF Speakers
        <3>2. /\ w.sent \in Nat
              /\ \/ Present(q, w.sent)
                 \/ w.sent + Gap <= initTs[q] + MaxLeaseTime
            BY <1>1, <3>1, PastWord
        <3>3. initTs[q] \in Int /\ accBallot[q] \in Int
            BY <1>1 DEF LifeTyped
        <3>4. \A g \in Grants : g.start < t
            BY <1>1, <1>2, <2>1 DEF GrantAsked, Lives, LifeTyped
        <3>5. CASE Present(q, w.sent)
            <4>1. b0 < accBallot[q]
                BY <1>2, <3>1, <3>3, <3>5 DEF WordKept
            <4>. QED
                BY <3>4, <4>1 DEF Lapsed
        <3>6. CASE w.sent + Gap <= initTs[q] + MaxLeaseTime
            <4>1. t + LeaseInterval <= initTs[q] + MaxLeaseTime
                BY <1>1, <1>2, <1>3, <3>1, <3>2, <3>3, <3>6 DEF Periods
            <4>. QED
                BY <3>4, <4>1 DEF Lapsed
        <3>. QED
            BY <3>2, <3>5, <3>6
    <2>3. IsMajority(Speakers(r, prepared[r], e))
        BY <1>3, <1>4, LeaseSpokenNow
    <2>4. Speakers(r, prepared[r], e) \in SUBSET Nodes /\ Lapsed(p, b0, t) \in SUBSET Nodes
        BY DEF Speakers, Lapsed
    <2>5. Speakers(r, prepared[r], e) \subseteq Lapsed(p, b0, t)
        BY <2>2, <2>4
    <2>. QED
        BY <2>3, <2>4, <2>5, MajorityGrows
<1>. QED
    BY <1>1, <1>2, <1>6, <1>7, <1>8 DEF Periods

\* A new proposal leaves no lease of a lower ballot to others.
LEMMA LowerLapsedStep ==
    ASSUME Effects, Lives, Lives', WordKept, VoteAsked, GrantAsked, OwnBallots,
           CampaignShort, SourceKnown, Tallied, LeaseTold, LowerLapsed, WinnersApart,
           LeaseHeld
    PROVE  LowerLapsed'
<1>1. LifeTyped /\ LifeTyped' /\ Periods /\ News
    BY DEF Effects
<1>. SUFFICES ASSUME NEW m \in Proposals', NEW p \in Nodes, NEW b0 \in Ballot,
                     NEW t \in Moment,
                     p # m.from, b0 < m.ballot, Keeps(p, b0, t)',
                     m.start < t + LeaseInterval, t < m.start + LeaseInterval
              PROVE  IsMajority(Lapsed(p, b0, t)')
    BY DEF LowerLapsed, IsMajority, Moment
<1>2. t \in Int
    BY <1>1 DEF Moment, Periods
<1>3. Keeps(p, b0, t)
    BY <1>1 DEF Keeps, News
<1>4. IsMajority(Lapsed(p, b0, t))
    <2>1. CASE m \in Proposals
        BY <1>3, <2>1 DEF LowerLapsed
    <2>2. CASE m \notin Proposals
        <3>1. ProposalMade(m) /\ m.sent = now /\ m.from \in Nodes
            BY <1>1, <2>2 DEF News, LifeTyped
        <3>2. now < t + LeaseInterval /\ t < now + LeaseInterval
            BY <3>1 DEF ProposalMade
        <3>3. CASE Wins(m.from)
            <4>1. b0 < ballot[m.from]
                BY <3>1, <3>3 DEF ProposalMade, Wins
            <4>. QED
                BY <1>3, <3>1, <3>2, <3>3, <4>1, WinnerExcludes
        <3>4. CASE prepared' = prepared /\ now < lease'[m.from]
            <4>1. b0 < prepared[m.from]
                BY <3>1, <3>4 DEF ProposalMade
            <4>. QED
                BY <1>3, <3>1, <3>2, <3>4, <4>1, LeaderExcludes
        <3>. QED
            BY <3>1, <3>3, <3>4 DEF ProposalMade
    <2>. QED
        BY <2>1, <2>2
<1>5. Lapsed(p, b0, t) \subseteq Lapsed(p, b0, t)' /\ Lapsed(p, b0, t)' \in SUBSET Nodes
    BY <1>2, LapsedGrows DEF Lapsed
<1>. QED
    BY <1>4, <1>5, MajorityGrows

\* The votes that win a ballot are not cast again for somebody else ...
LEMMA WinnerMutes ==
    ASSUME Effects, Lives, WordKept, VotesApart, VoteAsked, CampaignShort, SourceKnown,
           Tallied, NEW r \in Nodes, Wins(r), NEW p \in Nodes, p # r,
           NEW t \in Moment, now <= t + Campaign, t < now + LeaseInterval
    PROVE  IsMajority(Mute(p, ballot[r], t))
<1>1. LifeTyped /\ Periods
    BY DEF Effects
<1>2. t \in Int /\ ballot[r] \in Int /\ now \in Nat
    BY <1>1 DEF Moment, LifeTyped, Periods
<1>3. ASSUME NEW q \in prepareOk'[r]
      PROVE  q \in Mute(p, ballot[r], t)
    <2>1. PICK v \in Votes : /\ v.from = q /\ v.to = r /\ v.ballot = ballot[r]
                             /\ now <= v.sent + Campaign
        BY WinningVotes
    <2>2. v \in Words
        BY DEF Words
    <2>3. /\ q \in Nodes /\ v.sent \in Nat /\ v.sent <= now
          /\ \/ Present(q, v.sent)
             \/ v.sent + Gap <= initTs[q] + MaxLeaseTime
        BY <1>1, <2>1, <2>2, PastWord
    <2>4. initTs[q] \in Int /\ accBallot[q] \in Int
        BY <1>1, <2>3 DEF LifeTyped
    <2>5. ASSUME NEW w \in Votes, w.from = q, w.to = p, w.ballot = ballot[r]
          PROVE  w.sent < t
        <3>1. w.sent \in Nat /\ w.sent <= now
            BY <1>1 DEF LifeTyped, Lives
        <3>2. /\ w.sent <= v.sent => w.sent + Gap <= v.sent
              /\ v.sent <= w.sent => v.sent + Gap <= w.sent
            BY <2>1, <2>5 DEF VotesApart
        <3>. QED
            BY <1>1, <1>2, <2>1, <2>3, <3>1, <3>2 DEF Periods
    <2>6. CASE Present(q, v.sent)
        <3>1. ballot[r] <= accBallot[q]
            BY <2>1, <2>2, <2>6 DEF WordKept
        <3>. QED
            BY <2>3, <2>5, <3>1 DEF Mute
    <2>7. CASE v.sent + Gap <= initTs[q] + MaxLeaseTime
        <3>1. t + Campaign < initTs[q] + MaxLeaseTime
            BY <1>1, <1>2, <2>1, <2>3, <2>4, <2>7 DEF Periods
        <3>. QED
            BY <2>3, <2>5, <3>1 DEF Mute
    <2>. QED
        BY <2>3, <2>6, <2>7
<1>4. IsMajority(prepareOk'[r]) /\ Mute(p, ballot[r], t) \in SUBSET Nodes
    BY DEF Wins, Mute
<1>. QED
    BY <1>3, <1>4, MajorityGrows

\* ... nor while the leader goes on.
LEMMA LeaderMutes ==
    ASSUME Effects, Lives, WordKept, GrantAsked, OwnBallots, Tallied, RivalsMute, LeaseHeld,
           NEW r \in Nodes, prepared' = prepared, now < lease'[r],
           NEW p \in Nodes, p # r,
           NEW t \in Moment, now <= t + Campaign, t < now + LeaseInterval
    PROVE  IsMajority(Mute(p, prepared[r], t))
<1>1. LifeTyped /\ LifeTyped' /\ Periods
    BY DEF Effects
<1>2. t \in Int /\ prepared[r] \in Int /\ now \in Nat
    BY <1>1 DEF Moment, LifeTyped, Periods
<1>3. PICK e \in Int : lease'[r] = e
    BY <1>1 DEF LifeTyped
<1>4. e # INVALID
    BY <1>2, <1>3
<1>5. PICK m \in Proposals : /\ m.from = r /\ m.ballot = prepared[r]
                             /\ e <= m.start + LeaseInterval
    BY <1>3, <1>4, LeaseSpokenNow
<1>6. m.start \in Nat /\ m.start <= now
    BY <1>1 DEF LifeTyped, Lives
<1>7. CASE t < m.start + LeaseInterval
    <2>1. m.start <= t + Campaign
        BY <1>1, <1>2, <1>6 DEF Periods
    <2>2. IsMajority(Mute(p, m.ballot, t))
        BY <1>5, <1>7, <2>1 DEF RivalsMute
    <2>. QED
        BY <1>5, <2>2
<1>8. CASE m.start + LeaseInterval <= t
    <2>1. now < t
        BY <1>1, <1>2, <1>3, <1>5, <1>6, <1>8 DEF Periods
    <2>2. ASSUME NEW q \in Nodes, q \in Speakers(r, prepared[r], e)
          PROVE  q \in Mute(p, prepared[r], t)
        <3>1. PICK w \in Words : /\ w.from = q /\ w.ballot = prepared[r]
                                 /\ e <= w.sent + LeaseInterval
            BY <2>2 DEF Speakers
        <3>2. /\ w.sent \in Nat
              /\ \/ Present(q, w.sent)
                 \/ w.sent + Gap <= initTs[q] + MaxLeaseTime
            BY <1>1, <3>1, PastWord
        <3>3. initTs[q] \in Int
            BY <1>1 DEF LifeTyped
        <3>4. \A v \in Votes : v.sent < t
            BY <1>1, <1>2, <2>1 DEF Lives, LifeTyped
        <3>5. CASE Present(q, w.sent)
            <4>1. prepared[r] <= accBallot[q]
                BY <3>1, <3>5 DEF WordKept
            <4>. QED
                BY <3>4, <4>1 DEF Mute
        <3>6. CASE w.sent + Gap <= initTs[q] + MaxLeaseTime
            <4>1. t + Campaign < initTs[q] + MaxLeaseTime
                BY <1>1, <1>2, <1>3, <3>1, <3>2, <3>3, <3>6 DEF Periods
            <4>. QED
                BY <3>4, <4>1 DEF Mute
        <3>. QED
            BY <3>2, <3>5, <3>6
    <2>3. IsMajority(Speakers(r, prepared[r], e))
        BY <1>3, <1>4, LeaseSpokenNow
    <2>4. /\ Speakers(r, prepared[r], e) \in SUBSET Nodes
          /\ Mute(p, prepared[r], t) \in SUBSET Nodes
        BY DEF Speakers, Mute
    <2>5. Speakers(r, prepared[r], e) \subseteq Mute(p, prepared[r], t)
        BY <2>2, <2>4
    <2>. QED
        BY <2>3, <2>4, <2>5, MajorityGrows
<1>. QED
    BY <1>1, <1>2, <1>6, <1>7, <1>8 DEF Periods

\* A new proposal leaves no vote of its ballot to others.
LEMMA RivalsMuteStep ==
    ASSUME Effects, Lives, Lives', WordKept, VotesApart, VoteAsked, GrantAsked, OwnBallots,
           CampaignShort, SourceKnown, Tallied, RivalsMute, LeaseHeld
    PROVE  RivalsMute'
<1>1. LifeTyped /\ LifeTyped' /\ Periods /\ News
    BY DEF Effects
<1>. SUFFICES ASSUME NEW m \in Proposals', NEW p \in Nodes, NEW t \in Moment,
                     p # m.from, m.start <= t + Campaign, t < m.start + LeaseInterval
              PROVE  IsMajority(Mute(p, m.ballot, t)')
    BY DEF RivalsMute, IsMajority, Moment
<1>2. t \in Int /\ m.ballot \in Ballot
    BY <1>1 DEF Moment, Periods, LifeTyped
<1>3. IsMajority(Mute(p, m.ballot, t))
    <2>1. CASE m \in Proposals
        BY <2>1 DEF RivalsMute
    <2>2. CASE m \notin Proposals
        <3>1. ProposalMade(m) /\ m.sent = now /\ m.from \in Nodes
            BY <1>1, <2>2 DEF News, LifeTyped
        <3>2. now <= t + Campaign /\ t < now + LeaseInterval
            BY <3>1 DEF ProposalMade
        <3>3. CASE Wins(m.from)
            <4>1. m.ballot = ballot[m.from]
                BY <3>1, <3>3 DEF ProposalMade, Wins
            <4>. QED
                BY <3>1, <3>2, <3>3, <4>1, WinnerMutes
        <3>4. CASE prepared' = prepared /\ now < lease'[m.from]
            <4>1. m.ballot = prepared[m.from]
                BY <3>1, <3>4 DEF ProposalMade
            <4>. QED
                BY <3>1, <3>2, <3>4, <4>1, LeaderMutes
        <3>. QED
            BY <3>1, <3>3, <3>4 DEF ProposalMade
    <2>. QED
        BY <2>1, <2>2
<1>4. Mute(p, m.ballot, t) \subseteq Mute(p, m.ballot, t)' /\ Mute(p, m.ballot, t)' \in SUBSET Nodes
    BY <1>2, MuteGrows DEF Mute
<1>. QED
    BY <1>3, <1>4, MajorityGrows

\* Two winners of a ballot are one lease apart.
LEMMA WinnersApartStep ==
    ASSUME Effects, Lives, VoteAsked, GrantAsked, OwnBallots, CampaignShort, SourceKnown,
           Tallied, RivalsMute, WinnersApart, LeaseHeld
    PROVE  WinnersApart'
<1>1. LifeTyped /\ LifeTyped' /\ Periods /\ News
    BY DEF Effects
<1>2. ASSUME NEW m \in Proposals, NEW n \in Proposals', n \notin Proposals,
             m.ballot = n.ballot, m.from # n.from
      PROVE  n.start = now /\ m.start + LeaseInterval <= n.start
    <2>. DEFINE r == n.from
    <2>1. ProposalMade(n) /\ n.start = now /\ r \in Nodes
        BY <1>1, <1>2 DEF News, LifeTyped, ProposalMade
    <2>2. /\ m.start \in Nat /\ m.start <= now /\ now \in Nat /\ m.from \in Nodes
          /\ now <= MaxTime
        BY <1>1 DEF LifeTyped, Lives
    <2>3. SUFFICES ASSUME now < m.start + LeaseInterval PROVE FALSE
        BY <1>1, <2>1, <2>2 DEF Periods
    <2>4. CASE Wins(r)
        <3>1. PICK t \in Int : t = now - Campaign
            BY <1>1, <2>2 DEF Periods
        <3>2. t \in Moment
            BY <1>1, <2>2, <3>1 DEF Moment, Periods
        <3>3. m.start <= t + Campaign /\ t < m.start + LeaseInterval
            BY <1>1, <2>2, <2>3, <3>1 DEF Periods
        <3>4. IsMajority(Mute(r, m.ballot, t))
            BY <1>2, <2>1, <3>2, <3>3 DEF RivalsMute
        <3>5. /\ Mute(r, m.ballot, t) \in SUBSET Nodes /\ prepareOk'[r] \in SUBSET Nodes
              /\ IsMajority(prepareOk'[r])
            BY <1>1, <2>1, <2>4 DEF Mute, LifeTyped, Wins
        <3>6. PICK q \in Nodes : q \in Mute(r, m.ballot, t) /\ q \in prepareOk'[r]
            BY <3>4, <3>5, MajoritiesMeet
        <3>7. PICK v \in Votes : /\ v.from = q /\ v.to = r /\ v.ballot = ballot[r]
                                 /\ now <= v.sent + Campaign /\ v.sent <= now
            BY <2>1, <2>4, <3>6, WinningVotes
        <3>8. m.ballot = ballot[r]
            BY <1>2, <2>1, <2>4 DEF ProposalMade, Wins
        <3>9. v.sent < t \/ t + Campaign < v.sent
            BY <3>6, <3>7, <3>8 DEF Mute
        <3>10. v.sent \in Nat
            BY <1>1 DEF LifeTyped
        <3>. QED
            BY <1>1, <2>2, <3>1, <3>7, <3>9, <3>10 DEF Periods
    <2>5. CASE prepared' = prepared /\ now < lease'[r]
        <3>1. PICK e \in Int : lease'[r] = e
            BY <1>1, <2>1 DEF LifeTyped
        <3>2. e # INVALID
            BY <2>2, <2>5, <3>1
        <3>3. PICK k \in Proposals : /\ k.from = r /\ k.ballot = prepared[r]
                                     /\ e <= k.start + LeaseInterval
            BY <2>1, <2>5, <3>1, <3>2, LeaseSpokenNow
        <3>4. k.ballot = m.ballot
            BY <1>2, <2>1, <2>5, <3>3 DEF ProposalMade
        <3>5. k.start \in Nat /\ k.start <= now
            BY <1>1 DEF LifeTyped, Lives
        <3>6. /\ m.start <= k.start => m.start + LeaseInterval <= k.start
              /\ k.start <= m.start => k.start + LeaseInterval <= m.start
            BY <1>2, <3>3, <3>4 DEF WinnersApart
        <3>. QED
            BY <1>1, <2>2, <2>3, <2>5, <3>1, <3>3, <3>5, <3>6 DEF Periods
    <2>. QED
        BY <2>1, <2>4, <2>5 DEF ProposalMade
<1>. SUFFICES ASSUME NEW m \in Proposals', NEW n \in Proposals', m.ballot = n.ballot,
                     m.start <= n.start, m.from # n.from
              PROVE  m.start + LeaseInterval <= n.start
    BY DEF WinnersApart
<1>3. CASE m \in Proposals /\ n \in Proposals
    BY <1>3 DEF WinnersApart
<1>4. CASE m \in Proposals /\ n \notin Proposals
    BY <1>2, <1>4
<1>5. CASE m \notin Proposals /\ n \in Proposals
    <2>1. n.start + LeaseInterval <= m.start
        BY <1>2, <1>5
    <2>. QED
        BY <1>1, <2>1 DEF Periods, LifeTyped
<1>6. CASE m \notin Proposals /\ n \notin Proposals
    BY <1>1, <1>6 DEF News, ProposalMade
<1>. QED
    BY <1>3, <1>4, <1>5, <1>6

-----------------------------------------------------------------------------
(* Restarts *)

\* A restart: everything that r has said becomes past.
Restarted(r) ==
    /\ now' = now /\ msgs' = msgs
    /\ \A q \in Nodes : q # r =>
        /\ ballot'[q] = ballot[q] /\ prepared'[q] = prepared[q]
        /\ prepareOk'[q] = prepareOk[q] /\ promised'[q] = promised[q]
        /\ lease'[q] = lease[q] /\ source'[q] = source[q]
        /\ accBallot'[q] = accBallot[q] /\ window'[q] = window[q]
        /\ best'[q] = best[q] /\ accLease'[q] = accLease[q] /\ initTs'[q] = initTs[q]
    /\ ballot'[r] = INVALID /\ prepared'[r] = INVALID /\ lease'[r] = INVALID
    /\ prepareOk'[r] = {} /\ source'[r] = NoSource /\ best'[r] = NoRequest
    /\ \A q \in Nodes : promised'[r][q] = 0
    /\ initTs'[r] = now + DownTime

\* Restart does this.
LEMMA RestartEffects ==
    ASSUME TypeRest, NEW r \in Nodes, Restart(r)
    PROVE  Restarted(r)
<1>1. now' = now /\ msgs' = msgs
    BY DEF Restart
<1>2. \A q \in Nodes : q # r =>
        /\ ballot'[q] = ballot[q] /\ prepared'[q] = prepared[q]
        /\ prepareOk'[q] = prepareOk[q] /\ promised'[q] = promised[q]
        /\ lease'[q] = lease[q] /\ source'[q] = source[q]
        /\ accBallot'[q] = accBallot[q] /\ window'[q] = window[q]
        /\ best'[q] = best[q] /\ accLease'[q] = accLease[q] /\ initTs'[q] = initTs[q]
    BY DEF Restart, TypeRest
<1>3. /\ ballot'[r] = INVALID /\ prepared'[r] = INVALID /\ lease'[r] = INVALID
      /\ prepareOk'[r] = {} /\ source'[r] = NoSource /\ best'[r] = NoRequest
      /\ \A q \in Nodes : promised'[r][q] = 0
      /\ initTs'[r] = now + DownTime
    BY DEF Restart, TypeRest
<1>. QED
    BY <1>1, <1>2, <1>3 DEF Restarted

\* What the invariant says of the messages alone
LEMMA RestartSets ==
    ASSUME NEW r \in Nodes, Restarted(r)
    PROVE  /\ Prepares' = Prepares /\ Votes' = Votes /\ Proposals' = Proposals
           /\ Grants' = Grants /\ HandOvers' = HandOvers /\ Words' = Words
BY DEF Restarted, Prepares, Votes, Proposals, Grants, HandOvers, Words

\* What r has said before is past, as it was for the others.
LEMMA RestartPast ==
    ASSUME LifeTyped, Periods, Lives, NEW r \in Nodes, Restarted(r), NEW m \in msgs,
           m.type # "rejected"
    PROVE  /\ m.from \in Nodes
           /\ m.from = r => Past(r, m.sent)' /\ ~Present(r, m.sent)'
           /\ Present(m.from, m.sent)' => m.from # r /\ Present(m.from, m.sent)
           /\ Past(m.from, m.sent) => Past(m.from, m.sent)'
           /\ Present(m.from, m.sent)' \/ Past(m.from, m.sent)'
<1>1. m.from \in Nodes /\ m.sent \in Nat /\ m.sent <= now /\ now \in Nat
    BY DEF LifeTyped, Lives
<1>2. m.from = r => Past(r, m.sent)' /\ ~Present(r, m.sent)'
    BY <1>1 DEF Restarted, Past, Present, Periods
<1>3. m.from # r => initTs'[m.from] = initTs[m.from]
    BY <1>1 DEF Restarted
<1>4. Present(m.from, m.sent) \/ Past(m.from, m.sent)
    BY DEF Lives
<1>. QED
    BY <1>1, <1>2, <1>3, <1>4 DEF Present, Past

\* The acceptor's part of LifeInv survives a restart ...
LEMMA RestartWords ==
    ASSUME LifeTyped, Periods, LifeInv, NEW r \in Nodes, Restarted(r)
    PROVE  /\ Lives' /\ WordKept' /\ VotesApart' /\ WindowAsked' /\ VoteAsked'
           /\ GrantAsked' /\ LeaseKept' /\ LeaseTold' /\ WinnersApart'
<1>1. /\ Prepares' = Prepares /\ Votes' = Votes /\ Proposals' = Proposals
      /\ Grants' = Grants /\ HandOvers' = HandOvers /\ Words' = Words
    BY RestartSets
<1>2. now' = now /\ msgs' = msgs /\ Lives
    BY DEF Restarted, LifeInv
<1>3. \A w \in Words : /\ w \in msgs /\ w.type # "rejected" /\ w.from \in Nodes
                       /\ w \in Grants => w.type = "accepted"
    BY DEF Words, LifeTyped
<1>4. Lives'
    <2>1. \A m \in msgs' : m.sent <= now'
        BY <1>2 DEF Lives
    <2>2. \A m \in msgs' : m.type # "rejected" =>
                Present(m.from, m.sent)' \/ Past(m.from, m.sent)'
        BY <1>2, RestartPast
    <2>3. ASSUME NEW w \in Words'
          PROVE  initTs'[w.from] + MaxLeaseTime <= w.sent \/ Past(w.from, w.sent)'
        <3>1. w \in Words /\ w \in msgs /\ w.type # "rejected" /\ w.from \in Nodes
            BY <1>1, <1>3, <2>3
        <3>2. initTs[w.from] + MaxLeaseTime <= w.sent \/ Past(w.from, w.sent)
            BY <1>2, <3>1 DEF Lives
        <3>3. w.from # r => initTs'[w.from] = initTs[w.from]
            BY <3>1 DEF Restarted
        <3>. QED
            BY <1>2, <3>1, <3>2, <3>3, RestartPast
    <2>4. \A m \in Proposals' : m.start = m.sent
        BY <1>1, <1>2 DEF Lives
    <2>. QED
        BY <2>1, <2>2, <2>3, <2>4 DEF Lives
<1>5. WordKept'
    <2>. SUFFICES ASSUME NEW w \in Words', Present(w.from, w.sent)'
                  PROVE  w.ballot <= accBallot'[w.from]
        BY DEF WordKept
    <2>1. w \in Words /\ w \in msgs /\ w.type # "rejected" /\ w.from \in Nodes
        BY <1>1, <1>3
    <2>2. w.from # r /\ Present(w.from, w.sent)
        BY <1>2, <2>1, RestartPast
    <2>3. accBallot'[w.from] = accBallot[w.from]
        BY <2>1, <2>2 DEF Restarted
    <2>. QED
        BY <2>1, <2>2, <2>3 DEF LifeInv, WordKept
<1>6. VotesApart' /\ VoteAsked' /\ GrantAsked' /\ LeaseTold' /\ WinnersApart'
    BY <1>1 DEF LifeInv, VotesApart, VoteAsked, GrantAsked, LeaseTold, WinnersApart
<1>7. WindowAsked'
    <2>. SUFFICES ASSUME NEW q \in Nodes, best'[q] # NoRequest
                  PROVE  /\ initTs'[q] + MaxLeaseTime <= now'
                         /\ best'[q].opened <= now' /\ now' <= best'[q].opened + MaxWindow
                         /\ \E x \in Prepares' :
                            /\ x.from = best'[q].from /\ x.ballot = window'[q]
                            /\ x.role = "follower"
                            /\ best'[q].opened <= x.sent + MaxDelay
        BY DEF WindowAsked
    <2>1. best'[q] = best[q] /\ window'[q] = window[q] /\ initTs'[q] = initTs[q]
        BY DEF Restarted
    <2>. QED
        BY <1>1, <1>2, <2>1 DEF LifeInv, WindowAsked
<1>8. LeaseKept'
    <2>1. ASSUME NEW g \in Grants', Present(g.from, g.sent)'
          PROVE  Present(g.from, g.sent) /\ accLease'[g.from] = accLease[g.from]
        <3>1. g \in Grants /\ g \in msgs /\ g.type # "rejected" /\ g.from \in Nodes
            BY <1>1 DEF LifeTyped
        <3>2. g.from # r /\ Present(g.from, g.sent)
            BY <1>2, <2>1, <3>1, RestartPast
        <3>. QED
            BY <3>1, <3>2 DEF Restarted
    <2>. QED
        BY <1>1, <1>2, <2>1 DEF LifeInv, LeaseKept
<1>. QED
    BY <1>4, <1>5, <1>6, <1>7, <1>8

\* ... and so does the proposer's.
LEMMA RestartProposers ==
    ASSUME LifeTyped, Periods, LifeInv, NEW r \in Nodes, Restarted(r)
    PROVE  OwnBallots' /\ CampaignShort' /\ HandedOver' /\ SourceKnown' /\ Tallied'
<1>1. /\ Prepares' = Prepares /\ Votes' = Votes /\ Proposals' = Proposals
      /\ Grants' = Grants /\ HandOvers' = HandOvers
    BY RestartSets
<1>2. now' = now /\ msgs' = msgs /\ Lives
    BY DEF Restarted, LifeInv
<1>3. /\ \A x \in Prepares : x \in msgs /\ x.type # "rejected" /\ x.from \in Nodes
      /\ \A m \in Proposals : m \in msgs /\ m.type # "rejected" /\ m.from \in Nodes
      /\ \A h \in HandOvers : h \in msgs /\ h.type # "rejected" /\ h.from \in Nodes
    BY DEF LifeTyped
<1>4. \A q \in Nodes : q # r =>
        /\ ballot'[q] = ballot[q] /\ prepared'[q] = prepared[q]
        /\ prepareOk'[q] = prepareOk[q] /\ promised'[q] = promised[q]
        /\ lease'[q] = lease[q] /\ source'[q] = source[q] /\ initTs'[q] = initTs[q]
    BY DEF Restarted
<1>5. \A m \in msgs : m.type # "rejected" /\ Present(m.from, m.sent)' =>
            m.from # r /\ Present(m.from, m.sent)
    BY <1>2, RestartPast
<1>6. OwnBallots'
    <2>1. \A p \in Nodes : prepared'[p] <= ballot'[p]
        BY <1>4 DEF LifeInv, OwnBallots, Restarted
    <2>. QED
        BY <1>1, <1>3, <1>4, <1>5, <2>1 DEF LifeInv, OwnBallots
<1>7. CampaignShort'
    BY <1>1, <1>3, <1>4, <1>5 DEF LifeInv, CampaignShort
<1>8. ASSUME NEW p \in Nodes, p # r, NEW h \in HandOvers, SoonAfter(p, h)
      PROVE  SoonAfter(p, h)'
    BY <1>1, <1>4, <1>8 DEF SoonAfter, Present
<1>9. HandedOver'
    <2>. SUFFICES ASSUME NEW h \in HandOvers, Present(h.from, h.sent)'
                  PROVE  SoonAfter(h.from, h)'
        BY <1>1 DEF HandedOver
    <2>1. h.from \in Nodes /\ h.from # r /\ Present(h.from, h.sent)
        BY <1>3, <1>5
    <2>2. SoonAfter(h.from, h)
        BY <2>1 DEF LifeInv, HandedOver
    <2>. QED
        BY <1>8, <2>1, <2>2
<1>10. SourceKnown'
    <2>. SUFFICES ASSUME NEW p \in Nodes, source'[p] # NoSource
                  PROVE  \E h \in HandOvers' :
                            /\ h.to = p /\ h.ballot = ballot'[p]
                            /\ h.from = source'[p].addr /\ h.old = source'[p].ballot
                            /\ SoonAfter(p, h)'
        BY DEF SourceKnown
    <2>1. p # r
        BY DEF Restarted
    <2>2. PICK h \in HandOvers :
            /\ h.to = p /\ h.ballot = ballot[p]
            /\ h.from = source[p].addr /\ h.old = source[p].ballot
            /\ SoonAfter(p, h)
        BY <1>4, <2>1 DEF LifeInv, SourceKnown
    <2>3. SoonAfter(p, h)'
        BY <1>8, <2>1, <2>2
    <2>. QED
        BY <1>1, <1>4, <2>1, <2>2, <2>3
<1>11. Tallied'
    <2>1. ASSUME NEW p \in Nodes, NEW q \in prepareOk'[p]
          PROVE  \E v \in Votes' :
                /\ v.from = q /\ v.to = p /\ v.ballot = ballot'[p] /\ CountsFor(v)'
                /\ \E x \in Prepares' : /\ x.from = p /\ x.ballot = ballot'[p]
                                        /\ Present(p, x.sent)' /\ x.sent <= v.sent
        <3>1. p # r
            BY <2>1 DEF Restarted
        <3>2. PICK v \in Votes :
                /\ v.from = q /\ v.to = p /\ v.ballot = ballot[p] /\ CountsFor(v)
                /\ \E x \in Prepares : /\ x.from = p /\ x.ballot = ballot[p]
                                       /\ Present(p, x.sent) /\ x.sent <= v.sent
            BY <1>4, <2>1, <3>1 DEF LifeInv, Tallied
        <3>3. CountsFor(v)'
            BY <1>1, <3>2 DEF CountsFor
        <3>4. \E x \in Prepares' : /\ x.from = p /\ x.ballot = ballot'[p]
                                   /\ Present(p, x.sent)' /\ x.sent <= v.sent
            BY <1>1, <1>4, <3>1, <3>2 DEF Present
        <3>. QED
            BY <1>1, <1>4, <3>1, <3>2, <3>3, <3>4
    <2>2. ASSUME NEW p \in Nodes, NEW q \in Nodes, promised'[p][q] # 0
          PROVE  \E g \in Grants' : /\ g.from = q /\ g.to = p /\ g.ballot = ballot'[p]
                                    /\ promised'[p][q] = g.start + LeaseInterval
                                    /\ Present(p, g.start)'
        <3>1. p # r
            BY <2>2 DEF Restarted
        <3>. QED
            BY <1>1, <1>4, <2>2, <3>1 DEF LifeInv, Tallied, Present
    <2>. QED
        BY <2>1, <2>2 DEF Tallied
<1>. QED
    BY <1>6, <1>7, <1>9, <1>10, <1>11

\* Whoever restarts is silent for longer than a lease or a campaign lasts that
\* has begun.
LEMMA RestartLeases ==
    ASSUME LifeTyped, LifeTyped', Periods, LifeInv, NEW r \in Nodes, Restarted(r)
    PROVE  LowerLapsed' /\ RivalsMute' /\ LeaseHeld'
<1>1. /\ Prepares' = Prepares /\ Votes' = Votes /\ Proposals' = Proposals
      /\ Grants' = Grants /\ HandOvers' = HandOvers /\ Words' = Words
    BY RestartSets
<1>2. now' = now /\ Lives /\ now \in Nat /\ initTs'[r] = now + DownTime
    BY DEF Restarted, LifeInv, LifeTyped
<1>3. \A q \in Nodes : q # r =>
        accBallot'[q] = accBallot[q] /\ initTs'[q] = initTs[q] /\ lease'[q] = lease[q]
            /\ prepared'[q] = prepared[q]
    BY DEF Restarted
<1>4. \A m \in Proposals : m.start \in Nat /\ m.start <= now
    BY <1>2 DEF LifeTyped, Lives
<1>5. LowerLapsed'
    <2>. SUFFICES ASSUME NEW m \in Proposals, NEW p \in Nodes, NEW b0 \in Ballot,
                         NEW t \in Moment,
                         p # m.from, b0 < m.ballot, Keeps(p, b0, t)',
                         m.start < t + LeaseInterval, t < m.start + LeaseInterval
                  PROVE  IsMajority(Lapsed(p, b0, t)')
        BY <1>1 DEF LowerLapsed, IsMajority, Moment
    <2>1. t \in Int
        BY DEF Moment, Periods
    <2>2. Keeps(p, b0, t)
        BY <1>1 DEF Keeps
    <2>3. IsMajority(Lapsed(p, b0, t))
        BY <2>2 DEF LifeInv, LowerLapsed
    <2>4. t + LeaseInterval <= initTs'[r] + MaxLeaseTime
        BY <1>2, <1>4, <2>1 DEF Periods
    <2>5. Lapsed(p, b0, t) \subseteq Lapsed(p, b0, t)' /\ Lapsed(p, b0, t)' \in SUBSET Nodes
        BY <1>1, <1>2, <1>3, <2>4 DEF Lapsed
    <2>. QED
        BY <2>3, <2>5, MajorityGrows
<1>6. RivalsMute'
    <2>. SUFFICES ASSUME NEW m \in Proposals, NEW p \in Nodes, NEW t \in Moment,
                         p # m.from, m.start <= t + Campaign, t < m.start + LeaseInterval
                  PROVE  IsMajority(Mute(p, m.ballot, t)')
        BY <1>1 DEF RivalsMute, IsMajority, Moment
    <2>1. t \in Int
        BY DEF Moment, Periods
    <2>2. IsMajority(Mute(p, m.ballot, t))
        BY DEF LifeInv, RivalsMute
    <2>3. t + Campaign < initTs'[r] + MaxLeaseTime
        BY <1>2, <1>4, <2>1 DEF Periods
    <2>4. Mute(p, m.ballot, t) \subseteq Mute(p, m.ballot, t)'
            /\ Mute(p, m.ballot, t)' \in SUBSET Nodes
        BY <1>1, <1>2, <1>3, <2>3 DEF Mute
    <2>. QED
        BY <2>2, <2>4, MajorityGrows
<1>7. LeaseHeld'
    <2>. SUFFICES ASSUME NEW p \in Nodes, lease'[p] # INVALID
                  PROVE  /\ \E m \in Proposals' :
                            /\ m.from = p /\ m.ballot = prepared'[p]
                            /\ lease'[p] <= m.start + LeaseInterval
                         /\ IsMajority(Speakers(p, prepared[p], lease[p])')
                         /\ \E b0 \in Ballot :
                            /\ Keeps(p, b0, lease[p] - LeaseInterval)'
                            /\ IsMajority(Backers(p, b0, lease[p])')
        BY DEF LeaseHeld, IsMajority
    <2>1. p # r
        BY DEF Restarted
    <2>2. lease'[p] = lease[p] /\ prepared'[p] = prepared[p]
        BY <1>3, <2>1
    <2>3. Speakers(p, prepared[p], lease[p])' = Speakers(p, prepared[p], lease[p])
        BY <1>1, <2>2 DEF Speakers
    <2>4. \A b0 \in Ballot :
            /\ Keeps(p, b0, lease[p] - LeaseInterval)
                => Keeps(p, b0, lease[p] - LeaseInterval)'
            /\ Backers(p, b0, lease[p])' = Backers(p, b0, lease[p])
        BY <1>1, <2>2 DEF Keeps, Backers
    <2>. QED
        BY <1>1, <2>2, <2>3, <2>4 DEF LifeInv, LeaseHeld
<1>. QED
    BY <1>5, <1>6, <1>7

-----------------------------------------------------------------------------
(* The invariant *)

\* A step that is not a restart keeps the invariant.
LEMMA EffectsLife ==
    ASSUME Effects, LifeInv, TypeOK'
    PROVE  LifeInv'
<1>1. /\ Lives /\ WordKept /\ VotesApart /\ WindowAsked /\ VoteAsked /\ GrantAsked
      /\ OwnBallots /\ CampaignShort /\ HandedOver /\ SourceKnown /\ Tallied
      /\ LeaseKept /\ LeaseTold /\ LowerLapsed /\ RivalsMute /\ WinnersApart
      /\ LeaseHeld
    BY DEF LifeInv
<1>2. Lives'
    BY <1>1, LivesStep
<1>3. WordKept' /\ VotesApart' /\ WindowAsked' /\ VoteAsked' /\ GrantAsked'
    BY <1>1, <1>2, WordKeptStep, VotesApartStep, WindowAskedStep, VoteAskedStep,
       GrantAskedStep
<1>4. OwnBallots' /\ CampaignShort' /\ HandedOver' /\ SourceKnown' /\ Tallied'
    BY <1>1, OwnBallotsStep, CampaignShortStep, HandedOverStep, SourceKnownStep,
       TalliedStep
<1>5. LeaseKept' /\ LeaseTold'
    BY <1>1, <1>2, <1>3, LeaseKeptStep, LeaseToldStep
<1>6. LowerLapsed' /\ RivalsMute' /\ WinnersApart' /\ LeaseHeld'
    BY <1>1, <1>2, LowerLapsedStep, RivalsMuteStep, WinnersApartStep, LeaseHeldStep
<1>. QED
    BY <1>2, <1>3, <1>4, <1>5, <1>6 DEF LifeInv

\* LifeInv is inductive, if restarts are slow.
LEMMA NextLife ==
    ASSUME Patient, LifeInv, [Next]_vars
    PROVE  LifeInv'
<1>1. TypeOK'
    BY NextType DEF LifeInv
<1>2. TypeRest /\ TypeRest' /\ restarts \in [Nodes -> Nat]
    BY <1>1, TypeSplit DEF LifeInv, TypeOK, TypeRest
<1>3. Periods /\ LifeTyped
    BY <1>2, PeriodsHold, LifeNumbers
<1>4. LifeTyped'
    BY <1>2, LifeNumbers, PTL
<1>5. CASE UNCHANGED vars
    <2>1. UNCHANGED <<now, msgs, ballot, countVars, source, prepared, lease,
                      accBallot, accLease, initTs, acceptorVars>>
        BY <1>5 DEF vars, proposerVars, acceptorVars, leaseVars
    <2>2. NetworkStep /\ MailStep /\ LeaseTaken
        BY <2>1, MailNone DEF NetworkStep, LeaseTaken
    <2>3. AcceptorStep
        BY <1>2, <2>1, Domains DEF AcceptorStep, TypeRest
    <2>4. ProposerStep /\ BeliefStep
        BY <1>2, <2>1, ProposerSame, BeliefSame
    <2>5. Effects
        BY <1>2, <1>3, <1>4, <2>1, <2>2, <2>3, <2>4, StepNews DEF Effects, MailStep
    <2>. QED
        BY <1>1, <2>5, EffectsLife
<1>6. CASE Next /\ \A p \in Nodes : ~Restart(p)
    <2>1. /\ NetworkStep /\ MailStep /\ LeaseTaken /\ AcceptorStep /\ ProposerStep
          /\ BeliefStep /\ initTs' = initTs
        BY <1>2, <1>6, StepNetwork, StepMail, StepLeaseTaken, StepAcceptor, StepProposer,
           StepBelief, StepStarted DEF Next
    <2>2. Effects
        BY <1>2, <1>3, <1>4, <2>1, StepNews DEF Effects, MailStep
    <2>. QED
        BY <1>1, <2>2, EffectsLife
<1>7. CASE \E p \in Nodes : Restart(p)
    <2>1. PICK r \in Nodes : Restart(r)
        BY <1>7
    <2>2. Restarted(r)
        BY <1>2, <2>1, RestartEffects
    <2>. QED
        BY <1>1, <1>3, <1>4, <2>2, RestartWords, RestartProposers, RestartLeases
        DEF LifeInv
<1>. QED
    BY <1>5, <1>6, <1>7

\* At the start nothing has been sent.
LEMMA InitLife == Init => LifeInv
<1>. SUFFICES ASSUME Init PROVE LifeInv
    OBVIOUS
<1>1. TypeOK
    BY InitType
<1>2. /\ msgs = {} /\ Prepares = {} /\ Votes = {} /\ Proposals = {} /\ Grants = {}
      /\ HandOvers = {} /\ Words = {}
    BY DEF Init, Prepares, Votes, Proposals, Grants, HandOvers, Words
<1>3. /\ Lives /\ WordKept /\ VotesApart /\ VoteAsked /\ GrantAsked /\ CampaignShort
      /\ HandedOver /\ LeaseKept /\ LeaseTold /\ LowerLapsed /\ RivalsMute /\ WinnersApart
    BY <1>2 DEF Lives, WordKept, VotesApart, VoteAsked, GrantAsked, CampaignShort,
                HandedOver, LeaseKept, LeaseTold, LowerLapsed, RivalsMute, WinnersApart
<1>4. WindowAsked /\ SourceKnown /\ Tallied /\ LeaseHeld
    BY DEF Init, WindowAsked, SourceKnown, Tallied, LeaseHeld
<1>5. OwnBallots
    BY <1>2 DEF Init, OwnBallots
<1>. QED
    BY <1>1, <1>3, <1>4, <1>5 DEF LifeInv

\* Who is a leader has recently proposed in the ballot that backs its lease.
LEMMA LeaderProposed ==
    ASSUME LifeInv, LifeTyped, Periods, NEW p \in Nodes, CheckLeader(p)
    PROVE  \E b0 \in Ballot :
            /\ Keeps(p, b0, lease[p] - LeaseInterval)
            /\ IsMajority(Backers(p, b0, lease[p]))
            /\ \E m \in Proposals : /\ m.from = p /\ m.ballot = b0
                                    /\ now < m.start + LeaseInterval /\ m.start <= now
<1>1. now \in Nat /\ lease[p] \in Int
    BY DEF LifeTyped
<1>2. lease[p] # INVALID
    BY <1>1 DEF CheckLeader
<1>3. PICK b0 \in Ballot : /\ Keeps(p, b0, lease[p] - LeaseInterval)
                           /\ IsMajority(Backers(p, b0, lease[p]))
    BY <1>2 DEF LifeInv, LeaseHeld
<1>4. Backers(p, b0, lease[p]) \in SUBSET Nodes
    BY DEF Backers
<1>5. PICK q \in Nodes : q \in Backers(p, b0, lease[p])
    BY <1>3, <1>4, MajorityNotEmpty
<1>6. PICK g \in Grants : g.to = p /\ g.ballot = b0 /\ lease[p] <= g.start + LeaseInterval
    BY <1>5 DEF Backers
<1>7. PICK m \in Proposals : m.from = p /\ m.ballot = b0 /\ m.start = g.start
    BY <1>6 DEF LifeInv, GrantAsked
<1>8. m.start \in Nat /\ m.start <= now
    BY DEF LifeTyped, LifeInv, Lives
<1>9. now < m.start + LeaseInterval
    BY <1>1, <1>6, <1>7, <1>8 DEF CheckLeader, Periods
<1>. QED
    BY <1>3, <1>7, <1>8, <1>9

\* A valid lease excludes valid leases of lower ballots.
LEMMA LowerLeaseIsPast ==
    ASSUME LifeInv, LifeTyped, Periods, NEW p \in Nodes, CheckLeader(p),
           NEW b0 \in Ballot, Keeps(p, b0, lease[p] - LeaseInterval),
           IsMajority(Backers(p, b0, lease[p])),
           NEW n \in Proposals, n.from # p, b0 < n.ballot,
           now < n.start + LeaseInterval, n.start <= now
    PROVE  FALSE
<1>1. PICK t \in Int : t = lease[p] - LeaseInterval
    BY DEF LifeTyped, Periods
<1>2. now \in Nat /\ now <= MaxTime /\ lease[p] \in Int /\ n.start \in Nat
    BY DEF LifeTyped
<1>3. lease[p] <= now + LeaseInterval
    BY LeaseNear DEF LifeInv
<1>4. t \in Moment
    BY <1>1, <1>2, <1>3 DEF Moment, Periods, CheckLeader
<1>5. n.start < t + LeaseInterval /\ t < n.start + LeaseInterval
    BY <1>1, <1>2, <1>3 DEF Periods, CheckLeader
<1>6. IsMajority(Lapsed(p, b0, t))
    BY <1>1, <1>4, <1>5 DEF LifeInv, LowerLapsed
<1>7. Lapsed(p, b0, t) \in SUBSET Nodes /\ Backers(p, b0, lease[p]) \in SUBSET Nodes
    BY DEF Lapsed, Backers
<1>8. PICK q \in Nodes : q \in Lapsed(p, b0, t) /\ q \in Backers(p, b0, lease[p])
    BY <1>6, <1>7, MajoritiesMeet
<1>9. PICK g \in Grants : /\ g.from = q /\ g.to = p /\ g.ballot = b0
                          /\ lease[p] <= g.start + LeaseInterval
    BY <1>8 DEF Backers
<1>10. g.start < t \/ t + LeaseInterval <= g.sent
    BY <1>8, <1>9 DEF Lapsed
<1>11. g.start \in Nat /\ g.sent \in Nat /\ g.sent <= now
    BY DEF LifeTyped, LifeInv, Lives
<1>. QED
    BY <1>1, <1>2, <1>9, <1>10, <1>11 DEF Periods, CheckLeader

\* The invariant excludes two leaders.
LEMMA LifeOneLeader == Patient /\ LifeInv => OneLeader
<1>. SUFFICES ASSUME Patient, LifeInv, NEW p \in Nodes, NEW q \in Nodes,
                     CheckLeader(p), CheckLeader(q), p # q
              PROVE  FALSE
    BY DEF OneLeader
<1>1. LifeTyped /\ Periods
    BY TypeSplit, LifeNumbers, PeriodsHold DEF LifeInv
<1>2. PICK b0 \in Ballot :
        /\ Keeps(p, b0, lease[p] - LeaseInterval) /\ IsMajority(Backers(p, b0, lease[p]))
        /\ \E m \in Proposals : /\ m.from = p /\ m.ballot = b0
                                /\ now < m.start + LeaseInterval /\ m.start <= now
    BY <1>1, LeaderProposed
<1>3. PICK b1 \in Ballot :
        /\ Keeps(q, b1, lease[q] - LeaseInterval) /\ IsMajority(Backers(q, b1, lease[q]))
        /\ \E n \in Proposals : /\ n.from = q /\ n.ballot = b1
                                /\ now < n.start + LeaseInterval /\ n.start <= now
    BY <1>1, LeaderProposed
<1>4. PICK m \in Proposals : /\ m.from = p /\ m.ballot = b0
                             /\ now < m.start + LeaseInterval /\ m.start <= now
    BY <1>2
<1>5. PICK n \in Proposals : /\ n.from = q /\ n.ballot = b1
                             /\ now < n.start + LeaseInterval /\ n.start <= now
    BY <1>3
<1>6. b0 \in Int /\ b1 \in Int /\ m.start \in Nat /\ n.start \in Nat /\ now \in Nat
    BY <1>1, Domains DEF LifeTyped
<1>7. CASE b0 = b1
    <2>1. /\ m.start <= n.start => m.start + LeaseInterval <= n.start
          /\ n.start <= m.start => n.start + LeaseInterval <= m.start
        BY <1>4, <1>5, <1>7 DEF LifeInv, WinnersApart
    <2>. QED
        BY <1>1, <1>4, <1>5, <1>6, <2>1 DEF Periods
<1>8. CASE b0 < b1
    BY <1>1, <1>2, <1>5, <1>8, LowerLeaseIsPast
<1>9. CASE b1 < b0
    BY <1>1, <1>3, <1>4, <1>9, LowerLeaseIsPast
<1>. QED
    BY <1>6, <1>7, <1>8, <1>9

\* The invariant holds through any restarts that are slow.
THEOREM ElectionLifeInvariant ==
    ASSUME Patient
    PROVE  Spec => []LifeInv
BY InitLife, NextLife, PTL DEF Spec

\* At most one leader, whatever restarts: if a restart takes longer than a
\* campaign, the silence of MAX_LEASE_TIME makes up for what is not on disk.
THEOREM ElectionOneLeaderRestarts ==
    ASSUME Patient
    PROVE  Spec => []OneLeader
BY ElectionLifeInvariant, LifeOneLeader, PTL
=============================================================================
