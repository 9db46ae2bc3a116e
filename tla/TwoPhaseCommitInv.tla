------------------------- MODULE TwoPhaseCommitInv --------------------------
(***************************************************************************)
(* The inductive invariants of the two-phase committer.                    *)
(*                                                                         *)
(* LocalInv speaks of one context at a time and holds for every tree.      *)
(* GlobalInv relates the participants of a flat transaction: the first     *)
(* evidence of a commit means that everybody is locked into the prepared   *)
(* state, and the first evidence of an abort means that somebody is doomed *)
(* who never said it was prepared.  Both cannot be.  TreeInv relates the   *)
(* participants of a tree of any depth, where the pre-commit response of a *)
(* participant stands for everybody below it.                              *)
(***************************************************************************)
EXTENDS TwoPhaseCommit

-----------------------------------------------------------------------------
(* One context *)

\* How the context's life, its durable state and its outcome go together.
LifeOK(p) ==
    /\ outcome[p] = "none" =>
        alive[p] /\ downstream[p] \in {INIT, REDO_COMPLETE, PREPARE, PRE_COMMIT}
    /\ outcome[p] = "commit" => downstream[p] \in {COMMIT, CLEAR}
    /\ outcome[p] = "abort" => downstream[p] \in {ABORT, CLEAR}
    /\ alive[p] => downstream[p] # CLEAR
    /\ ~alive[p] => logging[p] = NONE

\* How far the in-memory state of a live context is ahead of the durable one.
PhaseOK(p) ==
    alive[p] =>
        /\ downstream[p] \in {INIT, REDO_COMPLETE} =>
                upstream[p] \in {INIT, REDO_COMPLETE, PREPARE, ABORT}
        /\ downstream[p] = PREPARE => upstream[p] \in {PREPARE, COMMIT, ABORT}
        /\ downstream[p] = PRE_COMMIT => upstream[p] \in {PRE_COMMIT, COMMIT}
        /\ downstream[p] = COMMIT => upstream[p] \in {COMMIT, CLEAR}
        /\ downstream[p] = ABORT => upstream[p] \in {ABORT, CLEAR}

\* The log in flight leads from the durable state to the in-memory one.
LogOK(p) ==
    /\ logging[p] = PREPARE =>
            downstream[p] \in {INIT, REDO_COMPLETE} /\ upstream[p] = PREPARE
    /\ logging[p] = COMMIT =>
            downstream[p] \in {PREPARE, PRE_COMMIT} /\ upstream[p] = COMMIT
    /\ logging[p] = ABORT =>
            downstream[p] \in {INIT, REDO_COMPLETE, PREPARE} /\ upstream[p] = ABORT
    /\ logging[p] = CLEAR =>
            downstream[p] \in {COMMIT, ABORT} /\ upstream[p] = CLEAR

\* A context marked for abort has prepared nothing.
ForceOK(p) ==
    alive[p] /\ forceAbort[p] =>
        downstream[p] = INIT /\ upstream[p] \in {INIT, ABORT}

\* Requests go down the tree and responses go up.
FollowTree(S) ==
    \A m \in S :
        IF m.kind = "REQ" THEN m.to # Root /\ m.from = Upstream[m.to]
        ELSE m.from # Root /\ m.to = Upstream[m.from]

\* The root waits for gts between two phases, with every response at hand.
GtsOK ==
    gtsWaiting => /\ alive[Root] /\ logging[Root] = NONE
                  /\ upstream[Root] = PREPARE /\ downstream[Root] = PREPARE
                  /\ collected[Root] = Downstream(Root)

CtxOK(p) == LifeOK(p) /\ PhaseOK(p) /\ LogOK(p) /\ ForceOK(p)

LocalInv ==
    /\ TypeOK
    /\ \A p \in Participants : CtxOK(p)
    /\ FollowTree(msgs)
    /\ GtsOK

-----------------------------------------------------------------------------
(* All participants of a flat transaction *)

AllCommitted == \A p \in Participants : outcome[p] = "commit"

\* p has prepared and has not aborted.
Locked(p) == downstream[p] \in {PREPARE, PRE_COMMIT} \/ outcome[p] = "commit"
AllLocked == \A p \in Participants : Locked(p)

\* p has never said it was prepared, and never will.
Doomed(p) ==
    /\ upstream[Root] = PREPARE => p \notin collected[Root]
    /\ \A m \in msgs : m.kind = "RESP" /\ m.phase = PREPARE => m.from # p
    /\ alive[p] => forceAbort[p]
    /\ ~alive[p] => outcome[p] = "abort"
CanAbort == \E p \in Participants : Doomed(p)

\* Evidence that the transaction commits, or aborts.
CommitSeen ==
    \/ \E p \in Participants :
        \/ downstream[p] \in {PRE_COMMIT, COMMIT}
        \/ upstream[p] \in {PRE_COMMIT, COMMIT}
        \/ outcome[p] = "commit"
    \/ \E m \in msgs : m.phase \in {PRE_COMMIT, COMMIT}
    \/ "committed" \in answers
AbortSeen ==
    \/ \E p \in Participants :
        \/ upstream[p] = ABORT
        \/ outcome[p] = "abort"
        \/ alive[p] /\ forceAbort[p]
    \/ "killed" \in answers

\* A prepare response, and its acknowledgement, tell the truth.
PreparedOK ==
    /\ \A m \in msgs :
        m.kind = "RESP" /\ m.phase = PREPARE => downstream[m.from] >= PREPARE
    /\ upstream[Root] = PREPARE =>
        \A q \in collected[Root] : downstream[q] >= PREPARE

\* So do the responses of the last phase and the requests to forget.
EndedOK ==
    /\ \A m \in msgs :
        /\ m.kind = "RESP" /\ m.phase \in {COMMIT, ABORT, CLEAR} =>
                outcome[m.from] # "none"
        /\ m.kind = "REQ" /\ m.phase = CLEAR => outcome[m.to] # "none"
    /\ upstream[Root] \in {COMMIT, ABORT} /\ ~forceAbort[Root] =>
        \A q \in collected[Root] : outcome[q] # "none"
    /\ upstream[Root] = CLEAR => \A q \in Participants : outcome[q] # "none"

\* Abort messages, and forgetting, come after an abort or after the end.
PresumedAbortOK ==
    \/ \E m \in msgs : m.phase \in {ABORT, CLEAR}
    \/ \E p \in Participants :
        upstream[p] = CLEAR \/ (~alive[p] /\ outcome[p] = "commit")
    => CanAbort \/ AllCommitted

GlobalInv ==
    /\ CommitSeen => AllLocked
    /\ AbortSeen => CanAbort
    /\ PreparedOK
    /\ EndedOK
    /\ PresumedAbortOK

\* The inductive invariant of a flat transaction, which implies that the
\* participants agree and that the scheduler is told the truth.
FlatInv == LocalInv /\ GlobalInv
-----------------------------------------------------------------------------
(* All participants of a tree *)

\* q is a or below a: every set that contains a, and with a participant all
\* its downstreams, contains q.
Under(a, q) ==
    \A S \in SUBSET Participants :
        a \in S /\ (\A c \in Participants \ {Root} : Upstream[c] \in S => c \in S)
            => q \in S

\* Everybody is below the root.
Tree == \A q \in Participants : Under(Root, q)

\* a's response of the pre-commit phase is under way or counted: everybody
\* under a is prepared.
Ready(a) ==
    \/ \E m \in msgs : m.kind = "RESP" /\ m.phase = PRE_COMMIT /\ m.from = a
    \/ /\ a # Root /\ upstream[Upstream[a]] = PRE_COMMIT
       /\ a \in collected[Upstream[a]]

\* So is its response of the last phase.
Over(a) ==
    \/ \E m \in msgs :
        m.kind = "RESP" /\ m.phase \in {COMMIT, ABORT, CLEAR} /\ m.from = a
    \/ /\ a # Root /\ upstream[Upstream[a]] = COMMIT
       /\ a \in collected[Upstream[a]]

\* p has given up, and nobody at or above p is ever ready.
Spoils(p) ==
    /\ \A a \in Participants : Under(a, p) => ~Ready(a)
    /\ alive[p] => forceAbort[p]
    /\ ~alive[p] => outcome[p] = "abort"
Spoilt == \E p \in Participants : Spoils(p)

\* Evidence of a commit that cannot be taken back.  PRE_COMMIT is none: the root
\* may be in it above a participant that has aborted.
Decided ==
    \/ \E p \in Participants :
        upstream[p] = COMMIT \/ downstream[p] = COMMIT \/ outcome[p] = "commit"
    \/ \E m \in msgs : m.phase = COMMIT

\* A pre-commit response tells the truth about everybody below.
ReadyOK ==
    \A a, q \in Participants : Ready(a) /\ Under(a, q) => downstream[q] >= PREPARE

\* So does a response of the last phase, unless the transaction aborts.
OverOK ==
    Spoilt \/ \A a, q \in Participants : Over(a) /\ Under(a, q) => outcome[q] = "commit"

\* Abort messages, and forgetting, come after an abort or after the end.
ForgottenOK ==
    \/ \E m \in msgs : m.phase \in {ABORT, CLEAR}
    \/ \E p \in Participants :
        upstream[p] = CLEAR \/ (~alive[p] /\ outcome[p] = "commit")
    => Spoilt \/ AllCommitted

\* The inductive invariant of any tree.
TreeInv ==
    /\ LocalInv
    /\ Decided => AllLocked
    /\ AbortSeen => Spoilt
    /\ ReadyOK
    /\ OverOK
    /\ ForgottenOK

-----------------------------------------------------------------------------
(* The versions of a flat transaction *)

\* p has written a prepare log, or is writing it, and has not aborted.
Promised(p) == Locked(p) \/ logging[p] = PREPARE

\* v is the largest of the versions in the prepare logs, and all are written:
\* the only version the transaction can commit at.
Agreed(v) ==
    /\ \A q \in Participants : downstream[q] >= PREPARE /\ logVersion[q] <= v
    /\ \E q \in Participants : logVersion[q] = v

\* The prepare version in memory is the one in the log, which the root may have
\* raised to the version in the log of another participant.
PromiseOK(p) ==
    Promised(p) =>
        /\ logVersion[p] <= prepareVersion[p]
        /\ p # Root => prepareVersion[p] = logVersion[p]
        /\ \E q \in Participants :
             /\ prepareVersion[p] = logVersion[q]
             /\ q = p \/ downstream[q] >= PREPARE

\* The root has heard the version of everybody it counts as prepared.
AckVersionOK ==
    upstream[Root] = PREPARE =>
        \A q \in collected[Root] : logVersion[q] <= prepareVersion[Root]

\* A commit version is the agreed one as soon as there is one.
CommitVersionOK(p) ==
    /\ commitVersion[p] = 0 \/ Agreed(commitVersion[p])
    /\ \/ downstream[p] \in {PRE_COMMIT, COMMIT}
       \/ upstream[p] \in {PRE_COMMIT, COMMIT}
       \/ outcome[p] = "commit"
       => Agreed(commitVersion[p])

\* A message carries the version in its sender's prepare log, or the agreed one.
MessageVersionOK(m) ==
    /\ m.kind = "RESP" /\ m.phase = PREPARE => m.version = logVersion[m.from]
    /\ m.phase \in {PRE_COMMIT, COMMIT} => Agreed(m.version)
    /\ m.phase = ABORT => m.version = 0

VersionInv ==
    /\ \A p \in Participants : PromiseOK(p) /\ CommitVersionOK(p)
    /\ AckVersionOK
    /\ \A m \in msgs : MessageVersionOK(m)
=============================================================================
