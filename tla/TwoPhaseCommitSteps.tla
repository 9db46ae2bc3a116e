------------------------- MODULE TwoPhaseCommitSteps -------------------------
(***************************************************************************)
(* What one step can do, in any tree of participants: to a context, to the *)
(* acknowledgements, to the network and to the answers.  These lemmas      *)
(* expand the actions.  The arguments of TwoPhaseCommitFlat and            *)
(* TwoPhaseCommitTree use nothing but StepFacts.                           *)
(***************************************************************************)
EXTENDS TwoPhaseCommitLocal

USE DEF INIT, REDO_COMPLETE, PREPARE, PRE_COMMIT, COMMIT, ABORT, CLEAR, NONE

\* Traces of a commit and of an abort at one participant.
CommitMark(q) ==
    \/ downstream[q] \in {PRE_COMMIT, COMMIT}
    \/ upstream[q] \in {PRE_COMMIT, COMMIT}
    \/ outcome[q] = "commit"
DecidedMark(q) ==
    upstream[q] = COMMIT \/ downstream[q] = COMMIT \/ outcome[q] = "commit"
AbortMark(q) ==
    \/ upstream[q] = ABORT
    \/ outcome[q] = "abort"
    \/ alive[q] /\ forceAbort[q]

\* Messages of a phase exist; q has said it is prepared, ready, or at its end.
HeardCommit == \E m \in msgs : m.phase \in {PRE_COMMIT, COMMIT}
HeardDecided == \E m \in msgs : m.phase = COMMIT
HeardAbort == \E m \in msgs : m.phase = ABORT
HeardClear == \E m \in msgs : m.phase = CLEAR
SaidPrepared(q) == \E m \in msgs : m.kind = "RESP" /\ m.phase = PREPARE /\ m.from = q
SaidReady(q) == \E m \in msgs : m.kind = "RESP" /\ m.phase = PRE_COMMIT /\ m.from = q
SaidEnded(q) ==
    \E m \in msgs :
        m.kind = "RESP" /\ m.phase \in {COMMIT, ABORT, CLEAR} /\ m.from = q

\* q, which has not prepared, gives the transaction up.
GivesUp(q) ==
    /\ alive[q] /\ downstream[q] = INIT
    /\ alive'[q] => forceAbort'[q]
    /\ ~alive'[q] => outcome'[q] = "abort"

\* The root leaves the prepare phase with the response of every downstream.
Decides ==
    /\ alive[Root] /\ upstream[Root] = PREPARE /\ downstream'[Root] = PRE_COMMIT
    /\ \A q \in Downstream(Root) : q \in collected[Root] \/ SaidPrepared(q)

\* The root leaves the pre-commit phase with the response of every downstream.
Resolves ==
    /\ alive[Root] /\ upstream[Root] = PRE_COMMIT
    /\ \A q \in Downstream(Root) : Ready(q)

\* The root leaves the last phase with the response of every downstream.
Finishes ==
    /\ upstream[Root] \in {COMMIT, ABORT} /\ ~forceAbort[Root]
    /\ outcome'[Root] # "none"
    /\ \A q \in Downstream(Root) : q \in collected[Root] \/ SaidEnded(q)

\* What one step can do to the context of q.
CtxStep(q) ==
    /\ alive'[q] => alive[q]
    /\ CommitMark(q)' =>
        CommitMark(q) \/ HeardCommit \/ (q = Root /\ Decides)
    /\ DecidedMark(q)' =>
        DecidedMark(q) \/ HeardDecided \/ (q = Root /\ Resolves)
    /\ AbortMark(q)' =>
        AbortMark(q) \/ (HeardAbort /\ outcome[q] = "none") \/ GivesUp(q)
    /\ alive[q] /\ forceAbort[q] =>
        (alive'[q] => forceAbort'[q]) /\ (~alive'[q] => outcome'[q] = "abort")
    /\ upstream'[q] = CLEAR =>
        \/ upstream[q] = CLEAR
        \/ q # Root /\ HeardClear
        \/ q = Root /\ Finishes
    /\ ~alive'[q] /\ outcome'[q] = "commit" =>
        (~alive[q] /\ outcome[q] = "commit") \/ upstream[q] = CLEAR
    /\ Locked(q) /\ ~Locked(q)' => upstream[q] = ABORT

LEMMA FrameStep ==
    ASSUME NEW q \in Participants, SameAt(q)
    PROVE  CtxStep(q)
BY DEF CtxStep, SameAt, CommitMark, DecidedMark, AbortMark, Locked

LEMMA QuietStep ==
    ASSUME UNCHANGED <<alive, upstream, downstream, logging, forceAbort, outcome>>
    PROVE  \A q \in Participants : CtxStep(q)
BY FrameStep DEF SameAt

LEMMA OneStep ==
    ASSUME NEW p \in Participants, CtxStep(p),
           \A q \in Participants \ {p} : SameAt(q)
    PROVE  \A q \in Participants : CtxStep(q)
BY FrameStep

\* Entering PREPARE, or giving up instead.
LEMMA EnterPrepareStep ==
    ASSUME LocalInv, NEW p \in Participants, NEW m, EnterPrepare(p, m), alive[p],
           downstream[p] \in {INIT, REDO_COMPLETE},
           UNCHANGED <<alive, downstream, outcome>>
    PROVE  \A q \in Participants : CtxStep(q)
<1>0. TypeOK /\ CtxOK(p)
    BY DEF LocalInv
<1>1. CASE ~(forceAbort[p] /\ upstream[p] # PREPARE)
    <2>1. PICK v : DriveSelf(p, PREPARE, downstream[p], v, {})
        BY <1>1 DEF EnterPrepare
    <2>2. UNCHANGED forceAbort
        BY <1>1 DEF EnterPrepare
    <2>3. CtxStep(p)
        BY <1>0, <2>1, <2>2, DriveSelfEffect
        DEF CtxStep, CommitMark, DecidedMark, AbortMark, Locked, CtxOK, LifeOK
    <2>4. \A q \in Participants \ {p} : SameAt(q)
        BY <1>0, <2>1, <2>2, DriveSelfEffect DEF SameAt
    <2>. QED
        BY <2>3, <2>4, OneStep
<1>2. CASE forceAbort[p] /\ upstream[p] # PREPARE
    <2>1. CompensateAbort(p)
        BY <1>2 DEF EnterPrepare
    <2>2. CtxStep(p)
        BY <1>0, <1>2, <2>1
        DEF CompensateAbort, CtxStep, CommitMark, DecidedMark, AbortMark, Locked, TypeOK
    <2>3. \A q \in Participants \ {p} : SameAt(q)
        BY <1>0, <2>1 DEF CompensateAbort, SameAt, TypeOK
    <2>. QED
        BY <2>2, <2>3, OneStep
<1>. QED
    BY <1>1, <1>2

LEMMA EnterPreCommitStep ==
    ASSUME LocalInv, NEW p \in Participants, NEW cv, NEW m,
           EnterPreCommit(p, cv, m), alive[p], outcome[p] = "none",
           HeardCommit \/ (p = Root /\ Decides),
           UNCHANGED <<alive, forceAbort, outcome>>
    PROVE  \A q \in Participants : CtxStep(q)
<1>0. TypeOK /\ CtxOK(p)
    BY DEF LocalInv
<1>1. /\ DriveSelf(p, PRE_COMMIT, PREPARE, 0, {})
      /\ downstream' = [downstream EXCEPT ![p] = PRE_COMMIT]
    BY DEF EnterPreCommit
<1>2. downstream'[p] = PRE_COMMIT
    BY <1>0, <1>1 DEF TypeOK
<1>3. CtxStep(p)
    BY <1>0, <1>1, <1>2, DriveSelfEffect
    DEF CtxStep, CommitMark, DecidedMark, AbortMark, Locked
<1>4. \A q \in Participants \ {p} : SameAt(q)
    BY <1>0, <1>1, DriveSelfEffect DEF SameAt, TypeOK
<1>. QED
    BY <1>3, <1>4, OneStep

\* A phase change that touches nothing else of the context.
LEMMA DriveSelfStep ==
    ASSUME LocalInv, NEW p \in Participants, NEW acks, NEW pv,
           NEW phase \in {COMMIT, ABORT, CLEAR}, NEW down,
           DriveSelf(p, phase, down, pv, acks), alive[p],
           phase = COMMIT => HeardDecided \/ (p = Root /\ Resolves),
           phase = ABORT => HeardAbort /\ outcome[p] = "none",
           phase = CLEAR => p # Root /\ HeardClear,
           UNCHANGED <<alive, downstream, forceAbort, outcome>>
    PROVE  \A q \in Participants : CtxStep(q)
<1>0. TypeOK /\ (phase = COMMIT => CommitMark(p) \/ HeardCommit)
    BY DEF LocalInv, HeardDecided, HeardCommit, Resolves, CommitMark
<1>1. CtxStep(p)
    BY <1>0, DriveSelfEffect DEF CtxStep, CommitMark, DecidedMark, AbortMark, Locked
<1>2. \A q \in Participants \ {p} : SameAt(q)
    BY <1>0, DriveSelfEffect DEF SameAt
<1>. QED
    BY <1>1, <1>2, OneStep

\* The end of the last phase.
LEMMA FinishPhaseStep ==
    ASSUME LocalInv, NEW p \in Participants, NEW phase, NEW acks, NEW m,
           NEW down \in {COMMIT, ABORT}, FinishPhase(p, phase, down, acks, m),
           alive[p], downstream'[p] = down, upstream[p] = down, ~forceAbort[p],
           outcome'[p] = (IF down = COMMIT THEN "commit" ELSE "abort"),
           \A q \in Participants \ {p} : /\ downstream'[q] = downstream[q]
                                       /\ outcome'[q] = outcome[q],
           p = Root => Finishes,
           UNCHANGED <<alive, forceAbort>>
    PROVE  \A q \in Participants : CtxStep(q)
<1>0. TypeOK /\ CtxOK(p)
    BY DEF LocalInv
<1>1. /\ (upstream'[p] = CLEAR /\ p = Root) \/ upstream'[p] = upstream[p]
      /\ \A q \in Participants \ {p} :
            upstream'[q] = upstream[q] /\ logging'[q] = logging[q]
    <2>1. CASE IsRoot(p)
        BY <1>0, <2>1, DriveSelfEffect DEF FinishPhase, IsRoot
    <2>2. CASE ~IsRoot(p)
        BY <1>0, <2>2 DEF FinishPhase, TypeOK
    <2>. QED
        BY <2>1, <2>2
<1>2. CtxStep(p)
    BY <1>1 DEF CtxStep, CommitMark, DecidedMark, AbortMark, Locked
<1>3. \A q \in Participants \ {p} : SameAt(q)
    BY <1>1 DEF SameAt
<1>. QED
    BY <1>2, <1>3, OneStep

LEMMA HandleReqStep ==
    ASSUME LocalInv, NEW m \in msgs, HandleReq(m)
    PROVE  \A q \in Participants : CtxStep(q)
<1> DEFINE p == m.to
<1>0. TypeOK /\ p \in Participants /\ CtxOK(p) /\ alive[p] /\ p # Root
    BY MessageFields DEF LocalInv, HandleReq, FollowTree
<1>1. /\ m.phase \in {PRE_COMMIT, COMMIT} => HeardCommit
      /\ m.phase = COMMIT => HeardDecided
      /\ m.phase = ABORT => HeardAbort
      /\ m.phase = CLEAR => HeardClear
    BY DEF HeardCommit, HeardDecided, HeardAbort, HeardClear
<1> HIDE DEF p
<1>2. CASE \E state : Ignore(m) \/ AnswerReq(m, state)
    BY <1>2, QuietStep DEF Ignore, AnswerReq, phaseVars, lifeVars
<1>3. CASE HandlePrepareReq(m)
    BY <1>0, <1>2, <1>3, EnterPrepareStep DEF HandlePrepareReq, p
<1>4. CASE m.phase = PRE_COMMIT /\ HandlePreCommitReq(m)
    <2>1. CASE UNCHANGED <<phaseVars, downstream, alive, forceAbort, outcome>>
        BY <2>1, QuietStep DEF phaseVars
    <2>2. CASE /\ \E cv : EnterPreCommit(p, cv, m)
               /\ downstream[p] = PREPARE
               /\ UNCHANGED <<alive, forceAbort, outcome>>
        <3>1. outcome[p] = "none"
            BY <1>0, <2>2 DEF CtxOK, LifeOK, TypeOK
        <3>. QED
            BY <1>0, <1>1, <1>4, <2>2, <3>1, EnterPreCommitStep
    <2>. QED
        BY <1>2, <1>4, <2>1, <2>2 DEF HandlePreCommitReq, p
<1>5. CASE m.phase = COMMIT /\ HandleCommitReq(m)
    BY <1>0, <1>1, <1>2, <1>5, DriveSelfStep DEF HandleCommitReq, lifeVars, p
<1>6. CASE m.phase = ABORT /\ HandleAbortReq(m)
    <2>1. downstream[p] \in {INIT, REDO_COMPLETE, PREPARE} => outcome[p] = "none"
        BY <1>0 DEF CtxOK, LifeOK, TypeOK
    <2>. QED
        BY <1>0, <1>1, <1>2, <1>6, <2>1, DriveSelfStep DEF HandleAbortReq, lifeVars, p
<1>7. CASE m.phase = CLEAR /\ HandleClearReq(m)
    BY <1>0, <1>1, <1>2, <1>7, DriveSelfStep DEF HandleClearReq, lifeVars, p
<1>. QED
    BY <1>3, <1>4, <1>5, <1>6, <1>7 DEF HandleReq

\* The acknowledgements that complete a phase.
LEMMA Completion ==
    ASSUME LocalInv, NEW p \in Participants, NEW m \in msgs, m.kind = "RESP", m.to = p
    PROVE  /\ m.from \in Downstream(p)
           /\ CompletesPhase(m) =>
                \A q \in Downstream(p) : q \in collected[p] \/ q = m.from
           /\ m.phase = PREPARE => SaidPrepared(m.from)
           /\ m.phase = PRE_COMMIT => SaidReady(m.from) /\ Ready(m.from)
           /\ m.phase \in {COMMIT, ABORT} => SaidEnded(m.from) /\ Over(m.from)
           /\ m.phase = ABORT => HeardAbort
BY MessageFields
DEF LocalInv, FollowTree, Downstream, CompletesPhase, SaidPrepared, SaidReady, SaidEnded,
    Ready, Over, HeardAbort

LEMMA CountedReady ==
    ASSUME NEW p \in Participants, NEW q \in Downstream(p), q \in collected[p]
    PROVE  /\ upstream[p] = PRE_COMMIT => Ready(q)
           /\ upstream[p] = COMMIT => Over(q)
BY DEF Downstream, Ready, Over

LEMMA HandleRespStep ==
    ASSUME LocalInv, NEW m \in msgs, HandleResp(m)
    PROVE  \A q \in Participants : CtxStep(q)
<1> DEFINE p == m.to
<1>0. TypeOK /\ p \in Participants /\ CtxOK(p) /\ alive[p] /\ m.kind = "RESP"
    BY MessageFields DEF LocalInv, HandleResp
<1>1. /\ CompletesPhase(m) => \A q \in Downstream(p) : q \in collected[p] \/ q = m.from
      /\ m.phase = PREPARE => SaidPrepared(m.from)
      /\ m.phase = PRE_COMMIT => Ready(m.from)
      /\ m.phase \in {COMMIT, ABORT} => SaidEnded(m.from)
      /\ m.phase = ABORT => HeardAbort
    BY <1>0, Completion
<1> HIDE DEF p
<1>2. CASE Ignore(m) \/ Remind(m)
    BY <1>2, QuietStep DEF Ignore, Remind, phaseVars, lifeVars
<1>3. CASE m.phase = PREPARE /\ upstream[p] = PREPARE /\ PrepareRespImpl(m)
    <2>1. CASE UNCHANGED <<upstream, logging, downstream, alive, forceAbort, outcome>>
        BY <2>1, QuietStep
    <2>2. CASE /\ \E cv : EnterPreCommit(p, cv, m)
               /\ IsRoot(p) /\ downstream[p] = PREPARE /\ CompletesPhase(m)
               /\ UNCHANGED <<alive, forceAbort, outcome>>
        <3>1. outcome[p] = "none"
            BY <1>0, <2>2 DEF CtxOK, LifeOK, TypeOK
        <3>2. downstream'[p] = PRE_COMMIT
            BY <1>0, <2>2 DEF EnterPreCommit, TypeOK
        <3>3. p = Root /\ Decides
            BY <1>0, <1>1, <1>3, <2>2, <3>2 DEF Decides, IsRoot
        <3>. QED
            BY <1>0, <1>3, <2>2, <3>1, <3>3, EnterPreCommitStep
    <2>. QED
        BY <1>0, <1>3, <2>1, <2>2 DEF PrepareRespImpl, CollectOnly, p
<1>4. CASE m.phase = PRE_COMMIT /\ upstream[p] = PRE_COMMIT /\ PreCommitRespImpl(m)
    <2>1. UNCHANGED <<alive, downstream, forceAbort, outcome>>
        BY <1>4 DEF PreCommitRespImpl, lifeVars
    <2>2. CASE UNCHANGED <<upstream, logging>>
        BY <2>1, <2>2, QuietStep
    <2>3. CASE DriveSelf(p, COMMIT, downstream[p], 0, {}) /\ IsRoot(p) /\ CompletesPhase(m)
        <3>1. p = Root /\ Resolves
            BY <1>0, <1>1, <1>4, <2>3, CountedReady DEF Resolves, IsRoot
        <3>. QED
            BY <1>0, <2>1, <2>3, <3>1, DriveSelfStep
    <2>. QED
        BY <1>0, <1>4, <2>2, <2>3 DEF PreCommitRespImpl, p
<1>5. CASE m.phase \in {COMMIT, ABORT} /\ upstream[p] \in {COMMIT, ABORT} /\ AckRespImpl(m)
    <2>1. UNCHANGED <<alive, downstream, forceAbort, outcome>>
        BY <1>5 DEF AckRespImpl, lifeVars
    <2>2. CASE CollectOnly(m)
        BY <2>1, <2>2, QuietStep DEF CollectOnly
    <2>3. CASE /\ downstream[p] \in {COMMIT, ABORT} /\ CompletesPhase(m)
               /\ FinishPhase(p, upstream[p], downstream[p], {m.from}, m)
        <3>1. /\ upstream[p] = downstream[p] /\ ~forceAbort[p]
              /\ outcome[p] = (IF downstream[p] = COMMIT THEN "commit" ELSE "abort")
            BY <1>0, <1>5, <2>3 DEF CtxOK, PhaseOK, LifeOK, ForceOK, TypeOK
        <3>2. p = Root => Finishes
            BY <1>0, <1>1, <1>5, <2>1, <2>3, <3>1 DEF Finishes
        <3>. QED
            BY <1>0, <2>1, <2>3, <3>1, <3>2, FinishPhaseStep
    <2>. QED
        BY <1>0, <1>5, <2>2, <2>3 DEF AckRespImpl, p
<1>6. CASE m.phase = ABORT /\ AbortRespImpl(m)
    <2>1. downstream[p] \in {INIT, REDO_COMPLETE, PREPARE} => outcome[p] = "none"
        BY <1>0 DEF CtxOK, LifeOK, TypeOK
    <2>. QED
        BY <1>0, <1>1, <1>2, <1>6, <2>1, DriveSelfStep DEF AbortRespImpl, lifeVars, p
<1>7. CASE m.phase = PREPARE /\ HandlePrepareResp(m)
    BY <1>0, <1>2, <1>3, <1>7 DEF HandlePrepareResp, p
<1>8. CASE m.phase = PRE_COMMIT /\ HandlePreCommitResp(m)
    BY <1>0, <1>2, <1>4, <1>8 DEF HandlePreCommitResp, p
<1>9. CASE m.phase = COMMIT /\ HandleCommitResp(m)
    BY <1>0, <1>2, <1>5, <1>9 DEF HandleCommitResp, p
<1>10. CASE m.phase = ABORT /\ HandleAbortResp(m)
    BY <1>0, <1>2, <1>5, <1>6, <1>10 DEF HandleAbortResp, p
<1>. QED
    BY <1>7, <1>8, <1>9, <1>10 DEF HandleResp

\* The log callbacks.
LEMMA LogSyncedStep ==
    ASSUME LocalInv, NEW p \in Participants, LogSynced(p)
    PROVE  \A q \in Participants : CtxStep(q)
<1>0. TypeOK /\ CtxOK(p) /\ alive[p]
    BY DEF LocalInv, LogSynced
<1>1. CASE ApplyPrepareLog(p)
    <2>1. /\ outcome[p] = "none" /\ upstream[p] = PREPARE
          /\ UNCHANGED <<alive, forceAbort, outcome>>
        BY <1>0, <1>1 DEF ApplyPrepareLog, CtxOK, LifeOK, TypeOK
    <2>2. CASE IsRoot(p) /\ AllCollected(p) /\ EnterPreCommit(p, prepareVersion[p], NoMsg)
        <3>1. downstream'[p] = PRE_COMMIT
            BY <1>0, <2>2 DEF EnterPreCommit, TypeOK
        <3>2. p = Root /\ Decides
            BY <1>0, <2>1, <2>2, <3>1 DEF Decides, AllCollected, IsRoot
        <3>. QED
            BY <1>0, <2>1, <2>2, <3>2, EnterPreCommitStep
    <2>3. CASE /\ downstream' = [downstream EXCEPT ![p] = PREPARE]
               /\ logging' = [logging EXCEPT ![p] = NONE]
               /\ UNCHANGED upstream
        <3>1. downstream'[p] = PREPARE
            BY <1>0, <2>3 DEF TypeOK
        <3>2. CtxStep(p)
            BY <2>1, <2>3, <3>1 DEF CtxStep, CommitMark, DecidedMark, AbortMark, Locked
        <3>3. \A q \in Participants \ {p} : SameAt(q)
            BY <1>0, <2>1, <2>3 DEF SameAt, TypeOK
        <3>. QED
            BY <3>2, <3>3, OneStep
    <2>. QED
        BY <1>1, <2>2, <2>3 DEF ApplyPrepareLog
<1>2. ASSUME NEW down \in {COMMIT, ABORT}, logging[p] = down, ~forceAbort[p],
             downstream' = [downstream EXCEPT ![p] = down],
             outcome' = [outcome EXCEPT ![p] =
                            IF down = COMMIT THEN "commit" ELSE "abort"],
             \/ AllCollected(p) /\ FinishPhase(p, down, down, {}, NoMsg)
             \/ /\ logging' = [logging EXCEPT ![p] = NONE]
                /\ UNCHANGED upstream,
             UNCHANGED <<alive, forceAbort>>
      PROVE  \A q \in Participants : CtxStep(q)
    <2>1. /\ downstream'[p] = down /\ upstream[p] = down
          /\ outcome'[p] = (IF down = COMMIT THEN "commit" ELSE "abort")
          /\ \A q \in Participants \ {p} : /\ downstream'[q] = downstream[q]
                                         /\ outcome'[q] = outcome[q]
        BY <1>0, <1>2 DEF TypeOK, CtxOK, LogOK
    <2>2. CASE AllCollected(p) /\ FinishPhase(p, down, down, {}, NoMsg)
        <3>1. p = Root => Finishes
            BY <1>0, <1>2, <2>1, <2>2 DEF Finishes, AllCollected
        <3>. QED
            BY <1>0, <1>2, <2>1, <2>2, <3>1, FinishPhaseStep
    <2>3. CASE logging' = [logging EXCEPT ![p] = NONE] /\ UNCHANGED upstream
        <3>1. CtxStep(p)
            BY <1>0, <1>2, <2>1, <2>3 DEF CtxStep, CommitMark, DecidedMark, AbortMark, Locked
        <3>2. \A q \in Participants \ {p} : SameAt(q)
            BY <1>0, <1>2, <2>1, <2>3 DEF SameAt, TypeOK
        <3>. QED
            BY <3>1, <3>2, OneStep
    <2>. QED
        BY <1>2, <2>2, <2>3
<1>3. CASE ApplyCommitLog(p)
    <2>1. ~forceAbort[p]
        BY <1>0, <1>3 DEF ApplyCommitLog, CtxOK, ForceOK
    <2>. QED
        BY <1>2, <1>3, <2>1 DEF ApplyCommitLog
<1>4. CASE ApplyAbortLog(p) /\ ~forceAbort[p]
    BY <1>2, <1>4 DEF ApplyAbortLog
<1>5. CASE ApplyAbortLog(p) /\ forceAbort[p]
    <2>1. ExitAborted(p) /\ UNCHANGED <<upstream, forceAbort>>
        BY <1>5 DEF ApplyAbortLog
    <2>2. ~alive'[p] /\ downstream'[p] = ABORT /\ outcome'[p] = "abort"
        BY <1>0, <2>1 DEF ExitAborted, TypeOK
    <2>3. upstream[p] = ABORT
        BY <1>0, <1>5 DEF ApplyAbortLog, CtxOK, LogOK
    <2>4. CtxStep(p)
        BY <2>1, <2>2, <2>3 DEF CtxStep, CommitMark, DecidedMark, AbortMark, Locked
    <2>5. \A q \in Participants \ {p} : SameAt(q)
        BY <1>0, <2>1 DEF ExitAborted, TypeOK, SameAt
    <2>. QED
        BY <2>4, <2>5, OneStep
<1>6. CASE ApplyClearLog(p)
    <2>1. ~alive'[p] /\ downstream'[p] = CLEAR /\ upstream[p] = CLEAR
        BY <1>0, <1>6 DEF ApplyClearLog, TypeOK
    <2>2. UNCHANGED <<upstream, forceAbort, outcome>> /\ downstream[p] \in {COMMIT, ABORT}
        BY <1>6 DEF ApplyClearLog
    <2>3. ~forceAbort[p]
        BY <1>0, <2>2 DEF CtxOK, ForceOK
    <2>4. CtxStep(p)
        BY <1>0, <2>1, <2>2, <2>3 DEF CtxStep, CommitMark, DecidedMark, AbortMark, Locked
    <2>5. \A q \in Participants \ {p} : SameAt(q)
        BY <1>0, <1>6 DEF ApplyClearLog, TypeOK, SameAt
    <2>. QED
        BY <2>4, <2>5, OneStep
<1>. QED
    BY <1>1, <1>3, <1>4, <1>5, <1>6 DEF LogSynced

\* An exit without having prepared.
LEMMA ExitAbortedStep ==
    ASSUME LocalInv, NEW p \in Participants, ExitAborted(p), alive[p],
           downstream[p] = INIT, UNCHANGED upstream,
           \A q \in Participants \ {p} : forceAbort'[q] = forceAbort[q]
    PROVE  \A q \in Participants : CtxStep(q)
<1>0. TypeOK /\ CtxOK(p)
    BY DEF LocalInv
<1>1. ~alive'[p] /\ downstream'[p] = ABORT /\ outcome'[p] = "abort"
    BY <1>0 DEF ExitAborted, TypeOK
<1>2. GivesUp(p) /\ ~Locked(p)
    BY <1>0, <1>1 DEF GivesUp, Locked, CtxOK, LifeOK
<1>3. CtxStep(p)
    BY <1>1, <1>2 DEF CtxStep, CommitMark, DecidedMark, AbortMark, Locked
<1>4. \A q \in Participants \ {p} : SameAt(q)
    BY <1>0 DEF ExitAborted, TypeOK, SameAt
<1>. QED
    BY <1>3, <1>4, OneStep

LEMMA LocalStep ==
    ASSUME LocalInv, NEW p \in Participants,
           CommitInfoSynced(p) \/ LogFailed(p) \/ LocalAbort(p)
    PROVE  \A q \in Participants : CtxStep(q)
<1>0. TypeOK /\ CtxOK(p) /\ alive[p]
    BY DEF LocalInv, CommitInfoSynced, LogFailed, LocalAbort
<1>1. CASE CommitInfoSynced(p)
    <2>1. /\ downstream'[p] = REDO_COMPLETE /\ downstream[p] = INIT
          /\ UNCHANGED <<alive, upstream, logging, forceAbort, outcome>>
        BY <1>0, <1>1 DEF CommitInfoSynced, TypeOK, phaseVars
    <2>2. CtxStep(p)
        BY <2>1 DEF CtxStep, CommitMark, DecidedMark, AbortMark, Locked
    <2>3. \A q \in Participants \ {p} : SameAt(q)
        BY <1>0, <1>1, <2>1 DEF CommitInfoSynced, SameAt, TypeOK
    <2>. QED
        BY <2>2, <2>3, OneStep
<1>2. CASE LogFailed(p)
    <2>1. CASE downstream[p] = INIT /\ ExitAborted(p)
        BY <1>0, <1>2, <2>1, ExitAbortedStep DEF LogFailed
    <2>2. CASE /\ logging' = [logging EXCEPT ![p] = NONE]
               /\ UNCHANGED <<alive, upstream, downstream, forceAbort, outcome>>
        BY <2>2 DEF CtxStep, CommitMark, DecidedMark, AbortMark, Locked
    <2>. QED
        BY <1>2, <2>1, <2>2 DEF LogFailed
<1>3. CASE LocalAbort(p)
    <2>1. CASE ExitAborted(p) /\ UNCHANGED upstream
               /\ forceAbort' = [forceAbort EXCEPT ![p] = TRUE]
        BY <1>0, <1>3, <2>1, ExitAbortedStep DEF LocalAbort, TypeOK
    <2>2. CASE CompensateAbort(p) /\ UNCHANGED <<alive, downstream, outcome>>
        <3>1. downstream[p] = INIT /\ forceAbort'[p] /\ upstream'[p] = ABORT
            BY <1>0, <1>3, <2>2 DEF LocalAbort, CompensateAbort, TypeOK
        <3>2. GivesUp(p)
            BY <1>0, <2>2, <3>1 DEF GivesUp
        <3>3. CtxStep(p)
            BY <1>0, <2>2, <3>1, <3>2 DEF CtxStep, CommitMark, DecidedMark, AbortMark, Locked
        <3>4. \A q \in Participants \ {p} : SameAt(q)
            BY <1>0, <2>2 DEF CompensateAbort, TypeOK, SameAt
        <3>. QED
            BY <3>3, <3>4, OneStep
    <2>. QED
        BY <1>3, <2>1, <2>2 DEF LocalAbort
<1>. QED
    BY <1>1, <1>2, <1>3

LEMMA DriverStep ==
    ASSUME LocalInv,
           \/ CommitRequest \/ CommitRequestOnTxTable \/ GtsElapsed
           \/ \E p \in Participants : Timeout(p)
    PROVE  \A q \in Participants : CtxStep(q)
<1>0. TypeOK /\ Root \in Participants /\ CtxOK(Root)
    BY TreeAssumption DEF LocalInv
<1>1. CASE CommitRequest
    <2>1. CASE UNCHANGED <<phaseVars, forceAbort>>
        BY <1>1, <2>1, QuietStep DEF CommitRequest, phaseVars
    <2>2. CASE EnterPrepare(Root, NoMsg) /\ downstream[Root] \in {INIT, REDO_COMPLETE}
        BY <1>0, <1>1, <2>2, EnterPrepareStep DEF CommitRequest
    <2>. QED
        BY <1>1, <2>1, <2>2 DEF CommitRequest
<1>2. CASE CommitRequestOnTxTable
    BY <1>2, QuietStep DEF CommitRequestOnTxTable, phaseVars, lifeVars
<1>3. CASE GtsElapsed
    <2>1. /\ alive[Root] /\ downstream[Root] = PREPARE /\ upstream[Root] = PREPARE
          /\ collected[Root] = Downstream(Root)
        BY <1>3 DEF GtsElapsed, LocalInv, GtsOK
    <2>2. outcome[Root] = "none"
        BY <1>0, <2>1 DEF CtxOK, LifeOK, TypeOK
    <2>3. downstream'[Root] = PRE_COMMIT
        BY <1>0, <1>3 DEF GtsElapsed, EnterPreCommit, TypeOK
    <2>4. Decides
        BY <1>0, <2>1, <2>3 DEF Decides
    <2>. QED
        BY <1>0, <1>3, <2>1, <2>2, <2>4, EnterPreCommitStep DEF GtsElapsed
<1>4. ASSUME NEW p \in Participants, Timeout(p)
      PROVE  \A q \in Participants : CtxStep(q)
    <2>0. CtxOK(p) /\ alive[p] /\ UNCHANGED <<alive, downstream, outcome>>
        BY <1>4 DEF LocalInv, Timeout
    <2>1. CASE EnterPrepare(p, NoMsg) /\ downstream[p] = REDO_COMPLETE
        BY <2>0, <2>1, EnterPrepareStep
    <2>2. CASE UNCHANGED <<upstream, forceAbort>>
        BY <2>0, <2>2 DEF CtxStep, CommitMark, DecidedMark, AbortMark, Locked
    <2>. QED
        BY <1>4, <2>1, <2>2 DEF Timeout
<1>. QED
    BY <1>1, <1>2, <1>3, <1>4

LEMMA FailoverStep ==
    ASSUME LocalInv, NEW p \in Participants, Failover(p)
    PROVE  \A q \in Participants : CtxStep(q)
<1>0. TypeOK /\ CtxOK(p) /\ alive[p]
    BY DEF LocalInv, Failover
<1>1. CASE downstream[p] = INIT /\ ExitAborted(p) /\ UNCHANGED <<upstream, forceAbort>>
    BY <1>0, <1>1, ExitAbortedStep
<1>2. ASSUME NEW d \in RecoveredStates(p), RecoverFrom(p, d),
             \/ d # INIT /\ forceAbort' = [forceAbort EXCEPT ![p] = FALSE]
             \/ d = INIT /\ upstream[p] = INIT /\ UNCHANGED forceAbort
             \/ d = INIT /\ forceAbort' = [forceAbort EXCEPT ![p] = TRUE],
             logging' = [logging EXCEPT ![p] = NONE]
      PROVE  \A q \in Participants : CtxStep(q)
    <2>1. /\ downstream'[p] = d /\ upstream'[p] = d
          /\ d \in {ABORT, CLEAR} <=> ~alive'[p]
          /\ outcome'[p] = IF d = COMMIT THEN "commit"
                           ELSE IF d = ABORT THEN "abort" ELSE outcome[p]
        BY <1>0, <1>2 DEF RecoverFrom, TypeOK
    <2>2. d # INIT => ~forceAbort'[p]
        BY <1>0, <1>2 DEF TypeOK
    <2>3. d = INIT /\ ~(forceAbort'[p] <=> forceAbort[p]) => forceAbort'[p]
        BY <1>0, <1>2 DEF TypeOK
    <2>4. \A q \in Participants \ {p} : SameAt(q)
        BY <1>0, <1>2 DEF RecoverFrom, TypeOK, SameAt
    <2>5. CASE d \in {INIT, REDO_COMPLETE}
        <3>1. /\ downstream[p] = d /\ outcome[p] = "none" /\ alive'[p]
              /\ outcome'[p] = "none"
            BY <1>0, <2>1, <2>5 DEF RecoveredStates, TypeOK, StateLog, CtxOK, LifeOK
        <3>2. forceAbort[p] => d = INIT /\ forceAbort'[p]
            BY <1>0, <2>3, <2>5, <3>1 DEF CtxOK, ForceOK
        <3>3. forceAbort'[p] => GivesUp(p)
            BY <1>0, <2>2, <2>5, <3>1 DEF GivesUp
        <3>4. CtxStep(p)
            BY <1>0, <2>1, <2>5, <3>1, <3>2, <3>3
            DEF CtxStep, CommitMark, DecidedMark, AbortMark, Locked
        <3>. QED
            BY <2>4, <3>4, OneStep
    <2>6. CASE d \in {PREPARE, PRE_COMMIT, COMMIT}
        <3>1. /\ alive'[p] /\ ~forceAbort'[p]
              /\ outcome'[p] = IF d = COMMIT THEN "commit" ELSE outcome[p]
            BY <2>1, <2>2, <2>6
        <3>2. /\ ~forceAbort[p] /\ outcome[p] # "abort"
              /\ d \in {PRE_COMMIT, COMMIT} => CommitMark(p)
              /\ d = COMMIT => DecidedMark(p)
              /\ d = PREPARE => outcome[p] = "none"
              /\ d = PRE_COMMIT => outcome[p] = "none"
            BY <1>0, <2>6
            DEF RecoveredStates, TypeOK, StateLog, TxState, CtxOK, LifeOK, LogOK, PhaseOK,
                ForceOK, CommitMark, DecidedMark
        <3>3. CtxStep(p)
            BY <1>0, <2>1, <2>6, <3>1, <3>2 DEF CtxStep, CommitMark, DecidedMark, AbortMark, Locked
        <3>. QED
            BY <2>4, <3>3, OneStep
    <2>7. CASE d = ABORT
        <3>1. /\ upstream[p] = ABORT \/ outcome[p] = "abort"
              /\ Locked(p) => upstream[p] = ABORT
              /\ ~alive'[p] /\ outcome'[p] = "abort" /\ outcome[p] # "commit"
            BY <1>0, <2>1, <2>7
            DEF RecoveredStates, TypeOK, StateLog, TxState, CtxOK, LifeOK, LogOK, Locked
        <3>2. CtxStep(p)
            BY <1>0, <2>1, <2>7, <3>1 DEF CtxStep, CommitMark, DecidedMark, AbortMark
        <3>. QED
            BY <2>4, <3>2, OneStep
    <2>8. CASE d = CLEAR
        <3>1. /\ upstream[p] = CLEAR /\ downstream[p] \in {COMMIT, ABORT} /\ ~forceAbort[p]
              /\ outcome'[p] = outcome[p] /\ ~alive'[p]
            BY <1>0, <2>1, <2>8
            DEF RecoveredStates, TypeOK, StateLog, TxState, CtxOK, LifeOK, LogOK, ForceOK
        <3>2. CtxStep(p)
            BY <1>0, <2>1, <2>8, <3>1 DEF CtxStep, CommitMark, DecidedMark, AbortMark, Locked
        <3>. QED
            BY <2>4, <3>2, OneStep
    <2>9. d \in TxState
        BY <1>0 DEF RecoveredStates, TypeOK, StateLog, TxState
    <2>. QED
        BY <2>5, <2>6, <2>7, <2>8, <2>9 DEF TxState
<1>. QED
    BY <1>1, <1>2 DEF Failover

\* What a step can do to the contexts.
LEMMA NextStep ==
    ASSUME LocalInv, Next
    PROVE  \A q \in Participants : CtxStep(q) /\ Final(q)
<1>1. ASSUME NEW m \in msgs, Receive(m) \/ Lose(m)
      PROVE  \A q \in Participants : CtxStep(q)
    BY <1>1, HandleReqStep, HandleRespStep, QuietStep
    DEF Receive, HandleOrphan, Lose, phaseVars, lifeVars
<1>. QED
    BY <1>1, LogSyncedStep, LocalStep, DriverStep, FailoverStep, NextFinal DEF Next

-----------------------------------------------------------------------------
(* The acknowledgements *)

\* What p has counted in its phase was said in that phase.
AckStep(p) ==
    /\ upstream'[p] = PREPARE =>
        \A q \in collected'[p] :
            (upstream[p] = PREPARE /\ q \in collected[p]) \/ SaidPrepared(q)
    /\ upstream'[p] = PRE_COMMIT =>
        \A q \in collected'[p] :
            (upstream[p] = PRE_COMMIT /\ q \in collected[p]) \/ SaidReady(q)
    /\ upstream'[p] = COMMIT =>
        \A q \in collected'[p] :
            (upstream[p] = COMMIT /\ q \in collected[p]) \/ SaidEnded(q)
    /\ upstream'[p] \in {COMMIT, ABORT} /\ ~forceAbort'[p] =>
        \A q \in collected'[p] :
            \/ /\ upstream[p] \in {COMMIT, ABORT} /\ ~forceAbort[p]
               /\ q \in collected[p]
            \/ SaidEnded(q)

AllAckStep == \A p \in Participants : AckStep(p)

LEMMA FrameAck ==
    ASSUME NEW p, upstream'[p] = upstream[p], collected'[p] = collected[p],
           forceAbort'[p] = forceAbort[p]
    PROVE  AckStep(p)
BY DEF AckStep

LEMMA QuietAck ==
    ASSUME UNCHANGED <<upstream, collected, forceAbort>>
    PROVE  AllAckStep
BY FrameAck DEF AllAckStep

LEMMA OneAck ==
    ASSUME NEW p \in Participants, AckStep(p),
           \A q \in Participants \ {p} :
                /\ upstream'[q] = upstream[q] /\ collected'[q] = collected[q]
                /\ forceAbort'[q] = forceAbort[q]
    PROVE  AllAckStep
BY FrameAck DEF AllAckStep

\* A phase change forgets the acknowledgements of another phase.
LEMMA DriveSelfAck ==
    ASSUME TypeOK, NEW p \in Participants, NEW phase, NEW down, NEW pv,
           DriveSelf(p, phase, down, pv, {}), UNCHANGED forceAbort
    PROVE  AllAckStep
<1>1. /\ upstream'[p] = phase
      /\ upstream[p] = phase => collected'[p] = collected[p]
      /\ upstream[p] # phase => collected'[p] = {}
      /\ \A q \in Participants \ {p} :
            upstream'[q] = upstream[q] /\ collected'[q] = collected[q]
    BY DEF DriveSelf, TypeOK
<1>2. AckStep(p)
    <2>1. CASE upstream[p] = phase
        BY <1>1, <2>1 DEF AckStep
    <2>2. CASE upstream[p] # phase
        BY <1>1, <2>2 DEF AckStep
    <2>. QED
        BY <2>1, <2>2
<1>. QED
    BY <1>1, <1>2, OneAck

LEMMA EnterPrepareAck ==
    ASSUME TypeOK, NEW p \in Participants, NEW m, EnterPrepare(p, m)
    PROVE  AllAckStep
<1>1. CASE ~(forceAbort[p] /\ upstream[p] # PREPARE)
    BY <1>1, DriveSelfAck DEF EnterPrepare
<1>2. CASE forceAbort[p] /\ upstream[p] # PREPARE
    <2>1. /\ upstream'[p] = ABORT /\ forceAbort'[p]
          /\ \A q \in Participants \ {p} :
                /\ upstream'[q] = upstream[q] /\ collected'[q] = collected[q]
                /\ forceAbort'[q] = forceAbort[q]
        BY <1>2 DEF EnterPrepare, CompensateAbort, TypeOK
    <2>2. AckStep(p)
        BY <2>1 DEF AckStep
    <2>. QED
        BY <2>1, <2>2, OneAck
<1>. QED
    BY <1>1, <1>2

LEMMA EnterPreCommitAck ==
    ASSUME TypeOK, NEW p \in Participants, NEW cv, NEW m, EnterPreCommit(p, cv, m),
           UNCHANGED forceAbort
    PROVE  AllAckStep
BY DriveSelfAck DEF EnterPreCommit

\* A response is counted in the phase it belongs to.
LEMMA CollectAck ==
    ASSUME TypeOK, NEW p \in Participants, NEW q,
           collected' = [collected EXCEPT ![p] = @ \cup {q}],
           UNCHANGED <<upstream, forceAbort>>,
           upstream[p] = PREPARE => SaidPrepared(q),
           upstream[p] = PRE_COMMIT => SaidReady(q),
           upstream[p] \in {COMMIT, ABORT} => SaidEnded(q)
    PROVE  AllAckStep
<1>1. /\ \A x \in collected'[p] : x \in collected[p] \/ x = q
      /\ \A x \in Participants \ {p} : collected'[x] = collected[x]
    BY DEF TypeOK
<1>2. AckStep(p)
    BY <1>1 DEF AckStep
<1>. QED
    BY <1>1, <1>2, OneAck

LEMMA FinishPhaseAck ==
    ASSUME TypeOK, NEW p \in Participants, NEW phase, NEW down, NEW acks, NEW m, NEW q,
           FinishPhase(p, phase, down, acks, m), UNCHANGED forceAbort,
           acks = {} \/ (acks = {q} /\ upstream[p] \in {COMMIT, ABORT} /\ SaidEnded(q))
    PROVE  AllAckStep
<1>1. CASE IsRoot(p)
    BY <1>1, DriveSelfAck DEF FinishPhase
<1>2. CASE ~IsRoot(p) /\ acks = {}
    <2>1. /\ UNCHANGED <<upstream, forceAbort>>
          /\ \A x \in Participants : collected'[x] = collected[x]
        BY <1>2 DEF FinishPhase, TypeOK
    <2>. QED
        BY <2>1, FrameAck DEF AllAckStep
<1>3. CASE ~IsRoot(p) /\ acks # {}
    <2>1. /\ collected' = [collected EXCEPT ![p] = @ \cup {q}]
          /\ UNCHANGED <<upstream, forceAbort>>
          /\ upstream[p] # PREPARE /\ upstream[p] # PRE_COMMIT /\ SaidEnded(q)
        BY <1>3 DEF FinishPhase
    <2>. QED
        BY <2>1, CollectAck
<1>. QED
    BY <1>1, <1>2, <1>3

LEMMA ReceiveAck ==
    ASSUME LocalInv, NEW m \in msgs, Receive(m)
    PROVE  AllAckStep
<1> DEFINE p == m.to
<1>0. TypeOK /\ p \in Participants
    BY MessageFields DEF LocalInv
<1>1. CASE UNCHANGED <<upstream, collected, forceAbort>>
    BY <1>1, QuietAck
<1> HIDE DEF p
<1>2. CASE HandleReq(m)
    <2>2. CASE /\ \E phase, down, pv : DriveSelf(p, phase, down, pv, {})
               /\ UNCHANGED forceAbort
        BY <1>0, <2>2, DriveSelfAck
    <2>3. CASE Ignore(m) \/ \E state : AnswerReq(m, state)
        BY <1>1, <2>3 DEF Ignore, AnswerReq, phaseVars, lifeVars
    <2>4. CASE HandlePrepareReq(m)
        BY <1>0, <2>3, <2>4, EnterPrepareAck DEF HandlePrepareReq, p
    <2>5. CASE HandlePreCommitReq(m)
        BY <1>0, <1>1, <2>3, <2>5, EnterPreCommitAck DEF HandlePreCommitReq, phaseVars, p
    <2>6. CASE HandleCommitReq(m) \/ HandleAbortReq(m) \/ HandleClearReq(m)
        BY <2>2, <2>3, <2>6
        DEF HandleCommitReq, HandleAbortReq, HandleClearReq, lifeVars, p
    <2>. QED
        BY <1>2, <2>4, <2>5, <2>6 DEF HandleReq
<1>3. CASE HandleResp(m)
    <2>0. /\ m.phase = PREPARE => SaidPrepared(m.from)
          /\ m.phase = PRE_COMMIT => SaidReady(m.from)
          /\ m.phase \in {COMMIT, ABORT} => SaidEnded(m.from)
        BY <1>0, <1>3, Completion DEF HandleResp, p
    <2>1. CASE Ignore(m) \/ Remind(m)
        BY <1>1, <2>1 DEF Ignore, Remind, phaseVars, lifeVars
    <2>2. ASSUME collected' = [collected EXCEPT ![p] = @ \cup {m.from}],
                 UNCHANGED <<upstream, forceAbort>>,
                 upstream[p] = PREPARE => SaidPrepared(m.from),
                 upstream[p] = PRE_COMMIT => SaidReady(m.from),
                 upstream[p] \in {COMMIT, ABORT} => SaidEnded(m.from)
          PROVE  AllAckStep
        BY <1>0, <2>2, CollectAck
    <2>3. CASE m.phase = PREPARE /\ upstream[p] = PREPARE /\ PrepareRespImpl(m)
        <3>1. SaidPrepared(m.from) /\ UNCHANGED forceAbort
            BY <2>0, <2>3 DEF PrepareRespImpl
        <3>. QED
            BY <1>0, <2>2, <2>3, <3>1, EnterPreCommitAck DEF PrepareRespImpl, CollectOnly, p
    <2>4. CASE m.phase = PRE_COMMIT /\ upstream[p] = PRE_COMMIT /\ PreCommitRespImpl(m)
        BY <1>0, <2>0, <2>2, <2>4, DriveSelfAck DEF PreCommitRespImpl, lifeVars, p
    <2>5. CASE /\ m.phase \in {COMMIT, ABORT} /\ upstream[p] \in {COMMIT, ABORT}
               /\ AckRespImpl(m)
        <3>1. SaidEnded(m.from) /\ UNCHANGED forceAbort
            BY <2>0, <2>5 DEF AckRespImpl, lifeVars
        <3>2. CASE FinishPhase(p, upstream[p], downstream[p], {m.from}, m)
            BY <1>0, <2>5, <3>1, <3>2, FinishPhaseAck
        <3>. QED
            BY <1>0, <2>2, <2>5, <3>1, <3>2 DEF AckRespImpl, CollectOnly, p
    <2>6. CASE /\ m.phase = ABORT /\ upstream[p] \in {INIT, REDO_COMPLETE, PREPARE}
               /\ AbortRespImpl(m)
        <3>1. CASE DriveSelf(p, ABORT, downstream[p], 0, {m.from}) /\ UNCHANGED forceAbort
            <4>1. /\ upstream'[p] = ABORT /\ collected'[p] = {m.from}
                  /\ \A q \in Participants \ {p} :
                        upstream'[q] = upstream[q] /\ collected'[q] = collected[q]
                BY <1>0, <2>6, <3>1 DEF DriveSelf, TypeOK
            <4>2. AckStep(p)
                BY <2>0, <2>6, <4>1 DEF AckStep
            <4>. QED
                BY <1>0, <3>1, <4>1, <4>2, OneAck
        <3>. QED
            BY <2>1, <2>6, <3>1 DEF AbortRespImpl, lifeVars, p
    <2>. QED
        BY <1>3, <2>1, <2>3, <2>4, <2>5, <2>6
        DEF HandleResp, HandlePrepareResp, HandlePreCommitResp, HandleCommitResp,
            HandleAbortResp, p
<1>4. CASE HandleOrphan(m)
    BY <1>1, <1>4 DEF HandleOrphan, phaseVars, lifeVars
<1>. QED
    BY <1>2, <1>3, <1>4 DEF Receive

LEMMA NextAck ==
    ASSUME LocalInv, Next
    PROVE  AllAckStep
<1>0. TypeOK /\ Root \in Participants
    BY TreeAssumption DEF LocalInv
<1>1. CASE UNCHANGED <<upstream, collected, forceAbort>>
    BY <1>1, QuietAck
<1>2. CASE CommitRequest \/ CommitRequestOnTxTable \/ GtsElapsed
    BY <1>0, <1>1, <1>2, EnterPrepareAck, EnterPreCommitAck
    DEF CommitRequest, CommitRequestOnTxTable, GtsElapsed, phaseVars, lifeVars
<1>3. CASE \E m \in msgs : Receive(m) \/ Lose(m)
    BY <1>1, <1>3, ReceiveAck DEF Lose, phaseVars, lifeVars
<1>4. ASSUME NEW p \in Participants, LogSynced(p)
      PROVE  AllAckStep
    BY <1>0, <1>1, <1>4, EnterPreCommitAck, FinishPhaseAck
    DEF LogSynced, ApplyPrepareLog, ApplyCommitLog, ApplyAbortLog, ApplyClearLog
<1>5. ASSUME NEW p \in Participants, CommitInfoSynced(p) \/ LogFailed(p) \/ Timeout(p)
      PROVE  AllAckStep
    BY <1>0, <1>1, <1>5, EnterPrepareAck
    DEF CommitInfoSynced, LogFailed, Timeout, phaseVars
<1>6. ASSUME NEW p \in Participants, LocalAbort(p)
      PROVE  AllAckStep
    <2>1. /\ forceAbort'[p]
          /\ upstream'[p] = ABORT \/ UNCHANGED <<upstream, collected>>
          /\ \A q \in Participants \ {p} :
                /\ upstream'[q] = upstream[q] /\ collected'[q] = collected[q]
                /\ forceAbort'[q] = forceAbort[q]
        BY <1>0, <1>6 DEF LocalAbort, CompensateAbort, TypeOK
    <2>2. AckStep(p)
        BY <2>1 DEF AckStep
    <2>. QED
        BY <2>1, <2>2, OneAck
<1>7. ASSUME NEW p \in Participants, Failover(p)
      PROVE  AllAckStep
    <2>1. /\ collected'[p] = {}
          /\ \A q \in Participants \ {p} :
                /\ upstream'[q] = upstream[q] /\ collected'[q] = collected[q]
                /\ forceAbort'[q] = forceAbort[q]
        BY <1>0, <1>7 DEF Failover, RecoverFrom, TypeOK
    <2>2. AckStep(p)
        BY <2>1 DEF AckStep
    <2>. QED
        BY <2>1, <2>2, OneAck
<1>. QED
    BY <1>2, <1>3, <1>4, <1>5, <1>6, <1>7 DEF Next

-----------------------------------------------------------------------------
(* The messages of a step *)

CommitShown == \E q \in Participants : CommitMark(q)'

\* a can say that it is ready to commit, or that it has committed: so have all
\* its downstreams.
ReadyBacked(a) ==
    \/ downstream'[a] = PRE_COMMIT /\ \A c \in Downstream(a) : Ready(c)
    \/ DecidedMark(a)
EndBacked(a) ==
    /\ outcome'[a] = "commit"
    /\ upstream[a] = CLEAR \/ \A c \in Downstream(a) : Over(c)

\* What the sender of a new message has behind it.
Backed(n) ==
    \/ /\ n.phase = PREPARE
       /\ n.kind = "RESP" => /\ alive[n.from] /\ ~forceAbort[n.from]
                             /\ alive'[n.from] /\ downstream'[n.from] >= PREPARE
    \/ /\ n.phase \in {PRE_COMMIT, COMMIT} /\ CommitShown
       /\ n.phase = COMMIT => n.from \in Participants /\ DecidedMark(n.from)'
       /\ n.kind = "RESP" /\ n.phase = PRE_COMMIT => ReadyBacked(n.from)
       /\ n.kind = "RESP" /\ n.phase = COMMIT => EndBacked(n.from)
    \/ /\ n.phase = ABORT
       /\ n.from \in Participants
       /\ AbortMark(n.from)' \/ ~alive[n.from]
       /\ n.kind = "RESP" => outcome'[n.from] # "none"
    \/ /\ n.phase = CLEAR /\ n.kind = "REQ"
       /\ n.from \in Participants
       /\ upstream'[n.from] = CLEAR \/ (~alive[n.from] /\ SaidEnded(n.to))

AllBacked(S) == \A n \in S : Backed(n)

LEMMA SendBacked ==
    ASSUME NEW m, NEW S, Send(m, S), AllBacked(S)
    PROVE  AllBacked(msgs' \ msgs)
BY DEF Send, AllBacked

LEMMA NothingBacked == AllBacked({})
BY DEF AllBacked

LEMMA UnionBacked ==
    ASSUME NEW S, NEW T, AllBacked(S), AllBacked(T)
    PROVE  AllBacked(S \cup T)
BY DEF AllBacked

LEMMA QuietBacked ==
    ASSUME UNCHANGED msgs
    PROVE  AllBacked(msgs' \ msgs)
BY DEF AllBacked

LEMMA ReqsBacked ==
    ASSUME NEW p \in Participants, NEW phase \in Phase, NEW dests, NEW cv,
           phase \in {PRE_COMMIT, COMMIT} => CommitShown,
           phase = COMMIT => DecidedMark(p)',
           phase = ABORT => AbortMark(p)',
           phase = CLEAR => upstream'[p] = CLEAR
    PROVE  AllBacked(ReqsTo(p, phase, dests, cv))
BY DEF AllBacked, Backed, ReqsTo, Req, Phase

LEMMA RespBacked ==
    ASSUME NEW p \in Participants, NEW pv, NEW cv,
           NEW phase \in {PREPARE, PRE_COMMIT, COMMIT, ABORT},
           phase = PREPARE => /\ alive[p] /\ ~forceAbort[p]
                              /\ alive'[p] /\ downstream'[p] >= PREPARE,
           phase = PRE_COMMIT => CommitShown /\ ReadyBacked(p),
           phase = COMMIT => EndBacked(p),
           phase = ABORT => AbortMark(p)' /\ outcome'[p] # "none"
    PROVE  AllBacked(RespOf(p, phase, pv, cv))
<1>1. phase = COMMIT => CommitShown /\ DecidedMark(p)'
    BY DEF EndBacked, CommitShown, CommitMark, DecidedMark
<1>. QED
    BY <1>1 DEF AllBacked, Backed, RespOf, Resp

\* A retransmission repeats what the state of its sender says.
LEMMA RetransmitBacked ==
    ASSUME LocalInv, NEW p \in Participants,
           UNCHANGED <<alive, upstream, downstream, outcome>>
    PROVE  /\ AllBacked(RetransmitDown(p, upstream[p], collected[p]))
           /\ \A q \in Participants : AllBacked(RetransmitTo(p, q))
<1>1. /\ upstream[p] \in {PRE_COMMIT, COMMIT} => CommitShown
      /\ upstream[p] = COMMIT => DecidedMark(p)'
      /\ upstream[p] = ABORT => AbortMark(p)'
      /\ upstream[p] = CLEAR => upstream'[p] = CLEAR
    BY DEF CommitShown, CommitMark, DecidedMark, AbortMark
<1>2. AllBacked(RetransmitDown(p, upstream[p], collected[p]))
    BY <1>1, ReqsBacked, NothingBacked DEF RetransmitDown
<1>3. \A q \in Participants : AllBacked(RetransmitTo(p, q))
    BY <1>1, ReqsBacked, NothingBacked DEF RetransmitTo
<1>. QED
    BY <1>2, <1>3

LEMMA AnswerBacked ==
    ASSUME LocalInv, NEW p \in Participants, NEW state, alive[p],
           UNCHANGED <<alive, upstream, downstream, outcome>>,
           \/ state = PREPARE /\ downstream[p] \in {PREPARE, PRE_COMMIT, COMMIT}
           \/ state = PRE_COMMIT /\ downstream[p] \in {PRE_COMMIT, COMMIT}
           \/ state = downstream[p]
    PROVE  AllBacked(RetransmitUp(p, state, upstream[p], collected[p]))
<1>0. TypeOK /\ CtxOK(p)
    BY DEF LocalInv
<1>1. SUFFICES ASSUME state \in {PREPARE, PRE_COMMIT, COMMIT, ABORT},
                      downstream[p] > state \/ collected[p] = Downstream(p)
               PROVE  AllBacked(RespOf(p, state, prepareVersion[p], commitVersion[p]))
    BY NothingBacked DEF RetransmitUp
<1>2. state = PREPARE => ~forceAbort[p] /\ downstream'[p] >= PREPARE
    BY <1>0 DEF CtxOK, ForceOK
<1>3. state = PRE_COMMIT => CommitShown /\ ReadyBacked(p)
    <2>1. state = PRE_COMMIT => CommitShown
        BY DEF CommitShown, CommitMark
    <2>2. state = PRE_COMMIT /\ downstream[p] = COMMIT => ReadyBacked(p)
        BY DEF ReadyBacked, DecidedMark
    <2>3. state = PRE_COMMIT /\ downstream[p] = PRE_COMMIT => ReadyBacked(p)
        BY <1>0, <1>1, CountedReady DEF ReadyBacked, DecidedMark, CtxOK, PhaseOK
    <2>. QED
        BY <2>1, <2>2, <2>3
<1>4. state = COMMIT => EndBacked(p)
    <2>1. state = COMMIT => outcome[p] = "commit" /\ upstream[p] \in {COMMIT, CLEAR}
        BY <1>0 DEF CtxOK, LifeOK, PhaseOK, TypeOK
    <2>. QED
        BY <1>1, <2>1, CountedReady DEF EndBacked
<1>5. state = ABORT => AbortMark(p)' /\ outcome'[p] # "none"
    BY <1>0 DEF AbortMark, CtxOK, LifeOK, TypeOK
<1>. QED
    BY <1>1, <1>2, <1>3, <1>4, <1>5, RespBacked

LEMMA EnterPrepareBacked ==
    ASSUME NEW p \in Participants, NEW m, EnterPrepare(p, m)
    PROVE  AllBacked(msgs' \ msgs)
<1>1. AllBacked(ReqsTo(p, PREPARE, Downstream(p), 0))
    BY ReqsBacked DEF Phase
<1>. QED
    BY <1>1, NothingBacked, SendBacked DEF EnterPrepare

LEMMA EnterPreCommitBacked ==
    ASSUME TypeOK, NEW p \in Participants, NEW cv, NEW m, EnterPreCommit(p, cv, m)
    PROVE  AllBacked(msgs' \ msgs)
<1>0. CommitShown /\ downstream'[p] = PRE_COMMIT
    BY DEF EnterPreCommit, CommitShown, CommitMark, TypeOK
<1>1. AllBacked(ReqsTo(p, PRE_COMMIT, Downstream(p), cv))
    BY <1>0, ReqsBacked DEF Phase
<1>2. IsLeaf(p) => AllBacked(RespOf(p, PRE_COMMIT, 0, cv))
    BY <1>0, RespBacked DEF IsLeaf, ReadyBacked
<1>. QED
    BY <1>1, <1>2, SendBacked DEF EnterPreCommit

LEMMA FinishPhaseBacked ==
    ASSUME TypeOK, NEW p \in Participants, NEW phase \in {COMMIT, ABORT}, NEW acks,
           NEW m, FinishPhase(p, phase, phase, acks, m),
           phase = COMMIT => \A c \in Downstream(p) : Over(c),
           outcome'[p] = (IF phase = COMMIT THEN "commit" ELSE "abort")
    PROVE  AllBacked(msgs' \ msgs)
<1>0. /\ phase = COMMIT => EndBacked(p)
      /\ phase = ABORT => AbortMark(p)' /\ outcome'[p] # "none"
    BY DEF EndBacked, AbortMark
<1>1. CASE IsRoot(p)
    <2>1. upstream'[p] = CLEAR
        BY <1>1, DriveSelfEffect DEF FinishPhase
    <2>2. AllBacked(ReqsTo(p, CLEAR, Downstream(p), 0))
        BY <2>1, ReqsBacked DEF Phase
    <2>. QED
        BY <1>1, <2>2, SendBacked DEF FinishPhase
<1>2. CASE ~IsRoot(p)
    <2>1. AllBacked(RespOf(p, phase, 0, commitVersion'[p]))
        BY <1>0, RespBacked
    <2>. QED
        BY <1>2, <2>1, SendBacked DEF FinishPhase
<1>. QED
    BY <1>1, <1>2

LEMMA ReceiveBacked ==
    ASSUME LocalInv, NEW m \in msgs, Receive(m)
    PROVE  AllBacked(msgs' \ msgs)
<1> DEFINE p == m.to
<1>0. TypeOK /\ p \in Participants /\ CtxOK(p) /\ m.from \in Participants
    BY MessageFields DEF LocalInv
<1>1. CASE Send(m, {})
    BY <1>1, NothingBacked, SendBacked
<1> HIDE DEF p
<1>2. CASE HandleReq(m)
    <2>0. alive[p]
        BY <1>2 DEF HandleReq, p
    <2>1. ASSUME NEW state, AnswerReq(m, state),
                 \/ state = PREPARE /\ downstream[p] \in {PREPARE, PRE_COMMIT, COMMIT}
                 \/ state = PRE_COMMIT /\ downstream[p] \in {PRE_COMMIT, COMMIT}
                 \/ state = downstream[p]
          PROVE  AllBacked(msgs' \ msgs)
        <3> DEFINE S == RetransmitDown(p, upstream[p], collected[p])
                   T == RetransmitUp(p, state, upstream[p], collected[p])
        <3>1. AllBacked(S) /\ AllBacked(T) /\ Send(m, S \cup T)
            BY <1>0, <2>0, <2>1, RetransmitBacked, AnswerBacked
            DEF AnswerReq, phaseVars, lifeVars, p
        <3> HIDE DEF S, T
        <3>. QED
            BY <3>1, UnionBacked, SendBacked
    <2>2. ASSUME NEW phase \in {COMMIT, ABORT, CLEAR}, NEW cv,
                 DriveSelf(p, phase, downstream[p], 0, {}),
                 Send(m, ReqsTo(p, phase, Downstream(p), cv))
          PROVE  AllBacked(msgs' \ msgs)
        <3>1. upstream'[p] = phase
            BY <1>0, <2>2, DriveSelfEffect
        <3>2. /\ phase = COMMIT => CommitShown /\ DecidedMark(p)'
              /\ phase = ABORT => AbortMark(p)'
            BY <1>0, <3>1 DEF CommitShown, CommitMark, DecidedMark, AbortMark
        <3>3. AllBacked(ReqsTo(p, phase, Downstream(p), cv))
            BY <1>0, <3>1, <3>2, ReqsBacked DEF Phase
        <3>. QED
            BY <2>2, <3>3, SendBacked
    <2>3. CASE Ignore(m)
        BY <1>1, <2>3 DEF Ignore
    <2>4. CASE HandlePrepareReq(m)
        BY <1>0, <2>1, <2>3, <2>4, EnterPrepareBacked DEF HandlePrepareReq, p
    <2>5. CASE HandlePreCommitReq(m)
        BY <1>0, <1>1, <2>1, <2>3, <2>5, EnterPreCommitBacked DEF HandlePreCommitReq, p
    <2>6. CASE HandleCommitReq(m)
        BY <2>1, <2>2, <2>3, <2>6 DEF HandleCommitReq, p
    <2>7. CASE HandleAbortReq(m)
        BY <2>1, <2>2, <2>3, <2>7 DEF HandleAbortReq, p
    <2>8. CASE HandleClearReq(m)
        BY <2>2, <2>3, <2>8 DEF HandleClearReq, p
    <2>. QED
        BY <1>2, <2>4, <2>5, <2>6, <2>7, <2>8 DEF HandleReq
<1>3. CASE HandleResp(m)
    <2>0. /\ alive[p]
          /\ CompletesPhase(m) => \A q \in Downstream(p) : q \in collected[p] \/ q = m.from
          /\ m.phase = PRE_COMMIT => Ready(m.from)
          /\ m.phase \in {COMMIT, ABORT} => Over(m.from)
        BY <1>0, <1>3, Completion DEF HandleResp, p
    <2>1. CASE Remind(m)
        <3>1. AllBacked(RetransmitTo(p, m.from))
            BY <1>0, <2>1, RetransmitBacked DEF Remind, phaseVars, lifeVars
        <3>. QED
            BY <2>1, <3>1, SendBacked DEF Remind, p
    <2>2. CASE Ignore(m) \/ CollectOnly(m)
        BY <1>1, <2>2 DEF Ignore, CollectOnly
    <2>3. CASE PrepareRespImpl(m)
        <3>1. ASSUME NEW pv, downstream[p] = PREPARE, UNCHANGED <<downstream, alive>>,
                     Send(m, RespOf(p, PREPARE, pv, 0))
              PROVE  AllBacked(msgs' \ msgs)
            <4>1. ~forceAbort[p]
                BY <1>0, <2>0, <3>1 DEF CtxOK, ForceOK
            <4>2. AllBacked(RespOf(p, PREPARE, pv, 0))
                BY <1>0, <2>0, <3>1, <4>1, RespBacked
            <4>. QED
                BY <3>1, <4>2, SendBacked
        <3>. QED
            BY <1>0, <2>2, <2>3, <3>1, EnterPreCommitBacked DEF PrepareRespImpl, p
    <2>4. CASE m.phase = PRE_COMMIT /\ upstream[p] = PRE_COMMIT /\ PreCommitRespImpl(m)
        <3>1. UNCHANGED downstream /\ downstream[p] = PRE_COMMIT
            BY <1>0, <2>0, <2>4 DEF PreCommitRespImpl, lifeVars, CtxOK, PhaseOK, LifeOK,
                                   TypeOK, TxState
        <3>2. CommitShown
            BY <1>0, <3>1 DEF CommitShown, CommitMark
        <3>3. ASSUME NEW cv, DriveSelf(p, COMMIT, downstream[p], 0, {}),
                     Send(m, ReqsTo(p, COMMIT, Downstream(p), cv))
              PROVE  AllBacked(msgs' \ msgs)
            <4>1. DecidedMark(p)'
                BY <1>0, <3>3, DriveSelfEffect DEF DecidedMark
            <4>2. AllBacked(ReqsTo(p, COMMIT, Downstream(p), cv))
                BY <1>0, <3>2, <4>1, ReqsBacked DEF Phase
            <4>. QED
                BY <3>3, <4>2, SendBacked
        <3>4. ASSUME NEW cv, CompletesPhase(m), Send(m, RespOf(p, PRE_COMMIT, 0, cv))
              PROVE  AllBacked(msgs' \ msgs)
            <4>1. ReadyBacked(p)
                BY <1>0, <2>0, <2>4, <3>1, <3>4, CountedReady DEF ReadyBacked
            <4>2. AllBacked(RespOf(p, PRE_COMMIT, 0, cv))
                BY <1>0, <3>2, <4>1, RespBacked
            <4>. QED
                BY <3>4, <4>2, SendBacked
        <3>. QED
            BY <1>1, <2>4, <3>3, <3>4 DEF PreCommitRespImpl, p
    <2>5. CASE /\ m.phase \in {COMMIT, ABORT} /\ upstream[p] \in {COMMIT, ABORT}
               /\ AckRespImpl(m)
        <3>1. CASE CollectOnly(m)
            BY <2>2, <3>1
        <3>2. CASE /\ downstream[p] \in {COMMIT, ABORT} /\ CompletesPhase(m)
                   /\ FinishPhase(p, upstream[p], downstream[p], {m.from}, m)
            <4>1. /\ upstream[p] = downstream[p]
                  /\ outcome[p] = (IF downstream[p] = COMMIT THEN "commit" ELSE "abort")
                BY <1>0, <2>0, <2>5, <3>2 DEF CtxOK, PhaseOK, LifeOK, TypeOK
            <4>2. UNCHANGED outcome
                BY <2>5 DEF AckRespImpl, lifeVars
            <4>3. downstream[p] = COMMIT => \A c \in Downstream(p) : Over(c)
                BY <1>0, <2>0, <2>5, <3>2, <4>1, CountedReady
            <4>. QED
                BY <1>0, <3>2, <4>1, <4>2, <4>3, FinishPhaseBacked
        <3>. QED
            BY <2>5, <3>1, <3>2 DEF AckRespImpl, p
    <2>6. CASE AbortRespImpl(m)
        <3>1. CASE /\ DriveSelf(p, ABORT, downstream[p], 0, {m.from})
                   /\ Send(m, ReqsTo(p, ABORT, Downstream(p), 0))
            <4>1. AbortMark(p)'
                BY <1>0, <3>1, DriveSelfEffect DEF AbortMark
            <4>2. AllBacked(ReqsTo(p, ABORT, Downstream(p), 0))
                BY <1>0, <4>1, ReqsBacked DEF Phase
            <4>. QED
                BY <3>1, <4>2, SendBacked
        <3>. QED
            BY <2>2, <2>6, <3>1 DEF AbortRespImpl, p
    <2>. QED
        BY <1>3, <2>1, <2>2, <2>3, <2>4, <2>5, <2>6
        DEF HandleResp, HandlePrepareResp, HandlePreCommitResp, HandleCommitResp,
            HandleAbortResp, p
<1>4. CASE HandleOrphan(m)
    <2>0. ~alive[m.to] /\ UNCHANGED outcome /\ outcome[m.to] # "none"
        BY <1>0, <1>4 DEF HandleOrphan, lifeVars, CtxOK, LifeOK, p
    <2>1. CASE m.kind = "RESP"
        <3>2. m.phase \notin {PREPARE, PRE_COMMIT} => SaidEnded(m.from)
            BY <1>0, <2>1 DEF SaidEnded, TypeOK, Message, Phase
        <3>3. AllBacked(OrphanReply(m))
            BY <1>0, <2>0, <2>1, <3>2
            DEF AllBacked, Backed, OrphanReply, OrphanResp, Req, p
        <3>. QED
            BY <1>4, <3>3, SendBacked DEF HandleOrphan
    <2>2. CASE m.kind # "RESP"
        <3>1. AllBacked(OrphanReply(m))
            BY <1>0, <2>0, <2>2 DEF AllBacked, Backed, OrphanReply, OrphanReq, Resp, p
        <3>. QED
            BY <1>4, <3>1, SendBacked DEF HandleOrphan
    <2>. QED
        BY <2>1, <2>2
<1>. QED
    BY <1>2, <1>3, <1>4 DEF Receive

LEMMA NextBacked ==
    ASSUME LocalInv, Next
    PROVE  AllBacked(msgs' \ msgs)
<1>0. TypeOK /\ Root \in Participants
    BY TreeAssumption DEF LocalInv
<1>1. CASE UNCHANGED msgs
    BY <1>1, QuietBacked
<1>2. CASE CommitRequest
    BY <1>0, <1>1, <1>2, EnterPrepareBacked DEF CommitRequest
<1>3. CASE GtsElapsed
    BY <1>0, <1>3, EnterPreCommitBacked DEF GtsElapsed
<1>4. CASE \E m \in msgs : Receive(m) \/ Lose(m)
    BY <1>4, ReceiveBacked, NothingBacked, SendBacked DEF Lose
<1>5. ASSUME NEW p \in Participants, LogSynced(p)
      PROVE  AllBacked(msgs' \ msgs)
    <2>0. CtxOK(p) /\ alive[p]
        BY <1>5 DEF LocalInv, LogSynced
    <2>1. CASE ApplyPrepareLog(p)
        <3>1. CASE Send(NoMsg, RespOf(p, PREPARE, prepareVersion[p], 0))
                   /\ downstream' = [downstream EXCEPT ![p] = PREPARE]
            <4>1. downstream'[p] >= PREPARE
                BY <1>0, <3>1 DEF TypeOK
            <4>2. ~forceAbort[p] /\ alive'[p]
                BY <2>0, <2>1 DEF ApplyPrepareLog, CtxOK, ForceOK
            <4>3. AllBacked(RespOf(p, PREPARE, prepareVersion[p], 0))
                BY <2>0, <4>1, <4>2, RespBacked
            <4>. QED
                BY <3>1, <4>3, SendBacked
        <3>. QED
            BY <1>0, <1>1, <2>1, <3>1, EnterPreCommitBacked DEF ApplyPrepareLog
    <2>2. CASE ApplyCommitLog(p)
        <3>1. /\ outcome'[p] = "commit"
              /\ AllCollected(p) => \A c \in Downstream(p) : Over(c)
            BY <1>0, <2>2, CountedReady DEF ApplyCommitLog, TypeOK, AllCollected
        <3>. QED
            BY <1>0, <1>1, <2>2, <3>1, FinishPhaseBacked DEF ApplyCommitLog
    <2>3. CASE ApplyAbortLog(p)
        <3>1. CASE FinishPhase(p, ABORT, ABORT, {}, NoMsg) /\ outcome'[p] = "abort"
            BY <1>0, <3>1, FinishPhaseBacked
        <3>2. outcome'[p] = "abort"
            BY <1>0, <2>3 DEF ApplyAbortLog, ExitAborted, TypeOK
        <3>. QED
            BY <1>1, <2>3, <3>1, <3>2 DEF ApplyAbortLog
    <2>4. CASE ApplyClearLog(p)
        BY <1>1, <2>4 DEF ApplyClearLog
    <2>. QED
        BY <1>5, <2>1, <2>2, <2>3, <2>4 DEF LogSynced
<1>6. ASSUME NEW p \in Participants, Timeout(p)
      PROVE  AllBacked(msgs' \ msgs)
    <2>1. CASE EnterPrepare(p, NoMsg)
        BY <2>1, EnterPrepareBacked
    <2>2. CASE UNCHANGED upstream /\ alive[p] /\ ~EnterPrepare(p, NoMsg)
        <3> DEFINE S == RetransmitDown(p, upstream[p], collected[p])
                   T == RetransmitUp(p, downstream[p], upstream[p], collected[p])
        <3>1. UNCHANGED <<alive, downstream, outcome>> /\ Send(NoMsg, S \cup T)
            BY <1>6, <2>2 DEF Timeout
        <3>2. AllBacked(S) /\ AllBacked(T)
            BY <1>0, <2>2, <3>1, RetransmitBacked, AnswerBacked
        <3> HIDE DEF S, T
        <3>. QED
            BY <3>1, <3>2, UnionBacked, SendBacked
    <2>. QED
        BY <1>6, <2>1, <2>2 DEF Timeout
<1>7. CASE CommitRequestOnTxTable \/ \E p \in Participants :
                CommitInfoSynced(p) \/ LogFailed(p) \/ LocalAbort(p) \/ Failover(p)
    BY <1>1, <1>7
    DEF CommitRequestOnTxTable, CommitInfoSynced, LogFailed, LocalAbort, Failover
<1>. QED
    BY <1>2, <1>3, <1>4, <1>5, <1>6, <1>7 DEF Next

-----------------------------------------------------------------------------
(* The answers of a step *)

\* The scheduler hears of a commit or an abort that a context shows.
AnswerStep ==
    /\ "committed" \in answers' => "committed" \in answers \/ CommitShown
    /\ "killed" \in answers' => "killed" \in answers \/ AbortMark(Root)'

LEMMA QuietAnswers ==
    ASSUME UNCHANGED answers
    PROVE  AnswerStep
BY DEF AnswerStep

LEMMA ExitAbortedAnswers ==
    ASSUME TypeOK, NEW p \in Participants, ExitAborted(p)
    PROVE  AnswerStep
<1>1. CASE IsRoot(p)
    <2>1. outcome'[Root] = "abort" /\ answers' \subseteq answers \cup {"killed"}
        BY <1>1 DEF ExitAborted, IsRoot, TypeOK
    <2>. QED
        BY <2>1 DEF AnswerStep, AbortMark
<1>2. CASE ~IsRoot(p)
    BY <1>2, QuietAnswers DEF ExitAborted
<1>. QED
    BY <1>1, <1>2

LEMMA ReceiveAnswers ==
    ASSUME LocalInv, NEW m \in msgs, Receive(m)
    PROVE  AnswerStep
<1>0. TypeOK /\ Root \in Participants
    BY TreeAssumption DEF LocalInv
<1>1. CASE UNCHANGED answers
    BY <1>1, QuietAnswers
<1>2. CASE HandleReq(m)
    BY <1>1, <1>2
    DEF HandleReq, HandlePrepareReq, HandlePreCommitReq, HandleCommitReq,
        HandleAbortReq, HandleClearReq, Ignore, AnswerReq, rootVars
<1>3. CASE HandleResp(m)
    <2>1. CASE PreCommitRespImpl(m)
        <3>1. CASE /\ m.to = Root
                   /\ DriveSelf(Root, COMMIT, downstream[Root], 0, {}) /\ Answer(Root, COMMIT)
            <4>1. CommitShown
                BY <1>0, <3>1, DriveSelfEffect DEF CommitShown, CommitMark
            <4>2. answers' \subseteq answers \cup {"committed"}
                BY <3>1 DEF Answer
            <4>. QED
                BY <4>1, <4>2 DEF AnswerStep
        <3>. QED
            BY <1>1, <2>1, <3>1 DEF PreCommitRespImpl, IsRoot
    <2>2. CASE AbortRespImpl(m)
        <3>1. CASE /\ m.to = Root
                   /\ DriveSelf(Root, ABORT, downstream[Root], 0, {m.from})
                   /\ Answer(Root, ABORT)
            <4>1. AbortMark(Root)'
                BY <1>0, <3>1, DriveSelfEffect DEF AbortMark
            <4>2. answers' \subseteq answers \cup {"killed"}
                BY <3>1 DEF Answer
            <4>. QED
                BY <4>1, <4>2 DEF AnswerStep
        <3>. QED
            BY <1>1, <2>2, <3>1 DEF AbortRespImpl, Ignore, Answer, IsRoot, rootVars
    <2>3. CASE Ignore(m) \/ Remind(m) \/ PrepareRespImpl(m) \/ AckRespImpl(m)
        BY <1>1, <2>3 DEF Ignore, Remind, PrepareRespImpl, AckRespImpl, rootVars
    <2>. QED
        BY <1>3, <2>1, <2>2, <2>3
        DEF HandleResp, HandlePrepareResp, HandlePreCommitResp, HandleCommitResp,
            HandleAbortResp
<1>4. CASE HandleOrphan(m)
    BY <1>1, <1>4 DEF HandleOrphan, rootVars
<1>. QED
    BY <1>2, <1>3, <1>4 DEF Receive

LEMMA NextAnswers ==
    ASSUME LocalInv, Next
    PROVE  AnswerStep
<1>0. TypeOK /\ Root \in Participants /\ CtxOK(Root)
    BY TreeAssumption DEF LocalInv
<1>1. CASE UNCHANGED answers
    BY <1>1, QuietAnswers
<1>2. CASE CommitRequest
    <2>1. CASE /\ EnterPrepare(Root, NoMsg) /\ upstream[Root] < PREPARE /\ forceAbort[Root]
               /\ answers' \subseteq answers \cup {"killed"}
        <3>1. AbortMark(Root)'
            BY <1>0, <2>1 DEF EnterPrepare, CompensateAbort, AbortMark, TypeOK
        <3>. QED
            BY <2>1, <3>1 DEF AnswerStep
    <2>2. CASE /\ downstream[Root] = ABORT /\ answers' = answers \cup {"killed"}
               /\ UNCHANGED outcome
        BY <1>0, <2>2 DEF AnswerStep, AbortMark, CtxOK, LifeOK, TypeOK
    <2>3. CASE /\ downstream[Root] \in {PRE_COMMIT, COMMIT}
               /\ answers' = answers \cup {"committed"} /\ UNCHANGED downstream
        BY <1>0, <2>3 DEF AnswerStep, CommitShown, CommitMark
    <2>4. UNCHANGED <<outcome, downstream>>
        BY <1>2 DEF CommitRequest
    <2>5. CASE /\ upstream[Root] < PREPARE /\ EnterPrepare(Root, NoMsg)
               /\ answers' = IF forceAbort[Root] /\ logging'[Root] = ABORT
                             THEN answers \cup {"killed"} ELSE answers
        BY <1>1, <2>1, <2>5
    <2>6. upstream[Root] \in Int
        BY <1>0 DEF TypeOK, TxState
    <2>. QED
        BY <1>1, <1>2, <2>2, <2>3, <2>4, <2>5, <2>6 DEF CommitRequest
<1>3. CASE CommitRequestOnTxTable
    <2>1. /\ outcome[Root] # "none" /\ UNCHANGED outcome
          /\ outcome[Root] = "commit" => answers' = answers \cup {"committed"}
          /\ outcome[Root] # "commit" => answers' = answers \cup {"killed"}
        BY <1>0, <1>3 DEF CommitRequestOnTxTable, lifeVars, CtxOK, LifeOK
    <2>2. outcome[Root] \in {"none", "commit", "abort"}
        BY <1>0 DEF TypeOK
    <2>. QED
        BY <1>0, <2>1, <2>2 DEF AnswerStep, CommitShown, CommitMark, AbortMark
<1>4. CASE GtsElapsed
    BY <1>1, <1>4 DEF GtsElapsed
<1>5. CASE \E m \in msgs : Receive(m) \/ Lose(m)
    BY <1>1, <1>5, ReceiveAnswers DEF Lose, rootVars
<1>6. ASSUME NEW p \in Participants,
             \/ LogSynced(p) \/ CommitInfoSynced(p) \/ LogFailed(p)
             \/ Timeout(p) \/ LocalAbort(p) \/ Failover(p)
      PROVE  AnswerStep
    BY <1>0, <1>1, <1>6, ExitAbortedAnswers
    DEF LogSynced, ApplyPrepareLog, ApplyCommitLog, ApplyAbortLog, ApplyClearLog,
        CommitInfoSynced, LogFailed, Timeout, LocalAbort, Failover, rootVars
<1>. QED
    BY <1>2, <1>3, <1>4, <1>5, <1>6 DEF Next

-----------------------------------------------------------------------------
(* The visible part of a step *)

\* Only p changes its durable state, and an answer is a step of its own unless
\* p aborts.
Moves(p) ==
    /\ \A q \in Participants \ {p} :
            downstream'[q] = downstream[q] /\ outcome'[q] = outcome[q]
    /\ \/ UNCHANGED answers
       \/ /\ UNCHANGED <<downstream, outcome>>
          /\ \/ answers' = answers \cup {"committed"}
             \/ answers' = answers \cup {"killed"}
       \/ outcome'[p] = "abort" /\ answers' = answers \cup {"killed"}

\* A step that leaves the durable states alone, or changes one of them only.
LEMMA InnerMoves ==
    ASSUME UNCHANGED <<downstream, outcome>>,
           \/ UNCHANGED answers
           \/ answers' = answers \cup {"committed"}
           \/ answers' = answers \cup {"killed"}
    PROVE  \E p \in Participants : Moves(p)
BY TreeAssumption DEF Moves

LEMMA EnterPreCommitMoves ==
    ASSUME TypeOK, NEW p \in Participants, NEW cv, NEW m, EnterPreCommit(p, cv, m),
           UNCHANGED <<outcome, answers>>
    PROVE  \E q \in Participants : Moves(q)
BY DEF EnterPreCommit, Moves, TypeOK

LEMMA ExitAbortedMoves ==
    ASSUME TypeOK, NEW p \in Participants, ExitAborted(p)
    PROVE  \E q \in Participants : Moves(q)
<1>1. /\ outcome'[p] = "abort"
      /\ \A q \in Participants \ {p} :
            downstream'[q] = downstream[q] /\ outcome'[q] = outcome[q]
    BY DEF ExitAborted, TypeOK
<1>2. UNCHANGED answers \/ answers' = answers \cup {"killed"}
    BY DEF ExitAborted
<1>. QED
    BY <1>1, <1>2 DEF Moves

LEMMA ReceiveMoves ==
    ASSUME LocalInv, NEW m \in msgs, Receive(m)
    PROVE  \E p \in Participants : Moves(p)
<1>0. TypeOK /\ m.to \in Participants
    BY MessageFields DEF LocalInv
<1>1. CASE UNCHANGED <<downstream, outcome, answers>>
    BY <1>1, InnerMoves
<1>2. CASE HandleReq(m)
    BY <1>0, <1>1, <1>2, EnterPreCommitMoves
    DEF HandleReq, HandlePrepareReq, HandlePreCommitReq, HandleCommitReq,
        HandleAbortReq, HandleClearReq, Ignore, AnswerReq, rootVars, lifeVars
<1>3. CASE PrepareRespImpl(m)
    BY <1>0, <1>1, <1>3, EnterPreCommitMoves DEF PrepareRespImpl
<1>4. CASE PreCommitRespImpl(m) \/ AbortRespImpl(m)
    BY <1>1, <1>4, InnerMoves
    DEF PreCommitRespImpl, AbortRespImpl, Answer, Ignore, rootVars, lifeVars
<1>5. CASE HandleResp(m)
    BY <1>1, <1>3, <1>4, <1>5
    DEF HandleResp, HandlePrepareResp, HandlePreCommitResp, HandleCommitResp,
        HandleAbortResp, Ignore, Remind, AckRespImpl, rootVars, lifeVars
<1>6. CASE HandleOrphan(m)
    BY <1>1, <1>6 DEF HandleOrphan, rootVars, lifeVars
<1>. QED
    BY <1>2, <1>5, <1>6 DEF Receive

LEMMA NextMoves ==
    ASSUME LocalInv, Next
    PROVE  \E p \in Participants : Moves(p)
<1>0. TypeOK /\ Root \in Participants
    BY TreeAssumption DEF LocalInv
<1>1. CASE UNCHANGED <<downstream, outcome, answers>>
    BY <1>1, InnerMoves
<1>2. CASE CommitRequest \/ CommitRequestOnTxTable
    BY <1>2, InnerMoves DEF CommitRequest, CommitRequestOnTxTable, lifeVars
<1>3. CASE GtsElapsed
    BY <1>0, <1>3, EnterPreCommitMoves DEF GtsElapsed
<1>4. CASE \E m \in msgs : Receive(m) \/ Lose(m)
    BY <1>1, <1>4, ReceiveMoves DEF Lose, rootVars, lifeVars
<1>5. ASSUME NEW p \in Participants,
             \A q \in Participants \ {p} :
                downstream'[q] = downstream[q] /\ outcome'[q] = outcome[q],
             UNCHANGED answers
      PROVE  \E q \in Participants : Moves(q)
    BY <1>5 DEF Moves
<1>6. ASSUME NEW p \in Participants, LogSynced(p) \/ CommitInfoSynced(p)
      PROVE  \E q \in Participants : Moves(q)
    <2>1. CASE ApplyPrepareLog(p)
        BY <1>0, <1>5, <2>1, EnterPreCommitMoves DEF ApplyPrepareLog, TypeOK
    <2>2. CASE ApplyCommitLog(p)
        BY <1>0, <1>5, <2>2 DEF ApplyCommitLog, rootVars, TypeOK
    <2>3. CASE ApplyAbortLog(p)
        BY <1>0, <1>5, <2>3, ExitAbortedMoves DEF ApplyAbortLog, TypeOK
    <2>4. CASE ApplyClearLog(p) \/ CommitInfoSynced(p)
        BY <1>0, <1>5, <2>4 DEF ApplyClearLog, CommitInfoSynced, rootVars, TypeOK
    <2>. QED
        BY <1>6, <2>1, <2>2, <2>3, <2>4 DEF LogSynced
<1>7. ASSUME NEW p \in Participants, LogFailed(p) \/ Timeout(p) \/ LocalAbort(p)
      PROVE  \E q \in Participants : Moves(q)
    BY <1>0, <1>1, <1>7, ExitAbortedMoves DEF LogFailed, Timeout, LocalAbort
<1>8. ASSUME NEW p \in Participants, Failover(p)
      PROVE  \E q \in Participants : Moves(q)
    BY <1>0, <1>5, <1>8, ExitAbortedMoves DEF Failover, RecoverFrom, TypeOK
<1>. QED
    BY <1>2, <1>3, <1>4, <1>6, <1>7, <1>8 DEF Next

-----------------------------------------------------------------------------

\* Everything the arguments need to know of a step.
StepFacts ==
    /\ \A q \in Participants : CtxStep(q) /\ Final(q) /\ AckStep(q)
    /\ AllBacked(msgs' \ msgs)
    /\ AnswerStep

LEMMA NextFacts ==
    ASSUME LocalInv, Next
    PROVE  StepFacts
BY NextStep, NextAck, NextBacked, NextAnswers DEF StepFacts, AllAckStep

\* Whoever sends, receives or is acknowledged is a participant.
LEMMA Names ==
    ASSUME LocalInv
    PROVE  /\ Root \in Participants /\ collected[Root] \subseteq Participants
           /\ \A m \in msgs : m.from \in Participants /\ m.to \in Participants
           /\ \A q \in Participants : outcome[q] \in {"none", "commit", "abort"}
           /\ \A q \in Participants : downstream[q] \in TxState /\ upstream[q] \in TxState
           /\ \A m \in msgs : m.kind \in {"REQ", "RESP"} /\ m.phase \in Phase
BY TreeAssumption, MessageFields DEF LocalInv, TypeOK, Message

LEMMA MarksSeen ==
    ASSUME NEW q \in Participants
    PROVE  /\ CommitMark(q) => CommitSeen
           /\ AbortMark(q) => AbortSeen
BY DEF CommitMark, AbortMark, CommitSeen, AbortSeen

LEMMA MarksSeenNext ==
    ASSUME NEW q \in Participants
    PROVE  /\ CommitMark(q)' => CommitSeen'
           /\ AbortMark(q)' => AbortSeen'
BY DEF CommitMark, AbortMark, CommitSeen, AbortSeen

=============================================================================
