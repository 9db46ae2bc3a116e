----------------------- MODULE TwoPhaseCommitVersions -----------------------
(***************************************************************************)
(* VersionInv is inductive for a flat transaction, on top of FlatInv: the  *)
(* only version a participant can commit at is the largest one in the      *)
(* prepare logs, whichever leaders change and however often a message is   *)
(* delivered.  From it follows VersionAgreement.                           *)
(*                                                                         *)
(* As in TwoPhaseCommitSteps, the lemmas of the first layer say what one   *)
(* step does to the versions of a context, to the acknowledgements of the  *)
(* root and to the network; the second layer is the argument.              *)
(***************************************************************************)
EXTENDS TwoPhaseCommitFlat

USE DEF INIT, REDO_COMPLETE, PREPARE, PRE_COMMIT, COMMIT, ABORT, CLEAR, NONE

-----------------------------------------------------------------------------
(* The versions of one context *)

\* A message carries the prepare version v of q, or the commit version v.
SaidVersion(q, v) ==
    \E m \in msgs : /\ m.kind = "RESP" /\ m.phase = PREPARE
                    /\ m.from = q /\ m.version = v
HeardVersion(v) ==
    \E m \in msgs : m.phase \in {PRE_COMMIT, COMMIT} /\ m.version = v

\* The root's prepare version after the step takes the one of q into account.
Counted(q) ==
    \/ /\ upstream[Root] = PREPARE /\ q \in collected[Root]
       /\ prepareVersion[Root] <= prepareVersion'[Root]
    \/ \E v \in Version : SaidVersion(q, v) /\ v <= prepareVersion'[Root]

\* The root makes its prepare version the commit version.
Settles ==
    /\ Promised(Root)' /\ downstream'[Root] >= PREPARE
    /\ commitVersion'[Root] = prepareVersion'[Root]
    /\ \A q \in Participants \ {Root} : Counted(q)

\* A version is logged before its context has prepared, and never again.
LogVersionStep(q) ==
    \/ logVersion'[q] = logVersion[q]
    \/ /\ downstream[q] < PREPARE /\ logging[q] = NONE
       /\ logVersion'[q] = prepareVersion'[q]

PrepareVersionStep(q) ==
    Promised(q)' =>
        \/ logVersion'[q] = prepareVersion'[q]
        \/ /\ Promised(q) /\ logVersion'[q] = logVersion[q]
           /\ \/ prepareVersion'[q] = prepareVersion[q]
              \/ /\ q = Root
                 /\ \E v \in Version :
                      /\ prepareVersion'[q] = MaxOf(prepareVersion[q], v)
                      /\ \/ HeardVersion(v)
                         \/ \E x \in Participants \ {Root} : SaidVersion(x, v)

CommitVersionStep(q) ==
    \/ commitVersion'[q] = commitVersion[q] /\ (CommitMark(q)' => CommitMark(q))
    \/ commitVersion'[q] = 0 /\ ~CommitMark(q)'
    \/ \E v \in Version : /\ HeardVersion(v)
                          /\ commitVersion'[q] = MaxOf(commitVersion[q], v)
    \/ q = Root /\ Settles

VersionStep(q) ==
    LogVersionStep(q) /\ PrepareVersionStep(q) /\ CommitVersionStep(q)

SameVersions(q) ==
    /\ SameAt(q)
    /\ prepareVersion'[q] = prepareVersion[q]
    /\ logVersion'[q] = logVersion[q]
    /\ commitVersion'[q] = commitVersion[q]

\* A context the step does not touch.
LEMMA FrameVersion ==
    ASSUME NEW q \in Participants, SameVersions(q)
    PROVE  VersionStep(q)
BY DEF SameVersions, SameAt, VersionStep, LogVersionStep, PrepareVersionStep,
       CommitVersionStep, Promised, Locked, CommitMark

LEMMA OneVersion ==
    ASSUME NEW p \in Participants, VersionStep(p),
           \A q \in Participants \ {p} : SameVersions(q)
    PROVE  \A q \in Participants : VersionStep(q)
BY FrameVersion

LEMMA QuietVersion ==
    ASSUME UNCHANGED <<alive, upstream, downstream, logging, forceAbort, outcome,
                       prepareVersion, logVersion, commitVersion>>
    PROVE  \A q \in Participants : VersionStep(q)
BY FrameVersion DEF SameVersions, SameAt

\* Versions are numbers.
LEMMA VersionNat ==
    ASSUME TypeOK, NEW p \in Participants
    PROVE  /\ prepareVersion[p] \in Nat /\ logVersion[p] \in Nat
           /\ commitVersion[p] \in Nat
           /\ \A v \in Version : v \in Nat
           /\ \A m \in msgs : m.version \in Version
<1>1. Version \subseteq Nat
    BY ParameterAssumption DEF Version
<1>. QED
    BY <1>1, MessageFields DEF TypeOK

\* What the submission of a log does to the versions.
LEMMA SubmitLogVersions ==
    ASSUME TypeOK, NEW p \in Participants, NEW down, NEW up, NEW pv,
           SubmitLog(p, down, up, pv)
    PROVE  /\ logging'[p] \in {NONE, up}
           /\ logging'[p] = PREPARE =>
                logVersion'[p] = pv /\ up = PREPARE /\ NeedLog(down, up)
           /\ logging'[p] # PREPARE => logVersion'[p] = logVersion[p]
           /\ \A q \in Participants \ {p} :
                logging'[q] = logging[q] /\ logVersion'[q] = logVersion[q]
BY DEF SubmitLog, TypeOK

\* Entering PREPARE with a version, or giving up instead.
LEMMA EnterPrepareVersions ==
    ASSUME LocalInv, NEW p \in Participants, NEW m, EnterPrepare(p, m), alive[p],
           downstream[p] \in {INIT, REDO_COMPLETE}, ~Busy(p),
           UNCHANGED <<alive, downstream, outcome, commitVersion>>
    PROVE  \A q \in Participants : VersionStep(q)
<1>0. TypeOK /\ CtxOK(p) /\ logging[p] = NONE
    BY DEF LocalInv, Busy
<1>1. ~Locked(p) /\ ~Locked(p)'
    BY <1>0 DEF Locked, CtxOK, LifeOK
<1>2. CASE ~(forceAbort[p] /\ upstream[p] # PREPARE)
    <2>1. PICK v : /\ prepareVersion' = [prepareVersion EXCEPT ![p] = v]
                   /\ DriveSelf(p, PREPARE, downstream[p], v, {})
        BY <1>2 DEF EnterPrepare
    <2>2. UNCHANGED forceAbort
        BY <1>2 DEF EnterPrepare
    <2>3. /\ upstream' = [upstream EXCEPT ![p] = PREPARE]
          /\ SubmitLog(p, downstream[p], PREPARE, v)
        BY <2>1 DEF DriveSelf
    <2>4. prepareVersion'[p] = v /\ upstream'[p] = PREPARE
        BY <1>0, <2>1, <2>3 DEF TypeOK
    <2>5. VersionStep(p)
        BY <1>0, <1>1, <2>3, <2>4, SubmitLogVersions
        DEF VersionStep, LogVersionStep, PrepareVersionStep, CommitVersionStep,
            Promised, Locked, CommitMark
    <2>6. \A q \in Participants \ {p} : SameVersions(q)
        BY <1>0, <2>1, <2>2, <2>3, SubmitLogVersions DEF SameVersions, SameAt, TypeOK
    <2>. QED
        BY <2>5, <2>6, OneVersion
<1>3. CASE forceAbort[p] /\ upstream[p] # PREPARE
    <2>1. CompensateAbort(p) /\ UNCHANGED prepareVersion
        BY <1>3 DEF EnterPrepare
    <2>2. VersionStep(p)
        BY <1>0, <1>1, <2>1
        DEF CompensateAbort, VersionStep, LogVersionStep, PrepareVersionStep,
            CommitVersionStep, Promised, Locked, CommitMark, TypeOK
    <2>3. \A q \in Participants \ {p} : SameVersions(q)
        BY <1>0, <2>1 DEF CompensateAbort, SameVersions, SameAt, TypeOK
    <2>. QED
        BY <2>2, <2>3, OneVersion
<1>. QED
    BY <1>2, <1>3

\* A phase change after the prepare phase logs no version.
LEMMA DriveSelfVersions ==
    ASSUME TypeOK, NEW p \in Participants, NEW acks, NEW pv, NEW down,
           NEW phase \in {PRE_COMMIT, COMMIT, ABORT, CLEAR},
           DriveSelf(p, phase, down, pv, acks)
    PROVE  /\ UNCHANGED logVersion
           /\ upstream'[p] = phase /\ logging'[p] # PREPARE
           /\ \A q \in Participants \ {p} :
                upstream'[q] = upstream[q] /\ logging'[q] = logging[q]
<1>1. UNCHANGED logVersion
    BY DEF DriveSelf, SubmitLog
<1>. QED
    BY <1>1, DriveSelfEffect

\* Entering PRE_COMMIT, seen from p and from the others.
LEMMA EnterPreCommitVersions ==
    ASSUME TypeOK, NEW p \in Participants, NEW cv, NEW m, EnterPreCommit(p, cv, m)
    PROVE  /\ UNCHANGED logVersion
           /\ downstream'[p] = PRE_COMMIT /\ commitVersion'[p] = cv
           /\ logging'[p] # PREPARE
           /\ \A q \in Participants \ {p} :
                /\ upstream'[q] = upstream[q] /\ logging'[q] = logging[q]
                /\ downstream'[q] = downstream[q]
                /\ commitVersion'[q] = commitVersion[q]
<1>1. /\ DriveSelf(p, PRE_COMMIT, PREPARE, 0, {})
      /\ downstream' = [downstream EXCEPT ![p] = PRE_COMMIT]
      /\ commitVersion' = [commitVersion EXCEPT ![p] = cv]
    BY DEF EnterPreCommit
<1>. QED
    BY <1>1, DriveSelfVersions DEF TypeOK

\* A commit request or response that reaches p with the version v.
LEMMA TakesVersion ==
    ASSUME TypeOK, NEW p \in Participants, NEW v \in Version, HeardVersion(v),
           commitVersion'[p] = MaxOf(commitVersion[p], v),
           prepareVersion'[p] = prepareVersion[p], logVersion'[p] = logVersion[p],
           Promised(p)' => Promised(p)
    PROVE  VersionStep(p)
BY DEF VersionStep, LogVersionStep, PrepareVersionStep, CommitVersionStep

\* A step of p that is about no version.
LEMMA KeepsVersions ==
    ASSUME NEW p \in Participants, commitVersion'[p] = commitVersion[p],
           prepareVersion'[p] = prepareVersion[p], logVersion'[p] = logVersion[p],
           Promised(p)' => Promised(p), CommitMark(p)' => CommitMark(p)
    PROVE  VersionStep(p)
BY DEF VersionStep, LogVersionStep, PrepareVersionStep, CommitVersionStep

\* A request reaches a participant below the root.
LEMMA HandleReqVersions ==
    ASSUME LocalInv, Flat, NEW m \in msgs, HandleReq(m)
    PROVE  \A q \in Participants : VersionStep(q)
<1> DEFINE p == m.to
<1>0. TypeOK /\ p \in Participants /\ CtxOK(p) /\ alive[p] /\ p # Root
    BY MessageFields DEF LocalInv, HandleReq, FollowTree
<1>1. /\ m.version \in Version
      /\ m.phase \in {PRE_COMMIT, COMMIT} => HeardVersion(m.version)
    BY <1>0, MessageFields DEF HeardVersion
<1> HIDE DEF p
<1>2. CASE \E state : Ignore(m) \/ AnswerReq(m, state)
    BY <1>2, QuietVersion DEF Ignore, AnswerReq, phaseVars, lifeVars, versionVars
<1>3. CASE HandlePrepareReq(m)
    BY <1>0, <1>2, <1>3, EnterPrepareVersions DEF HandlePrepareReq, rootVars, p
<1>4. CASE m.phase = PRE_COMMIT /\ HandlePreCommitReq(m)
    <2> DEFINE cv == MaxOf(commitVersion[p], m.version)
    <2>1. CASE /\ UNCHANGED <<phaseVars, downstream, alive, forceAbort, outcome,
                              prepareVersion>>
               /\ commitVersion' = [commitVersion EXCEPT ![p] = cv]
        <3>1. commitVersion'[p] = cv
            BY <1>0, <2>1 DEF TypeOK
        <3>2. VersionStep(p)
            BY <1>0, <1>1, <1>4, <2>1, <3>1, TakesVersion DEF phaseVars, Promised, Locked
        <3>3. \A q \in Participants \ {p} : SameVersions(q)
            BY <1>0, <2>1 DEF phaseVars, SameVersions, SameAt, TypeOK
        <3>. QED
            BY <1>0, <3>2, <3>3, OneVersion
    <2>2. CASE /\ EnterPreCommit(p, cv, m)
               /\ downstream[p] = PREPARE
               /\ UNCHANGED <<alive, forceAbort, outcome, prepareVersion>>
        <3>1. VersionStep(p)
            BY <1>0, <1>1, <1>4, <2>2, EnterPreCommitVersions, TakesVersion
            DEF Promised, Locked
        <3>2. \A q \in Participants \ {p} : SameVersions(q)
            BY <1>0, <2>2, EnterPreCommitVersions DEF SameVersions, SameAt
        <3>. QED
            BY <1>0, <3>1, <3>2, OneVersion
    <2>. QED
        BY <1>2, <1>4, <2>1, <2>2 DEF HandlePreCommitReq, p
<1>5. CASE m.phase = COMMIT /\ HandleCommitReq(m)
    <2>1. CASE /\ downstream[p] \in {PREPARE, PRE_COMMIT}
               /\ commitVersion' = [commitVersion EXCEPT ![p] = MaxOf(@, m.version)]
               /\ DriveSelf(p, COMMIT, downstream[p], 0, {})
               /\ UNCHANGED <<prepareVersion, lifeVars>>
        <3>1. commitVersion'[p] = MaxOf(commitVersion[p], m.version)
            BY <1>0, <2>1 DEF TypeOK
        <3>2. VersionStep(p)
            BY <1>0, <1>1, <1>5, <2>1, <3>1, DriveSelfVersions, TakesVersion
            DEF lifeVars, Promised, Locked
        <3>3. \A q \in Participants \ {p} : SameVersions(q)
            BY <1>0, <2>1, DriveSelfVersions DEF lifeVars, SameVersions, SameAt, TypeOK
        <3>. QED
            BY <1>0, <3>2, <3>3, OneVersion
    <2>. QED
        BY <1>2, <1>5, <2>1 DEF HandleCommitReq, p
<1>6. ASSUME NEW phase \in {ABORT, CLEAR}, DriveSelf(p, phase, downstream[p], 0, {}),
             UNCHANGED <<versionVars, lifeVars>>
      PROVE  \A q \in Participants : VersionStep(q)
    <2>1. VersionStep(p)
        BY <1>0, <1>6, DriveSelfVersions, KeepsVersions
        DEF versionVars, lifeVars, Promised, Locked, CommitMark
    <2>2. \A q \in Participants \ {p} : SameVersions(q)
        BY <1>0, <1>6, DriveSelfVersions DEF versionVars, lifeVars, SameVersions, SameAt
    <2>. QED
        BY <1>0, <2>1, <2>2, OneVersion
<1>7. CASE HandleAbortReq(m) \/ HandleClearReq(m)
    BY <1>2, <1>6, <1>7 DEF HandleAbortReq, HandleClearReq, p
<1>. QED
    BY <1>3, <1>4, <1>5, <1>7 DEF HandleReq

\* The root waits for gts: its prepare version becomes the commit version.
LEMMA SettlesVersion ==
    ASSUME TypeOK, Root \in Participants, Settles,
           logVersion'[Root] = logVersion[Root],
           PrepareVersionStep(Root)
    PROVE  VersionStep(Root)
BY DEF VersionStep, LogVersionStep, CommitVersionStep

\* A response reaches the root.
LEMMA HandleRespVersions ==
    ASSUME LocalInv, Flat, VersionInv, NEW m \in msgs, HandleResp(m)
    PROVE  \A q \in Participants : VersionStep(q)
<1>0. /\ TypeOK /\ m.to = Root /\ Root \in Participants /\ CtxOK(Root) /\ alive[Root]
      /\ m.from \in Participants \ {Root} /\ m.kind = "RESP" /\ m.version \in Version
      /\ Downstream(Root) = Participants \ {Root}
    BY RespToRoot, FlatTree, TreeAssumption, MessageFields DEF LocalInv, HandleResp
<1>1. /\ m.phase = PREPARE => SaidVersion(m.from, m.version)
      /\ m.phase \in {PRE_COMMIT, COMMIT} => HeardVersion(m.version)
      /\ m.phase = ABORT => m.version = 0
    BY <1>0 DEF SaidVersion, HeardVersion, VersionInv, MessageVersionOK
<1>2. CASE Ignore(m) \/ Remind(m)
    BY <1>2, QuietVersion DEF Ignore, Remind, phaseVars, lifeVars, versionVars
<1>3. CASE m.phase = PREPARE /\ upstream[Root] = PREPARE /\ PrepareRespImpl(m)
    <2> DEFINE pv == MaxOf(prepareVersion[Root], m.version)
    <2>1. /\ prepareVersion'[Root] = pv
          /\ \A q \in Participants \ {Root} : prepareVersion'[q] = prepareVersion[q]
          /\ UNCHANGED <<alive, forceAbort, outcome>>
        BY <1>0, <1>3 DEF PrepareRespImpl, TypeOK
    <2>2. pv >= prepareVersion[Root] /\ pv >= m.version
        BY <1>0, VersionNat DEF MaxOf
    <2>3. /\ Promised(Root)' /\ Promised(Root) /\ logVersion'[Root] = logVersion[Root]
             => PrepareVersionStep(Root)
          /\ ~Promised(Root)' => PrepareVersionStep(Root)
        BY <1>0, <1>1, <1>3, <2>1 DEF PrepareVersionStep
    <2>4. CompletesPhase(m) => \A q \in Participants \ {Root} : Counted(q)
        <3>1. Counted(m.from)
            BY <1>0, <1>1, <1>3, <2>1, <2>2 DEF Counted
        <3>2. \A q \in collected[Root] : Counted(q)
            BY <1>3, <2>1, <2>2 DEF Counted
        <3>. QED
            BY <1>0, <3>1, <3>2 DEF CompletesPhase
    <2> HIDE DEF pv
    <2>5. CASE CollectOnly(m) /\ UNCHANGED <<downstream, commitVersion>>
        <3>1. UNCHANGED <<upstream, logging, logVersion, downstream, commitVersion>>
            BY <2>5 DEF CollectOnly
        <3>2. VersionStep(Root)
            BY <2>1, <2>3, <3>1
            DEF VersionStep, LogVersionStep, CommitVersionStep, Promised, Locked, CommitMark
        <3>3. \A q \in Participants \ {Root} : SameVersions(q)
            BY <2>1, <3>1 DEF SameVersions, SameAt
        <3>. QED
            BY <1>0, <3>2, <3>3, OneVersion
    <2>6. CASE /\ downstream[Root] = PREPARE /\ CompletesPhase(m)
               /\ EnterPreCommit(Root, pv, m)
        <3>1. Settles
            BY <1>0, <2>1, <2>4, <2>6, EnterPreCommitVersions
            DEF Settles, Promised, Locked
        <3>2. VersionStep(Root)
            BY <1>0, <2>3, <2>6, <3>1, SettlesVersion, EnterPreCommitVersions
            DEF Promised, Locked
        <3>3. \A q \in Participants \ {Root} : SameVersions(q)
            BY <1>0, <2>1, <2>6, EnterPreCommitVersions DEF SameVersions, SameAt
        <3>. QED
            BY <1>0, <3>2, <3>3, OneVersion
    <2>7. CASE /\ downstream[Root] = PREPARE /\ CompletesPhase(m)
               /\ WaitGts(Root, pv) /\ CollectOnly(m) /\ UNCHANGED downstream
        <3>0. /\ UNCHANGED <<upstream, logging, logVersion, downstream>>
              /\ commitVersion'[Root] = pv
              /\ \A q \in Participants \ {Root} : commitVersion'[q] = commitVersion[q]
            BY <1>0, <2>7 DEF CollectOnly, WaitGts, TypeOK
        <3>1. Settles
            BY <1>0, <2>1, <2>4, <2>7, <3>0 DEF Settles, Promised, Locked
        <3>2. VersionStep(Root)
            BY <1>0, <2>3, <2>7, <3>0, <3>1, SettlesVersion DEF Promised, Locked
        <3>3. \A q \in Participants \ {Root} : SameVersions(q)
            BY <2>1, <3>0 DEF SameVersions, SameAt
        <3>. QED
            BY <1>0, <3>2, <3>3, OneVersion
    <2>. QED
        BY <1>0, <1>3, <2>5, <2>6, <2>7 DEF PrepareRespImpl, IsRoot, pv
<1>4. CASE m.phase = PRE_COMMIT /\ PreCommitRespImpl(m)
    <2>1. /\ prepareVersion'[Root] = MaxOf(prepareVersion[Root], m.version)
          /\ commitVersion'[Root] = MaxOf(commitVersion[Root], m.version)
          /\ \A q \in Participants \ {Root} : /\ prepareVersion'[q] = prepareVersion[q]
                                            /\ commitVersion'[q] = commitVersion[q]
          /\ UNCHANGED <<alive, downstream, forceAbort, outcome>>
        BY <1>0, <1>4 DEF PreCommitRespImpl, lifeVars, TypeOK
    <2>2. /\ UNCHANGED logVersion
          /\ logging'[Root] = PREPARE => logging[Root] = PREPARE
          /\ \A q \in Participants \ {Root} : /\ upstream'[q] = upstream[q]
                                            /\ logging'[q] = logging[q]
        BY <1>0, <1>4, DriveSelfVersions DEF PreCommitRespImpl
    <2>3. VersionStep(Root)
        BY <1>0, <1>1, <1>4, <2>1, <2>2
        DEF VersionStep, LogVersionStep, PrepareVersionStep, CommitVersionStep,
            Promised, Locked
    <2>4. \A q \in Participants \ {Root} : SameVersions(q)
        BY <2>1, <2>2 DEF SameVersions, SameAt
    <2>. QED
        BY <1>0, <2>3, <2>4, OneVersion
<1>5. CASE m.phase \in {COMMIT, ABORT} /\ AckRespImpl(m)
    <2>1. /\ commitVersion'[Root] = MaxOf(commitVersion[Root], m.version)
          /\ \A q \in Participants \ {Root} : commitVersion'[q] = commitVersion[q]
          /\ UNCHANGED <<prepareVersion, alive, downstream, forceAbort, outcome>>
        BY <1>0, <1>5 DEF AckRespImpl, lifeVars, TypeOK
    <2>2. /\ UNCHANGED logVersion
          /\ logging'[Root] = PREPARE => logging[Root] = PREPARE
          /\ upstream'[Root] = upstream[Root] \/ upstream'[Root] = CLEAR
          /\ \A q \in Participants \ {Root} : /\ upstream'[q] = upstream[q]
                                            /\ logging'[q] = logging[q]
        BY <1>0, <1>5, DriveSelfVersions DEF AckRespImpl, CollectOnly, FinishPhase, IsRoot
    <2>3. VersionStep(Root)
        <3>1. CASE m.phase = COMMIT
            BY <1>0, <1>1, <2>1, <2>2, <3>1, TakesVersion DEF Promised, Locked
        <3>2. CASE m.phase = ABORT
            <4>1. commitVersion'[Root] = commitVersion[Root]
                BY <1>0, <1>1, <2>1, <3>2, VersionNat DEF MaxOf
            <4>. QED
                BY <1>0, <2>1, <2>2, <4>1, KeepsVersions DEF Promised, Locked, CommitMark
        <3>. QED
            BY <1>5, <3>1, <3>2
    <2>4. \A q \in Participants \ {Root} : SameVersions(q)
        BY <2>1, <2>2 DEF SameVersions, SameAt
    <2>. QED
        BY <1>0, <2>3, <2>4, OneVersion
<1>6. CASE AbortRespImpl(m)
    <2>1. CASE /\ DriveSelf(Root, ABORT, downstream[Root], 0, {m.from})
               /\ UNCHANGED <<versionVars, lifeVars>>
        <3>1. VersionStep(Root)
            BY <1>0, <2>1, DriveSelfVersions, KeepsVersions
            DEF versionVars, lifeVars, Promised, Locked, CommitMark
        <3>2. \A q \in Participants \ {Root} : SameVersions(q)
            BY <1>0, <2>1, DriveSelfVersions DEF versionVars, lifeVars, SameVersions, SameAt
        <3>. QED
            BY <1>0, <3>1, <3>2, OneVersion
    <2>. QED
        BY <1>0, <1>2, <1>6, <2>1 DEF AbortRespImpl
<1>. QED
    BY <1>0, <1>2, <1>3, <1>4, <1>5, <1>6
    DEF HandleResp, HandlePrepareResp, HandlePreCommitResp, HandleCommitResp,
        HandleAbortResp

\* The log callbacks.
LEMMA LogSyncedVersions ==
    ASSUME LocalInv, Flat, NEW p \in Participants, LogSynced(p)
    PROVE  \A q \in Participants : VersionStep(q)
<1>0. /\ TypeOK /\ CtxOK(p) /\ alive[p] /\ Root \in Participants
      /\ Downstream(Root) = Participants \ {Root}
    BY FlatTree, TreeAssumption DEF LocalInv, LogSynced
<1>1. CASE ApplyPrepareLog(p)
    <2>1. /\ logging[p] = PREPARE /\ upstream[p] = PREPARE
          /\ UNCHANGED <<alive, forceAbort, outcome, prepareVersion>>
        BY <1>1 DEF ApplyPrepareLog
    <2>2. AllCollected(p) /\ p = Root => \A q \in Participants \ {Root} : Counted(q)
        BY <1>0, <2>1, VersionNat DEF AllCollected, Counted
    <2>3. CASE /\ p = Root /\ AllCollected(p)
               /\ EnterPreCommit(p, prepareVersion[p], NoMsg)
        <3>1. Settles
            BY <1>0, <2>1, <2>2, <2>3, EnterPreCommitVersions
            DEF Settles, Promised, Locked
        <3>2. VersionStep(Root)
            BY <1>0, <2>1, <2>3, <3>1, SettlesVersion, EnterPreCommitVersions
            DEF PrepareVersionStep, Promised
        <3>3. \A q \in Participants \ {p} : SameVersions(q)
            BY <1>0, <2>1, <2>3, EnterPreCommitVersions DEF SameVersions, SameAt
        <3>. QED
            BY <1>0, <2>3, <3>2, <3>3, OneVersion
    <2>4. CASE /\ downstream' = [downstream EXCEPT ![p] = PREPARE]
               /\ logging' = [logging EXCEPT ![p] = NONE]
               /\ AllCollected(p) /\ p = Root /\ WaitGts(p, prepareVersion[p])
               /\ UNCHANGED <<upstream, logVersion>>
        <3>0. /\ downstream'[p] = PREPARE /\ commitVersion'[p] = prepareVersion[p]
              /\ \A q \in Participants \ {p} :
                    /\ downstream'[q] = downstream[q] /\ logging'[q] = logging[q]
                    /\ commitVersion'[q] = commitVersion[q]
            BY <1>0, <2>4 DEF WaitGts, TypeOK
        <3>1. Settles
            BY <2>1, <2>2, <2>4, <3>0 DEF Settles, Promised, Locked
        <3>2. VersionStep(Root)
            BY <1>0, <2>1, <2>4, <3>1, SettlesVersion DEF PrepareVersionStep, Promised
        <3>3. \A q \in Participants \ {p} : SameVersions(q)
            BY <2>1, <2>4, <3>0 DEF SameVersions, SameAt
        <3>. QED
            BY <1>0, <2>4, <3>2, <3>3, OneVersion
    <2>5. CASE /\ downstream' = [downstream EXCEPT ![p] = PREPARE]
               /\ logging' = [logging EXCEPT ![p] = NONE]
               /\ UNCHANGED <<upstream, logVersion, commitVersion>>
        <3>0. /\ downstream'[p] = PREPARE
              /\ \A q \in Participants \ {p} :
                    downstream'[q] = downstream[q] /\ logging'[q] = logging[q]
            BY <1>0, <2>5 DEF TypeOK
        <3>1. VersionStep(p)
            BY <2>1, <2>5, <3>0, KeepsVersions DEF Promised, CommitMark
        <3>2. \A q \in Participants \ {p} : SameVersions(q)
            BY <2>1, <2>5, <3>0 DEF SameVersions, SameAt
        <3>. QED
            BY <3>1, <3>2, OneVersion
    <2>. QED
        BY <1>1, <2>3, <2>4, <2>5 DEF ApplyPrepareLog, IsRoot
<1>2. ASSUME NEW down \in {COMMIT, ABORT}, logging[p] = down,
             downstream' = [downstream EXCEPT ![p] = down],
             outcome' = [outcome EXCEPT ![p] =
                            IF down = COMMIT THEN "commit" ELSE "abort"],
             \/ FinishPhase(p, down, down, {}, NoMsg)
             \/ /\ logging' = [logging EXCEPT ![p] = NONE]
                /\ UNCHANGED <<upstream, logVersion>>,
             UNCHANGED <<alive, forceAbort, prepareVersion, commitVersion>>
      PROVE  \A q \in Participants : VersionStep(q)
    <2>1. /\ downstream'[p] = down /\ upstream[p] = down
          /\ outcome'[p] = (IF down = COMMIT THEN "commit" ELSE "abort")
          /\ \A q \in Participants \ {p} : /\ downstream'[q] = downstream[q]
                                         /\ outcome'[q] = outcome[q]
        BY <1>0, <1>2 DEF TypeOK, CtxOK, LogOK
    <2>2. /\ UNCHANGED logVersion /\ logging'[p] # PREPARE
          /\ upstream'[p] = upstream[p] \/ upstream'[p] = CLEAR
          /\ \A q \in Participants \ {p} : /\ upstream'[q] = upstream[q]
                                         /\ logging'[q] = logging[q]
        <3>1. CASE FinishPhase(p, down, down, {}, NoMsg) /\ IsRoot(p)
            BY <1>0, <3>1, DriveSelfVersions DEF FinishPhase
        <3>2. CASE FinishPhase(p, down, down, {}, NoMsg) /\ ~IsRoot(p)
            BY <1>0, <3>2 DEF FinishPhase, TypeOK
        <3>. QED
            BY <1>0, <1>2, <3>1, <3>2 DEF TypeOK
    <2>3. /\ Promised(p)' => Promised(p)
          /\ CommitMark(p)' => CommitMark(p)
        BY <1>0, <1>2, <2>1, <2>2 DEF Promised, Locked, CommitMark, CtxOK, LogOK, TypeOK
    <2>4. VersionStep(p)
        BY <1>2, <2>2, <2>3, KeepsVersions
    <2>5. \A q \in Participants \ {p} : SameVersions(q)
        BY <1>2, <2>1, <2>2 DEF SameVersions, SameAt
    <2>. QED
        BY <2>4, <2>5, OneVersion
<1>3. CASE ApplyCommitLog(p)
    BY <1>2, <1>3 DEF ApplyCommitLog, versionVars
<1>4. CASE ApplyAbortLog(p) /\ ~forceAbort[p]
    BY <1>2, <1>4 DEF ApplyAbortLog, versionVars
<1>5. CASE ApplyAbortLog(p) /\ forceAbort[p]
    <2>1. ExitAborted(p) /\ UNCHANGED <<upstream, forceAbort, logVersion, versionVars>>
        BY <1>5 DEF ApplyAbortLog
    <2>2. downstream'[p] = ABORT /\ outcome'[p] = "abort" /\ logging'[p] = NONE
        BY <1>0, <2>1 DEF ExitAborted, TypeOK
    <2>3. VersionStep(p)
        BY <2>1, <2>2, KeepsVersions DEF versionVars, Promised, Locked, CommitMark
    <2>4. \A q \in Participants \ {p} : SameVersions(q)
        BY <1>0, <2>1 DEF ExitAborted, TypeOK, SameVersions, SameAt, versionVars
    <2>. QED
        BY <2>3, <2>4, OneVersion
<1>6. CASE ApplyClearLog(p)
    <2>1. /\ downstream'[p] = CLEAR /\ logging'[p] = NONE
          /\ UNCHANGED <<upstream, logVersion, versionVars, forceAbort, outcome>>
        BY <1>0, <1>6 DEF ApplyClearLog, TypeOK
    <2>2. VersionStep(p)
        BY <2>1, KeepsVersions DEF versionVars, Promised, Locked, CommitMark
    <2>3. \A q \in Participants \ {p} : SameVersions(q)
        BY <1>0, <1>6, <2>1 DEF ApplyClearLog, TypeOK, SameVersions, SameAt, versionVars
    <2>. QED
        BY <2>2, <2>3, OneVersion
<1>. QED
    BY <1>1, <1>3, <1>4, <1>5, <1>6 DEF LogSynced

\* An exit without having prepared takes no version along.
LEMMA ExitAbortedVersions ==
    ASSUME LocalInv, NEW p \in Participants, ExitAborted(p),
           UNCHANGED <<upstream, logVersion, versionVars>>,
           \A q \in Participants \ {p} : forceAbort'[q] = forceAbort[q]
    PROVE  \A q \in Participants : VersionStep(q)
<1>0. TypeOK
    BY DEF LocalInv
<1>1. downstream'[p] = ABORT /\ outcome'[p] = "abort" /\ logging'[p] = NONE
    BY <1>0 DEF ExitAborted, TypeOK
<1>2. VersionStep(p)
    BY <1>1, KeepsVersions DEF versionVars, Promised, Locked, CommitMark
<1>3. \A q \in Participants \ {p} : SameVersions(q)
    BY <1>0 DEF ExitAborted, TypeOK, SameVersions, SameAt, versionVars
<1>. QED
    BY <1>2, <1>3, OneVersion

LEMMA LocalVersions ==
    ASSUME LocalInv, NEW p \in Participants,
           CommitInfoSynced(p) \/ LogFailed(p) \/ LocalAbort(p)
    PROVE  \A q \in Participants : VersionStep(q)
<1>0. TypeOK /\ CtxOK(p) /\ alive[p]
    BY DEF LocalInv, CommitInfoSynced, LogFailed, LocalAbort
<1>1. CASE CommitInfoSynced(p)
    <2>1. /\ downstream'[p] = REDO_COMPLETE /\ downstream[p] = INIT
          /\ UNCHANGED <<alive, upstream, logging, logVersion, versionVars, forceAbort,
                         outcome>>
        BY <1>0, <1>1 DEF CommitInfoSynced, TypeOK, phaseVars
    <2>2. VersionStep(p)
        BY <2>1, KeepsVersions DEF versionVars, Promised, Locked, CommitMark
    <2>3. \A q \in Participants \ {p} : SameVersions(q)
        BY <1>0, <1>1, <2>1 DEF CommitInfoSynced, SameVersions, SameAt, TypeOK, versionVars
    <2>. QED
        BY <2>2, <2>3, OneVersion
<1>2. CASE LogFailed(p)
    <2>1. CASE ExitAborted(p)
        BY <1>2, <2>1, ExitAbortedVersions DEF LogFailed
    <2>2. CASE /\ logging' = [logging EXCEPT ![p] = NONE]
               /\ UNCHANGED <<alive, upstream, downstream, forceAbort, outcome,
                              logVersion, versionVars>>
        <3>1. logging'[p] = NONE
            BY <1>0, <2>2 DEF TypeOK
        <3>2. VersionStep(p)
            BY <2>2, <3>1, KeepsVersions DEF versionVars, Promised, Locked, CommitMark
        <3>3. \A q \in Participants \ {p} : SameVersions(q)
            BY <1>0, <2>2 DEF SameVersions, SameAt, TypeOK, versionVars
        <3>. QED
            BY <3>2, <3>3, OneVersion
    <2>. QED
        BY <1>2, <2>1, <2>2 DEF LogFailed
<1>3. CASE LocalAbort(p)
    <2>1. CASE /\ ExitAborted(p) /\ UNCHANGED <<upstream, logVersion, versionVars>>
               /\ forceAbort' = [forceAbort EXCEPT ![p] = TRUE]
        BY <1>0, <2>1, ExitAbortedVersions DEF TypeOK
    <2>2. CASE CompensateAbort(p) /\ UNCHANGED <<alive, downstream, outcome, versionVars>>
        <3>1. /\ upstream'[p] = ABORT /\ logging'[p] \in {ABORT, NONE}
              /\ UNCHANGED logVersion
            BY <1>0, <2>2 DEF CompensateAbort, TypeOK
        <3>2. VersionStep(p)
            BY <2>2, <3>1, KeepsVersions DEF versionVars, Promised, Locked, CommitMark
        <3>3. \A q \in Participants \ {p} : SameVersions(q)
            BY <1>0, <2>2 DEF CompensateAbort, TypeOK, SameVersions, SameAt, versionVars
        <3>. QED
            BY <3>2, <3>3, OneVersion
    <2>. QED
        BY <1>3, <2>1, <2>2 DEF LocalAbort
<1>. QED
    BY <1>1, <1>2, <1>3

\* The scheduler, gts and the timers.
LEMMA DriverVersions ==
    ASSUME LocalInv, Flat,
           \/ CommitRequest \/ CommitRequestOnTxTable \/ GtsElapsed
           \/ \E p \in Participants : Timeout(p)
    PROVE  \A q \in Participants : VersionStep(q)
<1>0. /\ TypeOK /\ Root \in Participants /\ CtxOK(Root)
      /\ Downstream(Root) = Participants \ {Root}
    BY TreeAssumption, FlatTree DEF LocalInv
<1>1. CASE CommitRequest
    <2>0. UNCHANGED <<commitVersion, alive, downstream, outcome>> /\ alive[Root] /\ ~Busy(Root)
        BY <1>1 DEF CommitRequest
    <2>1. CASE UNCHANGED <<phaseVars, prepareVersion, forceAbort>>
        BY <2>0, <2>1, QuietVersion DEF phaseVars
    <2>2. CASE EnterPrepare(Root, NoMsg) /\ downstream[Root] \in {INIT, REDO_COMPLETE}
        BY <1>0, <2>0, <2>2, EnterPrepareVersions
    <2>. QED
        BY <1>1, <2>1, <2>2 DEF CommitRequest
<1>2. CASE CommitRequestOnTxTable
    BY <1>2, QuietVersion DEF CommitRequestOnTxTable, phaseVars, lifeVars, versionVars
<1>3. CASE GtsElapsed
    <2>1. /\ downstream[Root] = PREPARE /\ upstream[Root] = PREPARE
          /\ collected[Root] = Downstream(Root)
          /\ EnterPreCommit(Root, prepareVersion[Root], NoMsg)
          /\ UNCHANGED <<prepareVersion, alive, forceAbort, outcome>>
        BY <1>3 DEF GtsElapsed, LocalInv, GtsOK
    <2>2. \A q \in Participants \ {Root} : Counted(q)
        BY <1>0, <2>1, VersionNat DEF Counted
    <2>3. Settles
        BY <1>0, <2>1, <2>2, EnterPreCommitVersions DEF Settles, Promised, Locked
    <2>4. VersionStep(Root)
        BY <1>0, <2>1, <2>3, SettlesVersion, EnterPreCommitVersions
        DEF PrepareVersionStep, Promised, Locked
    <2>5. \A q \in Participants \ {Root} : SameVersions(q)
        BY <1>0, <2>1, EnterPreCommitVersions DEF SameVersions, SameAt
    <2>. QED
        BY <1>0, <2>4, <2>5, OneVersion
<1>4. ASSUME NEW p \in Participants, Timeout(p)
      PROVE  \A q \in Participants : VersionStep(q)
    <2>0. CtxOK(p) /\ alive[p] /\ UNCHANGED <<alive, downstream, outcome, commitVersion>>
        BY <1>4 DEF LocalInv, Timeout
    <2>1. CASE EnterPrepare(p, NoMsg) /\ downstream[p] = REDO_COMPLETE /\ ~Busy(p)
        BY <2>0, <2>1, EnterPrepareVersions
    <2>2. CASE UNCHANGED <<upstream, logging, logVersion, prepareVersion, forceAbort>>
        BY <2>0, <2>2, QuietVersion
    <2>3. CASE /\ ~Busy(p) /\ SubmitLog(p, downstream[p], upstream[p], prepareVersion[p])
               /\ UNCHANGED <<upstream, prepareVersion, forceAbort>>
        <3>1. /\ logging[p] = NONE
              /\ logging'[p] = PREPARE => /\ downstream[p] < PREPARE
                                          /\ logVersion'[p] = prepareVersion'[p]
              /\ logging'[p] # PREPARE => logVersion'[p] = logVersion[p]
            BY <1>0, <2>3, SubmitLogVersions DEF Busy, NeedLog
        <3>2. VersionStep(p)
            BY <2>0, <2>3, <3>1
            DEF VersionStep, LogVersionStep, PrepareVersionStep, CommitVersionStep,
                Promised, Locked, CommitMark
        <3>3. \A q \in Participants \ {p} : SameVersions(q)
            BY <1>0, <2>0, <2>3, SubmitLogVersions DEF SameVersions, SameAt
        <3>. QED
            BY <3>2, <3>3, OneVersion
    <2>. QED
        BY <1>4, <2>1, <2>2, <2>3 DEF Timeout
<1>. QED
    BY <1>1, <1>2, <1>3, <1>4

\* A new leader has the version of the log or the one of its predecessor, and
\* no commit version unless it has seen the commit.
LEMMA FailoverVersions ==
    ASSUME LocalInv, NEW p \in Participants, Failover(p)
    PROVE  \A q \in Participants : VersionStep(q)
<1>0. TypeOK /\ CtxOK(p) /\ alive[p] /\ UNCHANGED logVersion
    BY DEF LocalInv, Failover
<1>1. CASE ExitAborted(p) /\ UNCHANGED <<upstream, versionVars, forceAbort>>
    BY <1>0, <1>1, ExitAbortedVersions
<1>2. ASSUME NEW d \in RecoveredStates(p), RecoverFrom(p, d),
             logging' = [logging EXCEPT ![p] = NONE],
             \A q \in Participants \ {p} : forceAbort'[q] = forceAbort[q]
      PROVE  \A q \in Participants : VersionStep(q)
    <2>1. /\ downstream'[p] = d /\ upstream'[p] = d /\ logging'[p] = NONE
          /\ outcome'[p] = IF d = COMMIT THEN "commit"
                           ELSE IF d = ABORT THEN "abort" ELSE outcome[p]
          /\ commitVersion'[p] = IF d <= PREPARE THEN 0 ELSE commitVersion[p]
        BY <1>0, <1>2 DEF RecoverFrom, TypeOK
    <2>2. d >= PREPARE => prepareVersion'[p] \in {logVersion[p], prepareVersion[p]}
        BY <1>0, <1>2 DEF RecoverFrom, TypeOK
    <2>3. \A q \in Participants \ {p} : SameVersions(q)
        <3>1. \A q \in Participants \ {p} : prepareVersion'[q] = prepareVersion[q]
            BY <1>0, <1>2 DEF RecoverFrom, TypeOK
        <3>. QED
            BY <1>0, <1>2, <3>1 DEF RecoverFrom, TypeOK, SameVersions, SameAt
    <2>4. /\ d \in TxState
          /\ d = downstream[p] \/ d = PREPARE \/ d = logging[p]
        BY <1>0 DEF RecoveredStates, TypeOK, StateLog, TxState
    <2>5. /\ d = PREPARE => Promised(p)
          /\ outcome[p] = "commit" => d \in {COMMIT, CLEAR}
        BY <1>0
        DEF RecoveredStates, Promised, Locked, CtxOK, LifeOK, LogOK, TypeOK, StateLog
    <2>6. d \in {PRE_COMMIT, COMMIT} => CommitMark(p) /\ Promised(p)
        <3>1. d # PREPARE => d = downstream[p] \/ (d = COMMIT /\ logging[p] = COMMIT)
                                              \/ d \in {ABORT, CLEAR}
            BY <1>0, <2>4 DEF TypeOK, StateLog, TxState
        <3>. QED
            BY <1>0, <3>1 DEF CommitMark, Promised, Locked, CtxOK, LifeOK, LogOK, TypeOK
    <2>7. Promised(p)' => Promised(p) /\ d >= PREPARE
        BY <2>1, <2>4, <2>5, <2>6 DEF Promised, Locked, TxState
    <2>8. CommitMark(p)' => CommitMark(p) /\ d > PREPARE
        BY <2>1, <2>4, <2>5, <2>6 DEF CommitMark, TxState
    <2>9. VersionStep(p)
        <3>1. LogVersionStep(p) /\ PrepareVersionStep(p)
            BY <1>0, <2>2, <2>7 DEF LogVersionStep, PrepareVersionStep
        <3>2. CommitVersionStep(p)
            <4>1. CASE d <= PREPARE
                BY <2>1, <2>4, <2>8, <4>1 DEF CommitVersionStep, TxState
            <4>2. CASE ~(d <= PREPARE)
                BY <2>1, <2>8, <4>2 DEF CommitVersionStep
            <4>. QED
                BY <4>1, <4>2
        <3>. QED
            BY <3>1, <3>2 DEF VersionStep
    <2>. QED
        BY <2>3, <2>9, OneVersion
<1>. QED
    BY <1>0, <1>1, <1>2 DEF Failover, TypeOK

\* What a step can do to the versions.
LEMMA NextVersions ==
    ASSUME LocalInv, Flat, VersionInv, Next
    PROVE  \A q \in Participants : VersionStep(q)
<1>1. ASSUME NEW m \in msgs, Receive(m) \/ Lose(m)
      PROVE  \A q \in Participants : VersionStep(q)
    BY <1>1, HandleReqVersions, HandleRespVersions, QuietVersion
    DEF Receive, HandleOrphan, Lose, phaseVars, lifeVars, versionVars
<1>. QED
    BY <1>1, LogSyncedVersions, LocalVersions, DriverVersions, FailoverVersions DEF Next

-----------------------------------------------------------------------------
(* The acknowledgements of the root and their versions *)

AckVersionStep == upstream'[Root] = PREPARE => \A q \in collected'[Root] : Counted(q)

LEMMA FrameAckVersion ==
    ASSUME TypeOK, Root \in Participants,
           \/ /\ upstream'[Root] = upstream[Root] /\ collected'[Root] = collected[Root]
              /\ prepareVersion'[Root] = prepareVersion[Root]
           \/ upstream'[Root] # PREPARE
           \/ collected'[Root] = {}
    PROVE  AckVersionStep
BY VersionNat DEF AckVersionStep, Counted

\* Entering a phase anew starts with no acknowledgement.
LEMMA DriveSelfAckVersion ==
    ASSUME TypeOK, Root \in Participants, NEW p \in Participants, NEW acks, NEW pv,
           NEW down, NEW phase, DriveSelf(p, phase, down, pv, acks),
           \/ phase # PREPARE
           \/ upstream[p] # PREPARE /\ acks = {},
           p # Root => prepareVersion'[Root] = prepareVersion[Root]
    PROVE  AckVersionStep
<1>1. CASE p = Root
    BY <1>1, FrameAckVersion DEF DriveSelf, TypeOK
<1>2. CASE p # Root
    BY <1>2, FrameAckVersion DEF DriveSelf, TypeOK
<1>. QED
    BY <1>1, <1>2

LEMMA EnterPrepareAckVersion ==
    ASSUME TypeOK, Root \in Participants, NEW p \in Participants, NEW m,
           EnterPrepare(p, m), p = Root => upstream[p] # PREPARE
    PROVE  AckVersionStep
<1>1. CASE p # Root
    BY <1>1, FrameAckVersion DEF EnterPrepare, CompensateAbort, DriveSelf, TypeOK
<1>2. CASE p = Root
    <2>1. CASE CompensateAbort(p)
        BY <1>2, <2>1, FrameAckVersion DEF CompensateAbort, TypeOK
    <2>2. CASE \E v : DriveSelf(p, PREPARE, downstream[p], v, {})
        BY <1>2, <2>2, DriveSelfAckVersion
    <2>. QED
        BY <2>1, <2>2 DEF EnterPrepare
<1>. QED
    BY <1>1, <1>2

LEMMA ReceiveAckVersion ==
    ASSUME LocalInv, Flat, NEW m \in msgs, Receive(m)
    PROVE  AckVersionStep
<1>0. TypeOK /\ Root \in Participants /\ m.to \in Participants /\ m.from \in Participants
      /\ m.version \in Version
    BY TreeAssumption, MessageFields DEF LocalInv
<1>1. CASE UNCHANGED <<upstream, collected, prepareVersion>>
    BY <1>0, <1>1, FrameAckVersion
<1>2. CASE HandleReq(m)
    <2>0. m.to # Root
        BY <1>2 DEF HandleReq, LocalInv, FollowTree
    <2>1. ASSUME NEW phase, NEW down, NEW pv, NEW acks,
                 DriveSelf(m.to, phase, down, pv, acks), UNCHANGED prepareVersion
          PROVE  AckVersionStep
        BY <1>0, <2>0, <2>1, FrameAckVersion DEF DriveSelf, TypeOK
    <2>2. CASE \E state : Ignore(m) \/ AnswerReq(m, state)
        BY <1>1, <2>2 DEF Ignore, AnswerReq, phaseVars, versionVars
    <2>3. CASE HandlePrepareReq(m)
        BY <1>0, <2>0, <2>2, <2>3, EnterPrepareAckVersion DEF HandlePrepareReq
    <2>4. CASE HandlePreCommitReq(m)
        BY <1>0, <1>1, <2>1, <2>2, <2>4 DEF HandlePreCommitReq, EnterPreCommit, phaseVars
    <2>. QED
        BY <1>0, <1>2, <2>1, <2>2, <2>3, <2>4
        DEF HandleReq, HandleCommitReq, HandleAbortReq, HandleClearReq, versionVars
<1>3. CASE HandleResp(m)
    <2>0. m.to = Root /\ m.kind = "RESP"
        BY <1>3, RespToRoot DEF HandleResp
    <2>1. CASE Ignore(m) \/ Remind(m)
        BY <1>1, <2>1 DEF Ignore, Remind, phaseVars, versionVars
    <2>2. ASSUME NEW phase \in {PRE_COMMIT, COMMIT, ABORT, CLEAR}, NEW down, NEW acks,
                 DriveSelf(Root, phase, down, 0, acks)
          PROVE  AckVersionStep
        BY <1>0, <2>2, DriveSelfAckVersion
    <2>3. CASE m.phase = PREPARE /\ upstream[Root] = PREPARE /\ PrepareRespImpl(m)
        <3>1. CASE \E cv : EnterPreCommit(Root, cv, m)
            BY <2>2, <3>1 DEF EnterPreCommit
        <3>2. CASE collected' = [collected EXCEPT ![Root] = @ \cup {m.from}]
            <4>1. prepareVersion'[Root] = MaxOf(prepareVersion[Root], m.version)
                BY <1>0, <2>0, <2>3 DEF PrepareRespImpl, TypeOK
            <4>2. /\ prepareVersion[Root] <= prepareVersion'[Root]
                  /\ m.version <= prepareVersion'[Root]
                BY <1>0, <4>1, VersionNat DEF MaxOf
            <4>3. Counted(m.from)
                BY <1>0, <2>0, <2>3, <4>2 DEF Counted, SaidVersion
            <4>4. \A q \in collected[Root] : Counted(q)
                BY <2>3, <4>2 DEF Counted
            <4>5. collected'[Root] = collected[Root] \cup {m.from}
                BY <1>0, <3>2 DEF TypeOK
            <4>. QED
                BY <4>3, <4>4, <4>5 DEF AckVersionStep
        <3>. QED
            BY <2>0, <2>3, <3>1, <3>2 DEF PrepareRespImpl, CollectOnly
    <2>4. CASE upstream[Root] # PREPARE /\ UNCHANGED upstream
        BY <1>0, <2>4, FrameAckVersion
    <2>5. CASE upstream[Root] = PRE_COMMIT /\ PreCommitRespImpl(m)
        BY <2>0, <2>2, <2>4, <2>5 DEF PreCommitRespImpl
    <2>6. CASE upstream[Root] \in {COMMIT, ABORT} /\ AckRespImpl(m)
        BY <2>0, <2>2, <2>4, <2>6 DEF AckRespImpl, CollectOnly, FinishPhase, IsRoot
    <2>7. CASE AbortRespImpl(m)
        BY <2>0, <2>1, <2>2, <2>7 DEF AbortRespImpl
    <2>. QED
        BY <1>3, <2>0, <2>1, <2>3, <2>5, <2>6, <2>7
        DEF HandleResp, HandlePrepareResp, HandlePreCommitResp, HandleCommitResp,
            HandleAbortResp
<1>4. CASE HandleOrphan(m)
    BY <1>1, <1>4 DEF HandleOrphan, phaseVars, versionVars
<1>. QED
    BY <1>2, <1>3, <1>4 DEF Receive

LEMMA NextAckVersion ==
    ASSUME LocalInv, Flat, Next
    PROVE  AckVersionStep
<1>0. TypeOK /\ Root \in Participants
    BY TreeAssumption DEF LocalInv
<1>1. CASE UNCHANGED <<upstream, collected, prepareVersion>>
    BY <1>0, <1>1, FrameAckVersion
<1>2. ASSUME NEW p \in Participants, NEW cv, NEW m, EnterPreCommit(p, cv, m),
             UNCHANGED prepareVersion
      PROVE  AckVersionStep
    BY <1>0, <1>2, DriveSelfAckVersion DEF EnterPreCommit
<1>3. CASE CommitRequest \/ CommitRequestOnTxTable \/ GtsElapsed
    BY <1>0, <1>1, <1>2, <1>3, EnterPrepareAckVersion
    DEF CommitRequest, CommitRequestOnTxTable, GtsElapsed, phaseVars, versionVars
<1>4. CASE \E m \in msgs : Receive(m) \/ Lose(m)
    BY <1>1, <1>4, ReceiveAckVersion DEF Lose, phaseVars, versionVars
<1>5. ASSUME NEW p \in Participants, LogSynced(p)
      PROVE  AckVersionStep
    <2>1. ASSUME NEW phase, NEW down, NEW m, FinishPhase(p, phase, down, {}, m),
                 UNCHANGED prepareVersion
          PROVE  AckVersionStep
        <3>1. CASE IsRoot(p)
            BY <1>0, <2>1, <3>1, DriveSelfAckVersion DEF FinishPhase, IsRoot
        <3>2. CASE ~IsRoot(p)
            BY <1>0, <2>1, <3>2, FrameAckVersion DEF FinishPhase, IsRoot, TypeOK
        <3>. QED
            BY <3>1, <3>2
    <2>. QED
        BY <1>0, <1>1, <1>2, <1>5, <2>1
        DEF LogSynced, ApplyPrepareLog, ApplyCommitLog, ApplyAbortLog, ApplyClearLog,
            versionVars
<1>6. ASSUME NEW p \in Participants, CommitInfoSynced(p) \/ LogFailed(p) \/ Timeout(p)
      PROVE  AckVersionStep
    BY <1>0, <1>1, <1>6, EnterPrepareAckVersion
    DEF CommitInfoSynced, LogFailed, Timeout, phaseVars, versionVars
<1>7. ASSUME NEW p \in Participants, LocalAbort(p)
      PROVE  AckVersionStep
    BY <1>0, <1>7, FrameAckVersion DEF LocalAbort, CompensateAbort, versionVars, TypeOK
<1>8. ASSUME NEW p \in Participants, Failover(p)
      PROVE  AckVersionStep
    <2>1. CASE p # Root
        <3>1. prepareVersion'[Root] = prepareVersion[Root]
            BY <1>0, <1>8, <2>1 DEF Failover, RecoverFrom, versionVars, TypeOK
        <3>. QED
            BY <1>0, <1>8, <2>1, <3>1, FrameAckVersion DEF Failover, RecoverFrom, TypeOK
    <2>2. CASE p = Root
        <3>1. collected'[Root] = {}
            BY <1>0, <1>8, <2>2 DEF Failover, TypeOK
        <3>. QED
            BY <1>0, <3>1, FrameAckVersion
    <2>. QED
        BY <2>1, <2>2
<1>. QED
    BY <1>3, <1>4, <1>5, <1>6, <1>7, <1>8 DEF Next

-----------------------------------------------------------------------------
(* The versions in the messages of a step *)

\* A new message carries the version its sender has after the step.
Versioned(n) ==
    /\ n.kind = "RESP" /\ n.phase = PREPARE =>
            /\ n.from \in Participants \ {Root} /\ Promised(n.from)'
            /\ n.version = prepareVersion'[n.from]
    /\ n.phase \in {PRE_COMMIT, COMMIT} =>
            /\ n.from \in Participants /\ CommitMark(n.from)'
            /\ n.version = commitVersion'[n.from]
    /\ n.phase = ABORT => n.version = 0

AllVersioned(S) == \A n \in S : Versioned(n)

LEMMA SendVersioned ==
    ASSUME NEW m, NEW S, Send(m, S), AllVersioned(S)
    PROVE  AllVersioned(msgs' \ msgs)
BY DEF Send, AllVersioned

LEMMA NothingVersioned == AllVersioned({})
BY DEF AllVersioned

LEMMA UnionVersioned ==
    ASSUME NEW S, NEW T, AllVersioned(S), AllVersioned(T)
    PROVE  AllVersioned(S \cup T)
BY DEF AllVersioned

LEMMA ReqsVersioned ==
    ASSUME NEW p \in Participants, NEW phase \in Phase, NEW dests, NEW cv,
           phase \in {PRE_COMMIT, COMMIT} =>
                CommitMark(p)' /\ cv = commitVersion'[p]
    PROVE  AllVersioned(ReqsTo(p, phase, dests, cv))
BY DEF AllVersioned, Versioned, ReqsTo, Req, Phase

LEMMA RespVersioned ==
    ASSUME NEW p \in Participants, NEW pv, NEW cv,
           NEW phase \in {PREPARE, PRE_COMMIT, COMMIT, ABORT},
           phase = PREPARE => Promised(p)' /\ pv = prepareVersion'[p],
           phase \in {PRE_COMMIT, COMMIT} =>
                CommitMark(p)' /\ cv = commitVersion'[p]
    PROVE  AllVersioned(RespOf(p, phase, pv, cv))
BY DEF AllVersioned, Versioned, RespOf, Resp, IsRoot

\* Retransmissions repeat the versions of their sender.
LEMMA RetransmitVersioned ==
    ASSUME LocalInv, NEW p \in Participants, alive[p], NEW col,
           UNCHANGED <<upstream, downstream, outcome, prepareVersion, commitVersion>>
    PROVE  /\ AllVersioned(RetransmitDown(p, upstream[p], col))
           /\ \A q : AllVersioned(RetransmitTo(p, q))
<1>1. upstream[p] \in {PRE_COMMIT, COMMIT} =>
            CommitMark(p)' /\ commitVersion[p] = commitVersion'[p]
    BY DEF CommitMark
<1>2. AllVersioned(RetransmitDown(p, upstream[p], col))
    BY <1>1, ReqsVersioned, NothingVersioned DEF RetransmitDown
<1>3. ASSUME NEW q PROVE AllVersioned(RetransmitTo(p, q))
    BY <1>1, ReqsVersioned, NothingVersioned DEF RetransmitTo
<1>. QED
    BY <1>2, <1>3

LEMMA AnswerVersioned ==
    ASSUME LocalInv, NEW p \in Participants, NEW state, NEW up, NEW col, alive[p],
           UNCHANGED <<upstream, downstream, outcome, prepareVersion, commitVersion>>,
           \/ state = PREPARE /\ downstream[p] \in {PREPARE, PRE_COMMIT, COMMIT}
           \/ state = PRE_COMMIT /\ downstream[p] \in {PRE_COMMIT, COMMIT}
           \/ state = downstream[p]
    PROVE  AllVersioned(RetransmitUp(p, state, up, col))
<1>0. TypeOK /\ CtxOK(p)
    BY DEF LocalInv
<1>1. CASE state \in {PREPARE, PRE_COMMIT, COMMIT, ABORT}
    <2>1. state = PREPARE => Promised(p)'
        BY <1>0 DEF Promised, Locked, CtxOK, LifeOK, TypeOK
    <2>2. state \in {PRE_COMMIT, COMMIT} => CommitMark(p)'
        BY DEF CommitMark
    <2>. QED
        BY <1>1, <2>1, <2>2, RespVersioned, NothingVersioned DEF RetransmitUp
<1>2. CASE state \notin {PREPARE, PRE_COMMIT, COMMIT, ABORT}
    BY <1>2, NothingVersioned DEF RetransmitUp
<1>. QED
    BY <1>1, <1>2

LEMMA EnterPrepareVersioned ==
    ASSUME NEW p \in Participants, NEW m, EnterPrepare(p, m)
    PROVE  AllVersioned(msgs' \ msgs)
<1>1. AllVersioned(ReqsTo(p, PREPARE, Downstream(p), 0))
    BY ReqsVersioned DEF Phase
<1>. QED
    BY <1>1, NothingVersioned, SendVersioned DEF EnterPrepare

LEMMA EnterPreCommitVersioned ==
    ASSUME TypeOK, NEW p \in Participants, NEW cv, NEW m, EnterPreCommit(p, cv, m)
    PROVE  AllVersioned(msgs' \ msgs)
<1>0. CommitMark(p)' /\ cv = commitVersion'[p]
    BY EnterPreCommitVersions DEF CommitMark
<1>1. AllVersioned(ReqsTo(p, PRE_COMMIT, Downstream(p), cv))
    BY <1>0, ReqsVersioned DEF Phase
<1>2. AllVersioned(RespOf(p, PRE_COMMIT, 0, cv))
    BY <1>0, RespVersioned
<1>. QED
    BY <1>1, <1>2, SendVersioned DEF EnterPreCommit

LEMMA FinishPhaseVersioned ==
    ASSUME NEW p \in Participants, NEW phase \in {COMMIT, ABORT}, NEW acks,
           NEW m, FinishPhase(p, phase, phase, acks, m),
           phase = COMMIT => outcome'[p] = "commit"
    PROVE  AllVersioned(msgs' \ msgs)
<1>1. CASE IsRoot(p)
    <2>1. AllVersioned(ReqsTo(p, CLEAR, Downstream(p), 0))
        BY ReqsVersioned DEF Phase
    <2>. QED
        BY <1>1, <2>1, SendVersioned DEF FinishPhase
<1>2. CASE ~IsRoot(p)
    <2>0. phase = COMMIT => CommitMark(p)'
        BY DEF CommitMark
    <2>1. AllVersioned(RespOf(p, phase, 0, commitVersion'[p]))
        BY <2>0, RespVersioned
    <2>. QED
        BY <1>2, <2>1, SendVersioned DEF FinishPhase
<1>. QED
    BY <1>1, <1>2

LEMMA ReceiveVersioned ==
    ASSUME LocalInv, Flat, NEW m \in msgs, Receive(m)
    PROVE  AllVersioned(msgs' \ msgs)
<1>0. /\ TypeOK /\ Root \in Participants /\ m.to \in Participants /\ CtxOK(m.to)
      /\ m.from \in Participants
    BY TreeAssumption, MessageFields DEF LocalInv
<1>1. CASE Send(m, {})
    BY <1>1, NothingVersioned, SendVersioned
<1>2. CASE HandleReq(m)
    <2> DEFINE p == m.to
    <2>0. alive[p] /\ p # Root /\ Downstream(p) = {}
        BY <1>0, <1>2, FlatTree DEF HandleReq, LocalInv, FollowTree
    <2>1. ASSUME NEW state, AnswerReq(m, state),
                 \/ state = PREPARE /\ downstream[p] \in {PREPARE, PRE_COMMIT, COMMIT}
                 \/ state = PRE_COMMIT /\ downstream[p] \in {PRE_COMMIT, COMMIT}
                 \/ state = downstream[p]
          PROVE  AllVersioned(msgs' \ msgs)
        <3> DEFINE S == RetransmitDown(p, upstream[p], collected[p])
                   T == RetransmitUp(p, state, upstream[p], collected[p])
        <3>1. UNCHANGED <<upstream, downstream, outcome, prepareVersion, commitVersion>>
            BY <2>1 DEF AnswerReq, phaseVars, lifeVars, versionVars
        <3>2. AllVersioned(S) /\ AllVersioned(T) /\ Send(m, S \cup T)
            BY <1>0, <2>0, <2>1, <3>1, RetransmitVersioned, AnswerVersioned DEF AnswerReq
        <3> HIDE DEF S, T
        <3>. QED
            BY <3>2, UnionVersioned, SendVersioned
    <2>2. ASSUME NEW phase, NEW cv, Send(m, ReqsTo(p, phase, Downstream(p), cv))
          PROVE  AllVersioned(msgs' \ msgs)
        <3>1. AllVersioned(ReqsTo(p, phase, Downstream(p), cv))
            BY <2>0 DEF AllVersioned, ReqsTo
        <3>. QED
            BY <2>2, <3>1, SendVersioned
    <2>3. CASE Ignore(m)
        BY <1>1, <2>3 DEF Ignore
    <2>4. CASE HandlePrepareReq(m)
        BY <1>0, <2>1, <2>3, <2>4, EnterPrepareVersioned DEF HandlePrepareReq
    <2>5. CASE HandlePreCommitReq(m)
        BY <1>0, <1>1, <2>1, <2>3, <2>5, EnterPreCommitVersioned DEF HandlePreCommitReq
    <2>6. CASE HandleCommitReq(m)
        BY <2>1, <2>2, <2>3, <2>6 DEF HandleCommitReq
    <2>7. CASE HandleAbortReq(m)
        BY <2>1, <2>2, <2>3, <2>7 DEF HandleAbortReq
    <2>8. CASE HandleClearReq(m)
        BY <2>2, <2>3, <2>8 DEF HandleClearReq
    <2>. QED
        BY <1>2, <2>4, <2>5, <2>6, <2>7, <2>8 DEF HandleReq
<1>3. CASE HandleResp(m)
    <2>0. m.to = Root /\ alive[Root]
        BY <1>3, RespToRoot DEF HandleResp
    <2>1. CASE Remind(m)
        <3>0. UNCHANGED <<upstream, downstream, outcome, prepareVersion, commitVersion>>
            BY <2>1 DEF Remind, phaseVars, lifeVars, versionVars
        <3>1. AllVersioned(RetransmitTo(Root, m.from))
            BY <1>0, <2>0, <3>0, RetransmitVersioned
        <3>. QED
            BY <2>0, <2>1, <3>1, SendVersioned DEF Remind
    <2>2. CASE Ignore(m) \/ CollectOnly(m)
        BY <1>1, <2>2 DEF Ignore, CollectOnly
    <2>3. CASE PrepareRespImpl(m)
        BY <1>0, <2>0, <2>2, <2>3, EnterPreCommitVersioned DEF PrepareRespImpl, IsRoot
    <2>4. CASE upstream[Root] = PRE_COMMIT /\ PreCommitRespImpl(m)
        <3> DEFINE cv == MaxOf(commitVersion[Root], m.version)
        <3>1. \/ Send(m, {})
              \/ Send(m, ReqsTo(Root, COMMIT, Downstream(Root), cv))
              \/ Send(m, RespOf(Root, PRE_COMMIT, 0, cv))
            BY <2>0, <2>4 DEF PreCommitRespImpl
        <3>2. commitVersion'[Root] = cv
            BY <1>0, <2>0, <2>4 DEF PreCommitRespImpl, TypeOK
        <3>3. CommitMark(Root)'
            <4>1. UNCHANGED downstream /\ downstream[Root] = PRE_COMMIT
                BY <1>0, <2>0, <2>4
                DEF PreCommitRespImpl, lifeVars, CtxOK, PhaseOK, LifeOK, TypeOK, TxState
            <4>. QED
                BY <4>1 DEF CommitMark
        <3>4. AllVersioned(ReqsTo(Root, COMMIT, Downstream(Root), cv))
            BY <1>0, <3>2, <3>3, ReqsVersioned DEF Phase
        <3>5. RespOf(Root, PRE_COMMIT, 0, cv) = {}
            BY DEF RespOf, IsRoot
        <3> HIDE DEF cv
        <3>. QED
            BY <1>1, <3>1, <3>4, <3>5, SendVersioned
    <2>5. CASE upstream[Root] \in {COMMIT, ABORT} /\ AckRespImpl(m)
        <3>1. CASE CollectOnly(m)
            BY <2>2, <3>1
        <3>2. CASE FinishPhase(Root, upstream[Root], downstream[Root], {m.from}, m)
            <4>1. AllVersioned(ReqsTo(Root, CLEAR, Downstream(Root), 0))
                BY <1>0, ReqsVersioned DEF Phase
            <4>. QED
                BY <3>2, <4>1, SendVersioned DEF FinishPhase, IsRoot
        <3>. QED
            BY <2>0, <2>5, <3>1, <3>2 DEF AckRespImpl
    <2>6. CASE AbortRespImpl(m)
        <3>1. AllVersioned(ReqsTo(Root, ABORT, Downstream(Root), 0))
            BY <1>0, ReqsVersioned DEF Phase
        <3>. QED
            BY <2>0, <2>2, <2>6, <3>1, SendVersioned DEF AbortRespImpl
    <2>. QED
        BY <1>3, <2>0, <2>1, <2>2, <2>3, <2>4, <2>5, <2>6
        DEF HandleResp, HandlePrepareResp, HandlePreCommitResp, HandleCommitResp,
            HandleAbortResp
<1>4. CASE HandleOrphan(m)
    <2>1. AllVersioned(OrphanReply(m))
        BY DEF AllVersioned, Versioned, OrphanReply, OrphanResp, OrphanReq, Req, Resp
    <2>. QED
        BY <1>4, <2>1, SendVersioned DEF HandleOrphan
<1>. QED
    BY <1>2, <1>3, <1>4 DEF Receive

LEMMA NextVersioned ==
    ASSUME LocalInv, Flat, Next
    PROVE  AllVersioned(msgs' \ msgs)
<1>0. TypeOK /\ Root \in Participants
    BY TreeAssumption DEF LocalInv
<1>1. CASE UNCHANGED msgs
    BY <1>1 DEF AllVersioned
<1>2. CASE CommitRequest
    BY <1>0, <1>1, <1>2, EnterPrepareVersioned DEF CommitRequest
<1>3. CASE GtsElapsed
    BY <1>0, <1>3, EnterPreCommitVersioned DEF GtsElapsed
<1>4. CASE \E m \in msgs : Receive(m) \/ Lose(m)
    BY <1>4, ReceiveVersioned, NothingVersioned, SendVersioned DEF Lose
<1>5. ASSUME NEW p \in Participants, LogSynced(p)
      PROVE  AllVersioned(msgs' \ msgs)
    <2>1. CASE ApplyPrepareLog(p)
        <3>1. CASE Send(NoMsg, RespOf(p, PREPARE, prepareVersion[p], 0))
                   /\ downstream' = [downstream EXCEPT ![p] = PREPARE]
            <4>1. Promised(p)' /\ UNCHANGED prepareVersion
                BY <1>0, <2>1, <3>1 DEF ApplyPrepareLog, Promised, Locked, TypeOK
            <4>2. AllVersioned(RespOf(p, PREPARE, prepareVersion[p], 0))
                BY <4>1, RespVersioned
            <4>. QED
                BY <3>1, <4>2, SendVersioned
        <3>. QED
            BY <1>0, <1>1, <2>1, <3>1, EnterPreCommitVersioned DEF ApplyPrepareLog
    <2>2. CASE ApplyCommitLog(p)
        <3>1. outcome'[p] = "commit"
            BY <1>0, <2>2 DEF ApplyCommitLog, TypeOK
        <3>. QED
            BY <1>1, <2>2, <3>1, FinishPhaseVersioned DEF ApplyCommitLog
    <2>3. CASE ApplyAbortLog(p)
        BY <1>1, <2>3, FinishPhaseVersioned DEF ApplyAbortLog
    <2>4. CASE ApplyClearLog(p)
        BY <1>1, <2>4 DEF ApplyClearLog
    <2>. QED
        BY <1>5, <2>1, <2>2, <2>3, <2>4 DEF LogSynced
<1>6. ASSUME NEW p \in Participants, Timeout(p)
      PROVE  AllVersioned(msgs' \ msgs)
    <2>1. CASE EnterPrepare(p, NoMsg)
        BY <2>1, EnterPrepareVersioned
    <2>2. CASE ~EnterPrepare(p, NoMsg)
        <3> DEFINE S == RetransmitDown(p, upstream[p], collected[p])
                   T == RetransmitUp(p, downstream[p], upstream[p], collected[p])
        <3>1. /\ UNCHANGED <<upstream, downstream, outcome, prepareVersion, commitVersion>>
              /\ Send(NoMsg, S \cup T) /\ alive[p]
            BY <1>6, <2>2 DEF Timeout
        <3>2. AllVersioned(S) /\ AllVersioned(T)
            BY <3>1, RetransmitVersioned, AnswerVersioned
        <3> HIDE DEF S, T
        <3>. QED
            BY <3>1, <3>2, UnionVersioned, SendVersioned
    <2>. QED
        BY <2>1, <2>2
<1>7. CASE CommitRequestOnTxTable \/ \E p \in Participants :
                CommitInfoSynced(p) \/ LogFailed(p) \/ LocalAbort(p) \/ Failover(p)
    BY <1>1, <1>7
    DEF CommitRequestOnTxTable, CommitInfoSynced, LogFailed, LocalAbort, Failover
<1>. QED
    BY <1>2, <1>3, <1>4, <1>5, <1>6, <1>7 DEF Next

-----------------------------------------------------------------------------
(* The argument *)

\* Everything the argument needs to know of the versions in a step.
VersionFacts ==
    /\ \A q \in Participants : VersionStep(q) /\ Final(q)
    /\ AckVersionStep
    /\ AllVersioned(msgs' \ msgs)

LEMMA NextVersionFacts ==
    ASSUME LocalInv, Flat, VersionInv, Next
    PROVE  VersionFacts
BY NextVersions, NextAckVersion, NextVersioned, NextFinal DEF VersionFacts

\* Versions and states are numbers, also after the step.
LEMMA Numbers ==
    ASSUME LocalInv, LocalInv', NEW q \in Participants
    PROVE  /\ prepareVersion[q] \in Nat /\ prepareVersion'[q] \in Nat
           /\ logVersion[q] \in Nat /\ logVersion'[q] \in Nat
           /\ commitVersion[q] \in Nat /\ commitVersion'[q] \in Nat
           /\ downstream[q] \in Nat /\ downstream'[q] \in Nat
<1>1. Version \subseteq Nat /\ TxState \subseteq Nat
    BY ParameterAssumption DEF Version, TxState
<1>. QED
    BY <1>1 DEF LocalInv, TypeOK

\* What a prepared participant has in its log stays there.
LEMMA LoggedForEver ==
    ASSUME LocalInv, LocalInv', VersionFacts, NEW q \in Participants,
           downstream[q] >= PREPARE
    PROVE  downstream'[q] >= PREPARE /\ logVersion'[q] = logVersion[q]
<1>1. VersionStep(q) /\ Final(q)
    BY DEF VersionFacts
<1>. QED
    BY <1>1, Numbers DEF VersionStep, LogVersionStep, Final

\* The agreed version stays the agreed one, and there is only one.
LEMMA AgreedStable ==
    ASSUME LocalInv, LocalInv', VersionFacts, NEW v \in Nat, Agreed(v)
    PROVE  Agreed(v)'
<1>1. \A q \in Participants : downstream'[q] >= PREPARE /\ logVersion'[q] = logVersion[q]
    BY LoggedForEver DEF Agreed
<1>. QED
    BY <1>1 DEF Agreed

LEMMA AgreedUnique ==
    ASSUME LocalInv, NEW v \in Nat, NEW w \in Nat, Agreed(v), Agreed(w)
    PROVE  v = w
<1>1. v <= w /\ w <= v
    BY DEF Agreed
<1>. QED
    BY <1>1

\* What a message says about a version is true.
LEMMA HeardTruth ==
    ASSUME LocalInv, VersionInv, GlobalInv, NEW v \in Version
    PROVE  /\ HeardVersion(v) => Agreed(v)
           /\ \A q \in Participants :
                SaidVersion(q, v) => v = logVersion[q] /\ downstream[q] >= PREPARE
BY DEF HeardVersion, SaidVersion, VersionInv, MessageVersionOK, GlobalInv, PreparedOK

\* The versions in the logs of the participants the root counts are below its own.
LEMMA CountedBelow ==
    ASSUME LocalInv, LocalInv', VersionInv, GlobalInv, VersionFacts,
           NEW q \in Participants, Counted(q)
    PROVE  downstream'[q] >= PREPARE /\ logVersion'[q] <= prepareVersion'[Root]
<1>0. Root \in Participants
    BY TreeAssumption
<1>1. CASE /\ upstream[Root] = PREPARE /\ q \in collected[Root]
           /\ prepareVersion[Root] <= prepareVersion'[Root]
    <2>1. downstream[q] >= PREPARE /\ logVersion[q] <= prepareVersion[Root]
        BY <1>1 DEF GlobalInv, PreparedOK, VersionInv, AckVersionOK
    <2>. QED
        BY <1>0, <1>1, <2>1, LoggedForEver, Numbers
<1>2. CASE \E v \in Version : SaidVersion(q, v) /\ v <= prepareVersion'[Root]
    BY <1>2, HeardTruth, LoggedForEver
<1>. QED
    BY <1>1, <1>2 DEF Counted

\* PromiseOK is inductive.
LEMMA PromiseStep ==
    ASSUME LocalInv, LocalInv', VersionInv, GlobalInv, VersionFacts,
           NEW p \in Participants
    PROVE  PromiseOK(p)'
<1> SUFFICES ASSUME Promised(p)'
             PROVE  /\ logVersion'[p] <= prepareVersion'[p]
                    /\ p # Root => prepareVersion'[p] = logVersion'[p]
                    /\ \E q \in Participants :
                         /\ prepareVersion'[p] = logVersion'[q]
                         /\ q = p \/ downstream'[q] >= PREPARE
    BY DEF PromiseOK
<1>0. PrepareVersionStep(p) /\ PromiseOK(p)
    BY DEF VersionFacts, VersionStep, VersionInv
<1>1. CASE logVersion'[p] = prepareVersion'[p]
    BY <1>1, Numbers
<1>2. CASE /\ Promised(p) /\ logVersion'[p] = logVersion[p]
           /\ prepareVersion'[p] = prepareVersion[p]
    <2>1. PICK q \in Participants : /\ prepareVersion[p] = logVersion[q]
                                    /\ q = p \/ downstream[q] >= PREPARE
        BY <1>0, <1>2 DEF PromiseOK
    <2>2. prepareVersion'[p] = logVersion'[q] /\ (q = p \/ downstream'[q] >= PREPARE)
        BY <1>2, <2>1, LoggedForEver
    <2>. QED
        BY <1>0, <1>2, <2>2 DEF PromiseOK
<1>3. ASSUME Promised(p), logVersion'[p] = logVersion[p], p = Root,
             NEW v \in Version, prepareVersion'[p] = MaxOf(prepareVersion[p], v),
             \/ HeardVersion(v)
             \/ \E x \in Participants \ {Root} : SaidVersion(x, v)
      PROVE  /\ logVersion'[p] <= prepareVersion'[p]
             /\ \E q \in Participants :
                  /\ prepareVersion'[p] = logVersion'[q]
                  /\ q = p \/ downstream'[q] >= PREPARE
    <2>0. v \in Nat
        BY ParameterAssumption DEF Version
    <2>1. logVersion'[p] <= prepareVersion'[p]
        BY <1>0, <1>3, <2>0, Numbers DEF PromiseOK, MaxOf
    <2>2. CASE prepareVersion'[p] = prepareVersion[p]
        <3>1. PICK q \in Participants : /\ prepareVersion[p] = logVersion[q]
                                        /\ q = p \/ downstream[q] >= PREPARE
            BY <1>0, <1>3 DEF PromiseOK
        <3>2. prepareVersion'[p] = logVersion'[q] /\ (q = p \/ downstream'[q] >= PREPARE)
            BY <1>3, <2>2, <3>1, LoggedForEver
        <3>. QED
            BY <2>1, <3>2
    <2>3. CASE prepareVersion'[p] = v
        <3>1. PICK q \in Participants : v = logVersion[q] /\ downstream[q] >= PREPARE
            BY <1>3, HeardTruth DEF Agreed
        <3>2. prepareVersion'[p] = logVersion'[q] /\ downstream'[q] >= PREPARE
            BY <2>3, <3>1, LoggedForEver
        <3>. QED
            BY <2>1, <3>2
    <2>. QED
        BY <1>3, <2>2, <2>3, MaxOfIsOne
<1>. QED
    BY <1>0, <1>1, <1>2, <1>3 DEF PrepareVersionStep

\* When the root settles the commit version it is the agreed one.
LEMMA SettlesAgreed ==
    ASSUME LocalInv, LocalInv', VersionInv, GlobalInv, VersionFacts, Settles
    PROVE  Agreed(commitVersion[Root])'
<1>0. Root \in Participants /\ commitVersion'[Root] = prepareVersion'[Root]
    BY TreeAssumption DEF Settles
<1>1. /\ logVersion'[Root] <= prepareVersion'[Root]
      /\ \E q \in Participants : prepareVersion'[Root] = logVersion'[q]
    BY <1>0, PromiseStep DEF PromiseOK, Settles
<1>2. \A q \in Participants \ {Root} :
            downstream'[q] >= PREPARE /\ logVersion'[q] <= prepareVersion'[Root]
    BY CountedBelow DEF Settles
<1>. QED
    BY <1>0, <1>1, <1>2 DEF Agreed, Settles

\* CommitVersionOK is inductive.
LEMMA CommitVersionInductive ==
    ASSUME LocalInv, LocalInv', VersionInv, GlobalInv, VersionFacts,
           NEW p \in Participants
    PROVE  CommitVersionOK(p)'
<1>0. /\ CommitVersionStep(p) /\ CommitVersionOK(p)
      /\ commitVersion[p] \in Nat /\ commitVersion'[p] \in Nat
    BY Numbers DEF VersionFacts, VersionStep, VersionInv
<1>1. /\ CommitVersionOK(p) <=> /\ commitVersion[p] = 0 \/ Agreed(commitVersion[p])
                                /\ CommitMark(p) => Agreed(commitVersion[p])
      /\ CommitVersionOK(p)' <=> /\ commitVersion'[p] = 0 \/ Agreed(commitVersion[p])'
                                 /\ CommitMark(p)' => Agreed(commitVersion[p])'
    BY DEF CommitVersionOK, CommitMark
<1>2. ASSUME NEW v \in Nat, Agreed(v), commitVersion'[p] = v
      PROVE  Agreed(commitVersion[p])'
    BY <1>2, AgreedStable DEF Agreed
<1>3. CASE commitVersion'[p] = commitVersion[p] /\ (CommitMark(p)' => CommitMark(p))
    BY <1>0, <1>1, <1>2, <1>3
<1>4. CASE commitVersion'[p] = 0 /\ ~CommitMark(p)'
    BY <1>1, <1>4
<1>5. ASSUME NEW v \in Version, HeardVersion(v),
             commitVersion'[p] = MaxOf(commitVersion[p], v)
      PROVE  CommitVersionOK(p)'
    <2>0. v \in Nat /\ Agreed(v)
        BY <1>5, HeardTruth, ParameterAssumption DEF Version
    <2>1. commitVersion'[p] = v
        BY <1>0, <1>1, <1>5, <2>0, AgreedUnique DEF MaxOf
    <2>. QED
        BY <1>1, <1>2, <2>0, <2>1
<1>6. CASE p = Root /\ Settles
    BY <1>1, <1>6, SettlesAgreed
<1>. QED
    BY <1>0, <1>3, <1>4, <1>5, <1>6 DEF CommitVersionStep

LEMMA VersionInduction ==
    ASSUME Flat, FlatInv, VersionInv, [Next]_vars
    PROVE  VersionInv'
<1>0. LocalInv /\ GlobalInv /\ LocalInv' /\ Root \in Participants
    BY LocalInduction, TreeAssumption DEF FlatInv
<1>1. CASE Next
    <2>0. VersionFacts
        BY <1>0, <1>1, NextVersionFacts
    <2>1. \A p \in Participants : PromiseOK(p)' /\ CommitVersionOK(p)'
        BY <1>0, <2>0, PromiseStep, CommitVersionInductive
    <2>2. AckVersionOK'
        <3>1. collected'[Root] \subseteq Participants
            BY <1>0 DEF LocalInv, TypeOK
        <3>. QED
            BY <1>0, <2>0, <3>1, CountedBelow DEF VersionFacts, AckVersionStep, AckVersionOK
    <2>3. ASSUME NEW m \in msgs'
          PROVE  MessageVersionOK(m)'
        <3>0. m.from \in Participants /\ m.version \in Nat
            <4>1. Version \subseteq Nat
                BY ParameterAssumption DEF Version
            <4>. QED
                BY <1>0, <4>1 DEF LocalInv, TypeOK, Message
        <3>1. CASE m \in msgs
            <4>1. m.kind = "RESP" /\ m.phase = PREPARE => m.version = logVersion'[m.from]
                BY <1>0, <2>0, <3>0, <3>1, LoggedForEver
                DEF VersionInv, MessageVersionOK, GlobalInv, PreparedOK
            <4>2. m.phase \in {PRE_COMMIT, COMMIT} => Agreed(m.version)'
                BY <1>0, <2>0, <3>0, <3>1, AgreedStable DEF VersionInv, MessageVersionOK
            <4>3. m.phase = ABORT => m.version = 0
                BY <3>1 DEF VersionInv, MessageVersionOK
            <4>. QED
                BY <4>1, <4>2, <4>3 DEF MessageVersionOK
        <3>2. CASE m \notin msgs
            <4>0. Versioned(m)
                BY <2>0, <3>2 DEF VersionFacts, AllVersioned
            <4>1. m.kind = "RESP" /\ m.phase = PREPARE => m.version = logVersion'[m.from]
                BY <2>1, <4>0 DEF Versioned, PromiseOK
            <4>2. m.phase \in {PRE_COMMIT, COMMIT} => Agreed(m.version)'
                BY <2>1, <4>0 DEF Versioned, CommitVersionOK, CommitMark, Agreed
            <4>3. m.phase = ABORT => m.version = 0
                BY <4>0 DEF Versioned
            <4>. QED
                BY <4>1, <4>2, <4>3 DEF MessageVersionOK
        <3>. QED
            BY <3>1, <3>2
    <2>. QED
        BY <2>1, <2>2, <2>3 DEF VersionInv
<1>2. CASE UNCHANGED vars
    BY <1>2 DEF vars, phaseVars, versionVars, lifeVars, VersionInv, PromiseOK, Promised,
                Locked, CommitVersionOK, Agreed, AckVersionOK, MessageVersionOK
<1>. QED
    BY <1>1, <1>2

-----------------------------------------------------------------------------
(* The theorems *)

\* The version invariant of a flat transaction, for any number of participants
\* and any versions they choose.
THEOREM VersionCorrect ==
    ASSUME Flat
    PROVE  Spec => []VersionInv
<1>1. Init => VersionInv
    BY TreeAssumption
    DEF Init, VersionInv, PromiseOK, Promised, Locked, CommitVersionOK, AckVersionOK,
        MessageVersionOK
<1>2. FlatInv /\ VersionInv /\ [Next]_vars => VersionInv'
    BY VersionInduction
<1>. QED
    BY <1>1, <1>2, FlatCorrect, PTL DEF Spec

\* What the invariant says of the participants that have committed.
LEMMA VersionInvImplies ==
    ASSUME LocalInv, VersionInv
    PROVE  VersionAgreement
<1> SUFFICES ASSUME NEW p \in Participants, NEW q \in Participants,
                    outcome[p] = "commit", outcome[q] = "commit"
             PROVE  /\ commitVersion[p] = commitVersion[q]
                    /\ commitVersion[p] >= prepareVersion[q]
    BY DEF VersionAgreement
<1>0. /\ commitVersion[p] \in Nat /\ commitVersion[q] \in Nat
      /\ \A x \in Participants : logVersion[x] \in Nat
    BY VersionNat DEF LocalInv
<1>1. Agreed(commitVersion[p]) /\ Agreed(commitVersion[q])
    BY DEF VersionInv, CommitVersionOK
<1>2. commitVersion[p] = commitVersion[q]
    BY <1>0, <1>1, AgreedUnique
<1>3. PICK x \in Participants : prepareVersion[q] = logVersion[x]
    BY DEF VersionInv, PromiseOK, Promised, Locked
<1>4. logVersion[x] <= commitVersion[p]
    BY <1>1 DEF Agreed
<1>. QED
    BY <1>0, <1>2, <1>3, <1>4

\* Participants that commit do so at one version, not below the prepare version
\* any of them has promised to readers (VersionAgreement).
THEOREM VersionAgreementHolds ==
    ASSUME Flat
    PROVE  Spec => []VersionAgreement
<1>1. LocalInv /\ VersionInv => VersionAgreement
    BY VersionInvImplies
<1>. QED
    BY <1>1, VersionCorrect, LocalCorrect, PTL
=============================================================================
