------------------------ MODULE TwoPhaseCommitLocal -------------------------
(***************************************************************************)
(* Two invariants of the committer for every tree of participants: its     *)
(* type invariant (TypeCorrect), and LocalInv (LocalCorrect), which says   *)
(* that what one context knows about itself stays consistent, whatever it  *)
(* is sent.                                                                *)
(***************************************************************************)
EXTENDS TwoPhaseCommitInv, TLAPS

-----------------------------------------------------------------------------
(* Helpers: what the operators that build messages return *)

\* The states, phases and log kinds of ObTxState are pairwise distinct numbers.
LEMMA StateFacts ==
    /\ Phase \subseteq TxState /\ StateLog \subseteq TxState
    /\ TxState \subseteq Nat
    /\ NONE \notin TxState
BY DEF Phase, StateLog, TxState, NONE, INIT, REDO_COMPLETE, PREPARE,
       PRE_COMMIT, COMMIT, ABORT, CLEAR

\* SCN::max() picks one of its arguments.
LEMMA MaxOfIsOne ==
    ASSUME NEW a, NEW b
    PROVE  MaxOf(a, b) = a \/ MaxOf(a, b) = b
BY DEF MaxOf

\* The downstreams of a participant are participants.
LEMMA DownstreamType ==
    ASSUME NEW p
    PROVE  Downstream(p) \subseteq Participants
BY DEF Downstream

\* Requests are messages.
LEMMA ReqsToType ==
    ASSUME NEW p \in Participants, NEW phase \in Phase,
           NEW dests \in SUBSET Participants, NEW cv \in Version
    PROVE  ReqsTo(p, phase, dests, cv) \subseteq Message
BY DEF ReqsTo, Req, Message, Version

\* Responses are messages.
LEMMA RespOfType ==
    ASSUME NEW p \in Participants, NEW phase \in Phase,
           NEW pv \in Version, NEW cv \in Version
    PROVE  RespOf(p, phase, pv, cv) \subseteq Message
<1>1. CASE IsRoot(p)
    BY <1>1 DEF RespOf
<1>2. CASE ~IsRoot(p)
    <2>1. Upstream[p] \in Participants
        BY <1>2, TreeAssumption DEF IsRoot
    <2>. QED
        BY <1>2, <2>1 DEF RespOf, Resp, Message, Version
<1>. QED
    BY <1>1, <1>2

\* Retransmissions are messages.
LEMMA RetransmitType ==
    ASSUME TypeOK, NEW p \in Participants, NEW q \in Participants,
           NEW state, NEW up, NEW col
    PROVE  /\ RetransmitDown(p, up, col) \subseteq Message
           /\ RetransmitTo(p, q) \subseteq Message
           /\ RetransmitUp(p, state, up, col) \subseteq Message
<1>1. commitVersion[p] \in Version /\ prepareVersion[p] \in Version
    BY DEF TypeOK
<1>2. RetransmitDown(p, up, col) \subseteq Message
    BY <1>1, ReqsToType, DownstreamType DEF RetransmitDown
<1>3. RetransmitTo(p, q) \subseteq Message
    BY <1>1, ReqsToType DEF RetransmitTo
<1>4. {PREPARE, PRE_COMMIT, COMMIT, ABORT} \subseteq Phase
    BY DEF Phase
<1>5. RetransmitUp(p, state, up, col) \subseteq Message
    BY <1>1, <1>4, RespOfType DEF RetransmitUp
<1>. QED
    BY <1>2, <1>3, <1>5

\* Sending messages keeps the network a set of messages.
LEMMA SendType ==
    ASSUME TypeOK, NEW m, NEW S \in SUBSET Message, Send(m, S)
    PROVE  msgs' \subseteq Message
BY DEF TypeOK, Send

-----------------------------------------------------------------------------
(* Type correctness *)

\* The variables a phase change assigns.
PhaseTypeOK ==
    /\ upstream \in [Participants -> TxState]
    /\ collected \in [Participants -> SUBSET Participants]
    /\ logging \in [Participants -> StateLog \cup {NONE}]
    /\ logVersion \in [Participants -> Version]

\* submit_2pc_log_() submits one of the four state logs, or nothing.
LEMMA SubmitLogType ==
    ASSUME TypeOK, NEW p \in Participants, NEW down, NEW up, NEW pv \in Version,
           SubmitLog(p, down, up, pv)
    PROVE  /\ logging' \in [Participants -> StateLog \cup {NONE}]
           /\ logVersion' \in [Participants -> Version]
<1>1. PICK log \in (IF NeedLog(down, up) THEN {up, NONE} ELSE {NONE}) :
        /\ logging' = [logging EXCEPT ![p] = log]
        /\ logVersion' = IF log = PREPARE
                         THEN [logVersion EXCEPT ![p] = pv] ELSE logVersion
    BY DEF SubmitLog
<1>2. log \in StateLog \cup {NONE}
    BY <1>1 DEF NeedLog, StateLog
<1>. QED
    BY <1>1, <1>2 DEF TypeOK

\* drive_self_2pc_phase() keeps the phase variables well typed.
LEMMA DriveSelfType ==
    ASSUME TypeOK, NEW p \in Participants, NEW phase \in TxState, NEW down,
           NEW pv \in Version, NEW acks \in SUBSET Participants,
           DriveSelf(p, phase, down, pv, acks)
    PROVE  PhaseTypeOK'
<1>1. SubmitLog(p, down, phase, pv)
    BY DEF DriveSelf
<1>2. upstream' \in [Participants -> TxState]
    BY DEF DriveSelf, TypeOK
<1>3. collected' \in [Participants -> SUBSET Participants]
    BY DEF DriveSelf, TypeOK
<1>. QED
    BY <1>1, <1>2, <1>3, SubmitLogType DEF PhaseTypeOK

\* Entering the prepare phase keeps what it assigns well typed.
LEMMA EnterPrepareType ==
    ASSUME TypeOK, NEW p \in Participants, NEW m, EnterPrepare(p, m)
    PROVE  /\ PhaseTypeOK'
           /\ prepareVersion' \in [Participants -> Version]
           /\ forceAbort' \in [Participants -> BOOLEAN]
           /\ msgs' \subseteq Message
<1>1. CASE ~(forceAbort[p] /\ upstream[p] # PREPARE)
    <2>1. PICK v \in PrepareVersions(p) :
            /\ prepareVersion' = [prepareVersion EXCEPT ![p] = v]
            /\ DriveSelf(p, PREPARE, downstream[p], v, {})
        BY <1>1 DEF EnterPrepare
    <2>2. v \in Version
        BY DEF PrepareVersions, Version, TypeOK
    <2>3. PhaseTypeOK'
        BY <2>1, <2>2, DriveSelfType DEF TxState
    <2>4. ReqsTo(p, PREPARE, Downstream(p), 0) \subseteq Message
        BY ReqsToType, DownstreamType DEF Phase, Version
    <2>5. msgs' \subseteq Message
        BY <1>1, <2>4, SendType DEF EnterPrepare
    <2>. QED
        BY <1>1, <2>1, <2>2, <2>3, <2>5 DEF EnterPrepare, TypeOK
<1>2. CASE forceAbort[p] /\ upstream[p] # PREPARE
    <2>1. CompensateAbort(p) /\ Send(m, {}) /\ UNCHANGED prepareVersion
        BY <1>2 DEF EnterPrepare
    <2>2. PhaseTypeOK'
        BY <2>1 DEF CompensateAbort, PhaseTypeOK, TypeOK, TxState, StateLog
    <2>3. forceAbort' \in [Participants -> BOOLEAN]
        BY <2>1 DEF CompensateAbort, TypeOK
    <2>. QED
        BY <2>1, <2>2, <2>3, SendType DEF TypeOK
<1>. QED
    BY <1>1, <1>2

\* Entering PRE_COMMIT keeps what it assigns well typed.
LEMMA EnterPreCommitType ==
    ASSUME TypeOK, NEW p \in Participants, NEW cv \in Version, NEW m,
           EnterPreCommit(p, cv, m)
    PROVE  /\ PhaseTypeOK'
           /\ downstream' \in [Participants -> TxState]
           /\ commitVersion' \in [Participants -> Version]
           /\ gtsWaiting' \in BOOLEAN
           /\ msgs' \subseteq Message
<1>1. DriveSelf(p, PRE_COMMIT, PREPARE, 0, {})
    BY DEF EnterPreCommit
<1>2. PhaseTypeOK'
    BY <1>1, DriveSelfType DEF TxState, Version
<1>3. (IF IsLeaf(p) THEN RespOf(p, PRE_COMMIT, 0, cv)
       ELSE ReqsTo(p, PRE_COMMIT, Downstream(p), cv)) \subseteq Message
    BY RespOfType, ReqsToType, DownstreamType DEF Phase, Version
<1>4. msgs' \subseteq Message
    BY <1>3, SendType DEF EnterPreCommit
<1>5. gtsWaiting' \in BOOLEAN
    BY DEF EnterPreCommit, TypeOK
<1>. QED
    BY <1>2, <1>4, <1>5 DEF EnterPreCommit, TypeOK, TxState

\* Finishing the commit or abort phase keeps what it assigns well typed.
LEMMA FinishPhaseType ==
    ASSUME TypeOK, NEW p \in Participants, NEW phase \in Phase, NEW down,
           NEW acks \in SUBSET Participants, NEW m,
           commitVersion'[p] \in Version,
           FinishPhase(p, phase, down, acks, m)
    PROVE  PhaseTypeOK' /\ msgs' \subseteq Message
<1>1. CASE IsRoot(p)
    <2>1. /\ DriveSelf(p, CLEAR, down, 0, {})
          /\ Send(m, ReqsTo(p, CLEAR, Downstream(p), 0))
        BY <1>1 DEF FinishPhase
    <2>2. ReqsTo(p, CLEAR, Downstream(p), 0) \subseteq Message
        BY ReqsToType, DownstreamType DEF Phase, Version
    <2>. QED
        BY <2>1, <2>2, DriveSelfType, SendType DEF TxState, Version
<1>2. CASE ~IsRoot(p)
    <2>1. Send(m, RespOf(p, phase, 0, commitVersion'[p]))
        BY <1>2 DEF FinishPhase
    <2>2. RespOf(p, phase, 0, commitVersion'[p]) \subseteq Message
        BY RespOfType DEF Version
    <2>3. PhaseTypeOK'
        BY <1>2 DEF FinishPhase, PhaseTypeOK, TypeOK
    <2>. QED
        BY <2>1, <2>2, <2>3, SendType
<1>. QED
    BY <1>1, <1>2

\* The fields of a message in the network.
LEMMA MessageFields ==
    ASSUME TypeOK, NEW m \in msgs
    PROVE  /\ m.to \in Participants /\ m.from \in Participants
           /\ m.version \in Version /\ m.phase \in Phase
           /\ m.kind \in {"REQ", "RESP"}
BY DEF TypeOK, Message

\* A message that changes nothing but the network.
LEMMA QuietType ==
    ASSUME TypeOK, msgs' \subseteq Message,
           UNCHANGED <<phaseVars, versionVars, lifeVars, rootVars>>,
           faults' \in 0 .. MaxFaults
    PROVE  TypeOK'
BY DEF TypeOK, phaseVars, versionVars, lifeVars, rootVars

\* Dropping a message, answering from the state and reminding keep the types.
LEMMA IgnoreType ==
    ASSUME TypeOK, NEW m \in msgs, NEW state,
           Ignore(m) \/ AnswerReq(m, state) \/ Remind(m)
    PROVE  TypeOK'
<1>1. faults' \in 0 .. MaxFaults /\ UNCHANGED <<phaseVars, versionVars, lifeVars, rootVars>>
    BY DEF Ignore, AnswerReq, Remind, TypeOK
<1>2. CASE Ignore(m)
    BY <1>1, <1>2, SendType, QuietType DEF Ignore
<1>3. CASE AnswerReq(m, state)
    BY <1>1, <1>3, SendType, QuietType, RetransmitType, MessageFields DEF AnswerReq
<1>4. CASE Remind(m)
    BY <1>1, <1>4, SendType, QuietType, RetransmitType, MessageFields DEF Remind
<1>. QED
    BY <1>2, <1>3, <1>4

\* The request handlers keep the types.
LEMMA HandleReqType ==
    ASSUME TypeOK, NEW m \in msgs, HandleReq(m)
    PROVE  TypeOK'
<1> DEFINE p == m.to
<1>0. /\ p \in Participants /\ m.version \in Version
      /\ commitVersion[p] \in Version /\ prepareVersion[p] \in Version
    BY MessageFields DEF TypeOK
<1> HIDE DEF p
<1>1. CASE m.phase = PREPARE /\ HandlePrepareReq(m)
    <2>1. CASE \E state : Ignore(m) \/ AnswerReq(m, state)
        BY <2>1, IgnoreType
    <2>2. CASE /\ EnterPrepare(p, m)
               /\ UNCHANGED <<commitVersion, alive, downstream, outcome,
                              rootVars, faults>>
        BY <1>0, <2>2, EnterPrepareType DEF TypeOK, PhaseTypeOK, rootVars
    <2>. QED
        BY <1>1, <2>1, <2>2 DEF HandlePrepareReq, p
<1>2. CASE m.phase = PRE_COMMIT /\ HandlePreCommitReq(m)
    <2> DEFINE cv == MaxOf(commitVersion[p], m.version)
    <2>0. cv \in Version
        BY <1>0, MaxOfIsOne
    <2>1. CASE \E state : Ignore(m) \/ AnswerReq(m, state)
        BY <2>1, IgnoreType
    <2>2. CASE /\ commitVersion' = [commitVersion EXCEPT ![p] = cv]
               /\ Send(m, {})
               /\ UNCHANGED <<phaseVars, downstream, gtsWaiting>>
               /\ UNCHANGED <<prepareVersion, alive, forceAbort, outcome,
                              requested, answers, faults>>
        BY <1>0, <2>0, <2>2, SendType DEF TypeOK, phaseVars
    <2>3. CASE /\ EnterPreCommit(p, cv, m)
               /\ UNCHANGED <<prepareVersion, alive, forceAbort, outcome,
                              requested, answers, faults>>
        BY <1>0, <2>0, <2>3, EnterPreCommitType DEF TypeOK, PhaseTypeOK
    <2>. QED
        BY <1>2, <2>1, <2>2, <2>3 DEF HandlePreCommitReq, p
<1>3. CASE m.phase = COMMIT /\ HandleCommitReq(m)
    <2>1. CASE \E state : Ignore(m) \/ AnswerReq(m, state)
        BY <2>1, IgnoreType
    <2>2. CASE /\ commitVersion' =
                    [commitVersion EXCEPT ![p] = MaxOf(@, m.version)]
               /\ DriveSelf(p, COMMIT, downstream[p], 0, {})
               /\ Send(m, ReqsTo(p, COMMIT, Downstream(p), commitVersion'[p]))
               /\ UNCHANGED <<prepareVersion, lifeVars, rootVars, faults>>
        <3>1. commitVersion' \in [Participants -> Version]
            BY <1>0, <2>2, MaxOfIsOne DEF TypeOK
        <3>2. ReqsTo(p, COMMIT, Downstream(p), commitVersion'[p]) \subseteq Message
            BY <1>0, <3>1, ReqsToType, DownstreamType DEF Phase
        <3>3. PhaseTypeOK'
            BY <1>0, <2>2, DriveSelfType DEF TxState, Version
        <3>. QED
            BY <2>2, <3>1, <3>2, <3>3, SendType
            DEF TypeOK, PhaseTypeOK, lifeVars, rootVars
    <2>. QED
        BY <1>3, <2>1, <2>2 DEF HandleCommitReq, p
<1>4. ASSUME NEW phase \in {ABORT, CLEAR},
             DriveSelf(p, phase, downstream[p], 0, {}),
             Send(m, ReqsTo(p, phase, Downstream(p), 0)),
             UNCHANGED <<versionVars, lifeVars, rootVars, faults>>
      PROVE  TypeOK'
    <2>1. ReqsTo(p, phase, Downstream(p), 0) \subseteq Message
        BY <1>0, ReqsToType, DownstreamType DEF Phase, Version
    <2>2. PhaseTypeOK'
        BY <1>0, <1>4, DriveSelfType DEF TxState, Version
    <2>. QED
        BY <1>4, <2>1, <2>2, SendType
        DEF TypeOK, PhaseTypeOK, versionVars, lifeVars, rootVars
<1>5. CASE m.phase = ABORT /\ HandleAbortReq(m)
    <2>1. CASE \E state : Ignore(m) \/ AnswerReq(m, state)
        BY <2>1, IgnoreType
    <2>. QED
        BY <1>4, <1>5, <2>1 DEF HandleAbortReq, p
<1>6. CASE m.phase = CLEAR /\ HandleClearReq(m)
    <2>1. CASE \E state : Ignore(m) \/ AnswerReq(m, state)
        BY <2>1, IgnoreType
    <2>. QED
        BY <1>4, <1>6, <2>1 DEF HandleClearReq, p
<1>. QED
    BY <1>1, <1>2, <1>3, <1>5, <1>6 DEF HandleReq

\* The response handlers keep the types.
LEMMA HandleRespType ==
    ASSUME TypeOK, NEW m \in msgs, HandleResp(m)
    PROVE  TypeOK'
<1> DEFINE p == m.to
<1>0. /\ p \in Participants /\ m.from \in Participants /\ m.version \in Version
      /\ commitVersion[p] \in Version /\ prepareVersion[p] \in Version
    BY MessageFields DEF TypeOK
<1> HIDE DEF p
<1>1. ASSUME CollectOnly(m)
      PROVE  PhaseTypeOK' /\ msgs' \subseteq Message
    BY <1>0, <1>1, SendType DEF CollectOnly, TypeOK, PhaseTypeOK, p
<1>2. ASSUME PrepareRespImpl(m) PROVE TypeOK'
    <2> DEFINE pv == MaxOf(prepareVersion[p], m.version)
    <2>0. pv \in Version
        BY <1>0, MaxOfIsOne
    <2>. HIDE DEF pv
    <2>1. /\ prepareVersion' \in [Participants -> Version]
          /\ UNCHANGED <<alive, forceAbort, outcome, requested, answers, faults>>
        BY <1>0, <1>2, <2>0 DEF PrepareRespImpl, TypeOK, p, pv
    <2>2. CASE EnterPreCommit(p, pv, m)
        BY <1>0, <2>0, <2>1, <2>2, EnterPreCommitType DEF TypeOK, PhaseTypeOK
    <2>3. CASE WaitGts(p, pv) /\ CollectOnly(m) /\ UNCHANGED downstream
        BY <1>0, <1>1, <2>0, <2>1, <2>3 DEF TypeOK, PhaseTypeOK, WaitGts
    <2>4. CASE /\ collected' = [collected EXCEPT ![p] = @ \cup {m.from}]
               /\ Send(m, RespOf(p, PREPARE, pv, 0))
               /\ UNCHANGED <<upstream, logging, logVersion, downstream,
                              commitVersion, gtsWaiting>>
        <3>1. RespOf(p, PREPARE, pv, 0) \subseteq Message
            BY <1>0, <2>0, RespOfType DEF Phase, Version
        <3>. QED
            BY <1>0, <2>1, <2>4, <3>1, SendType DEF TypeOK
    <2>5. CASE CollectOnly(m) /\ UNCHANGED <<downstream, commitVersion, gtsWaiting>>
        BY <1>1, <2>1, <2>5 DEF TypeOK, PhaseTypeOK
    <2>. QED
        BY <1>2, <2>2, <2>3, <2>4, <2>5 DEF PrepareRespImpl, p, pv
<1>3. ASSUME PreCommitRespImpl(m) PROVE TypeOK'
    <2> DEFINE cv == MaxOf(commitVersion[p], m.version)
    <2>0. cv \in Version
        BY <1>0, MaxOfIsOne
    <2>. HIDE DEF cv
    <2>1. /\ prepareVersion' \in [Participants -> Version]
          /\ commitVersion' \in [Participants -> Version]
          /\ UNCHANGED <<lifeVars, requested, gtsWaiting, faults>>
        BY <1>0, <1>3, <2>0, MaxOfIsOne DEF PreCommitRespImpl, TypeOK, p, cv
    <2>2. CASE /\ DriveSelf(p, COMMIT, downstream[p], 0, {})
               /\ Answer(p, COMMIT)
               /\ Send(m, ReqsTo(p, COMMIT, Downstream(p), cv))
        <3>1. ReqsTo(p, COMMIT, Downstream(p), cv) \subseteq Message
            BY <1>0, <2>0, ReqsToType, DownstreamType DEF Phase
        <3>2. PhaseTypeOK'
            BY <1>0, <2>2, DriveSelfType DEF TxState, Version
        <3>3. answers' \subseteq {"committed", "killed"}
            BY <2>2 DEF Answer, TypeOK
        <3>. QED
            BY <2>1, <2>2, <3>1, <3>2, <3>3, SendType DEF TypeOK, PhaseTypeOK, lifeVars
    <2>3. CASE /\ collected' = [collected EXCEPT ![p] = @ \cup {m.from}]
               /\ Send(m, IF CompletesPhase(m) THEN RespOf(p, PRE_COMMIT, 0, cv)
                          ELSE {})
               /\ UNCHANGED <<upstream, logging, logVersion, answers>>
        <3>1. RespOf(p, PRE_COMMIT, 0, cv) \subseteq Message
            BY <1>0, <2>0, RespOfType DEF Phase, Version
        <3>2. msgs' \subseteq Message
            BY <2>3, <3>1, SendType
        <3>. QED
            BY <1>0, <2>1, <2>3, <3>2 DEF TypeOK, lifeVars
    <2>. QED
        BY <1>3, <2>2, <2>3 DEF PreCommitRespImpl, p, cv
<1>4. ASSUME AckRespImpl(m), upstream[p] \in Phase PROVE TypeOK'
    <2>1. /\ commitVersion' \in [Participants -> Version]
          /\ UNCHANGED <<prepareVersion, lifeVars, rootVars, faults>>
        BY <1>0, <1>4, MaxOfIsOne DEF AckRespImpl, TypeOK, p
    <2>2. CASE FinishPhase(p, upstream[p], downstream[p], {m.from}, m)
        <3>1. PhaseTypeOK' /\ msgs' \subseteq Message
            BY <1>0, <1>4, <2>1, <2>2, FinishPhaseType
        <3>. QED
            BY <2>1, <3>1 DEF TypeOK, PhaseTypeOK, lifeVars, rootVars
    <2>3. CASE CollectOnly(m)
        BY <1>1, <2>1, <2>3 DEF TypeOK, PhaseTypeOK, lifeVars, rootVars
    <2>. QED
        BY <1>4, <2>2, <2>3 DEF AckRespImpl, p
<1>5. ASSUME AbortRespImpl(m) PROVE TypeOK'
    <2>1. CASE Ignore(m)
        BY <2>1, IgnoreType
    <2>2. CASE /\ DriveSelf(p, ABORT, downstream[p], 0, {m.from})
               /\ Answer(p, ABORT)
               /\ Send(m, ReqsTo(p, ABORT, Downstream(p), 0))
               /\ UNCHANGED <<versionVars, lifeVars, requested, gtsWaiting, faults>>
        <3>1. ReqsTo(p, ABORT, Downstream(p), 0) \subseteq Message
            BY <1>0, ReqsToType, DownstreamType DEF Phase, Version
        <3>2. PhaseTypeOK'
            BY <1>0, <2>2, DriveSelfType DEF TxState, Version
        <3>3. answers' \subseteq {"committed", "killed"}
            BY <2>2 DEF Answer, TypeOK
        <3>. QED
            BY <2>2, <3>1, <3>2, <3>3, SendType
            DEF TypeOK, PhaseTypeOK, versionVars, lifeVars
    <2>. QED
        BY <1>5, <2>1, <2>2 DEF AbortRespImpl, p
<1>6. CASE Ignore(m) \/ Remind(m)
    BY <1>6, IgnoreType
<1>7. CASE HandlePrepareResp(m)
    BY <1>2, <1>6, <1>7 DEF HandlePrepareResp
<1>8. CASE HandlePreCommitResp(m)
    BY <1>3, <1>6, <1>8 DEF HandlePreCommitResp
<1>9. CASE HandleCommitResp(m)
    BY <1>4, <1>6, <1>9 DEF HandleCommitResp, Phase, p
<1>10. CASE HandleAbortResp(m)
    BY <1>4, <1>5, <1>6, <1>10 DEF HandleAbortResp, Phase, p
<1>. QED
    BY <1>7, <1>8, <1>9, <1>10 DEF HandleResp

\* An orphan's reply and a lost message keep the types.
LEMMA OrphanType ==
    ASSUME TypeOK, NEW m \in msgs, HandleOrphan(m) \/ Lose(m)
    PROVE  TypeOK'
<1>1. OrphanReply(m) \subseteq Message
    BY MessageFields DEF OrphanReply, OrphanResp, OrphanReq, Req, Resp, Message, Version, Phase
<1>2. msgs' \subseteq Message
    BY <1>1, SendType DEF HandleOrphan, Lose
<1>3. faults' \in 0 .. MaxFaults
    BY ParameterAssumption DEF HandleOrphan, Lose, TypeOK
<1>. QED
    BY <1>2, <1>3, QuietType DEF HandleOrphan, Lose

\* Log callbacks keep the types.
LEMMA LogSyncedType ==
    ASSUME TypeOK, NEW p \in Participants, LogSynced(p)
    PROVE  TypeOK'
<1>0. commitVersion[p] \in Version /\ prepareVersion[p] \in Version
    BY DEF TypeOK
<1>1. CASE ApplyPrepareLog(p)
    <2>1. UNCHANGED <<prepareVersion, alive, forceAbort, outcome,
                      requested, answers, faults>>
        BY <1>1 DEF ApplyPrepareLog
    <2>2. CASE EnterPreCommit(p, prepareVersion[p], NoMsg)
        BY <1>0, <2>1, <2>2, EnterPreCommitType DEF TypeOK, PhaseTypeOK
    <2>3. CASE /\ downstream' = [downstream EXCEPT ![p] = PREPARE]
               /\ logging' = [logging EXCEPT ![p] = NONE]
               /\ IF AllCollected(p) /\ ~IsRoot(p)
                  THEN Send(NoMsg, RespOf(p, PREPARE, prepareVersion[p], 0))
                  ELSE UNCHANGED msgs
               /\ IF AllCollected(p) /\ IsRoot(p)
                  THEN WaitGts(p, prepareVersion[p])
                  ELSE UNCHANGED <<gtsWaiting, commitVersion>>
               /\ UNCHANGED <<upstream, collected, logVersion>>
        <3>1. RespOf(p, PREPARE, prepareVersion[p], 0) \subseteq Message
            BY <1>0, RespOfType DEF Phase, Version
        <3>2. msgs' \subseteq Message
            BY <2>3, <3>1, SendType DEF TypeOK
        <3>3. commitVersion' \in [Participants -> Version] /\ gtsWaiting' \in BOOLEAN
            BY <1>0, <2>3 DEF WaitGts, TypeOK
        <3>. QED
            BY <2>1, <2>3, <3>2, <3>3 DEF TypeOK, TxState
    <2>. QED
        BY <1>1, <2>2, <2>3 DEF ApplyPrepareLog
<1>2. CASE ApplyCommitLog(p)
    <2>1. /\ downstream' \in [Participants -> TxState]
          /\ outcome' \in [Participants -> {"none", "commit", "abort"}]
          /\ UNCHANGED <<versionVars, alive, forceAbort, rootVars, faults>>
        BY <1>2 DEF ApplyCommitLog, TypeOK, TxState
    <2>2. PhaseTypeOK' /\ msgs' \subseteq Message
        <3>1. CASE FinishPhase(p, COMMIT, COMMIT, {}, NoMsg)
            BY <1>0, <2>1, <3>1, FinishPhaseType DEF Phase, versionVars
        <3>2. CASE /\ logging' = [logging EXCEPT ![p] = NONE]
                   /\ UNCHANGED <<upstream, collected, logVersion, msgs>>
            BY <3>2 DEF TypeOK, PhaseTypeOK
        <3>. QED
            BY <1>2, <3>1, <3>2 DEF ApplyCommitLog
    <2>. QED
        BY <2>1, <2>2 DEF TypeOK, PhaseTypeOK, versionVars, rootVars
<1>3. CASE ApplyAbortLog(p)
    <2>1. /\ downstream' \in [Participants -> TxState]
          /\ outcome' \in [Participants -> {"none", "commit", "abort"}]
          /\ alive' \in [Participants -> BOOLEAN]
          /\ answers' \subseteq {"committed", "killed"}
          /\ UNCHANGED <<versionVars, forceAbort, requested, gtsWaiting, faults>>
        <3>1. CASE ExitAborted(p)
            BY <1>3, <3>1 DEF ApplyAbortLog, ExitAborted, TypeOK, TxState
        <3>2. CASE /\ downstream' = [downstream EXCEPT ![p] = ABORT]
                   /\ outcome' = [outcome EXCEPT ![p] = "abort"]
                   /\ UNCHANGED <<alive, answers>>
            BY <1>3, <3>2 DEF ApplyAbortLog, TypeOK, TxState
        <3>. QED
            BY <1>3, <3>1, <3>2 DEF ApplyAbortLog
    <2>2. PhaseTypeOK' /\ msgs' \subseteq Message
        <3>1. CASE FinishPhase(p, ABORT, ABORT, {}, NoMsg)
            BY <1>0, <2>1, <3>1, FinishPhaseType DEF Phase, versionVars
        <3>2. CASE /\ logging' = [logging EXCEPT ![p] = NONE]
                   /\ UNCHANGED <<upstream, collected, logVersion, msgs>>
            BY <3>2 DEF TypeOK, PhaseTypeOK
        <3>. QED
            BY <1>3, <3>1, <3>2 DEF ApplyAbortLog, ExitAborted
    <2>. QED
        BY <2>1, <2>2 DEF TypeOK, PhaseTypeOK, versionVars
<1>4. CASE ApplyClearLog(p)
    BY <1>4 DEF ApplyClearLog, TypeOK, TxState, versionVars, rootVars
<1>. QED
    BY <1>1, <1>2, <1>3, <1>4 DEF LogSynced

\* The commit info log, a failed log, and a local abort keep the types.
LEMMA LocalType ==
    ASSUME TypeOK, NEW p \in Participants,
           CommitInfoSynced(p) \/ LogFailed(p) \/ LocalAbort(p)
    PROVE  TypeOK'
<1>1. CASE CommitInfoSynced(p)
    BY <1>1 DEF CommitInfoSynced, TypeOK, TxState, phaseVars, versionVars, rootVars
<1>2. CASE LogFailed(p)
    BY <1>2 DEF LogFailed, ExitAborted, TypeOK, TxState, versionVars
<1>3. CASE LocalAbort(p)
    BY <1>3 DEF LocalAbort, CompensateAbort, ExitAborted, TypeOK, TxState,
                StateLog, versionVars
<1>. QED
    BY <1>1, <1>2, <1>3

\* The scheduler's requests, the timers and gts keep the types.
LEMMA DriverType ==
    ASSUME TypeOK,
           \/ CommitRequest \/ CommitRequestOnTxTable \/ GtsElapsed
           \/ \E p \in Participants : Timeout(p)
    PROVE  TypeOK'
<1>0. Root \in Participants
    BY TreeAssumption
<1>1. CASE CommitRequest
    <2>1. /\ UNCHANGED <<commitVersion, alive, downstream, outcome, gtsWaiting, faults>>
          /\ requested' \in BOOLEAN
          /\ answers' \subseteq {"committed", "killed"}
        BY <1>1 DEF CommitRequest, TypeOK
    <2>2. CASE EnterPrepare(Root, NoMsg)
        BY <1>0, <2>1, <2>2, EnterPrepareType DEF TypeOK, PhaseTypeOK
    <2>3. CASE UNCHANGED <<phaseVars, prepareVersion, forceAbort, msgs>>
        BY <2>1, <2>3 DEF TypeOK, phaseVars
    <2>. QED
        BY <1>1, <2>2, <2>3 DEF CommitRequest
<1>2. CASE CommitRequestOnTxTable
    BY <1>2 DEF CommitRequestOnTxTable, TypeOK, phaseVars, versionVars, lifeVars
<1>3. CASE GtsElapsed
    BY <1>0, <1>3, EnterPreCommitType DEF GtsElapsed, TypeOK, PhaseTypeOK
<1>4. ASSUME NEW p \in Participants, Timeout(p)
      PROVE  TypeOK'
    <2>1. UNCHANGED <<commitVersion, alive, downstream, outcome, gtsWaiting,
                      answers, faults>>
        BY <1>4 DEF Timeout
    <2>2. CASE EnterPrepare(p, NoMsg) /\ requested' = (requested \/ IsRoot(p))
        BY <2>1, <2>2, EnterPrepareType DEF TypeOK, PhaseTypeOK, IsRoot
    <2>3. CASE /\ IF Busy(p) THEN UNCHANGED <<logging, logVersion>>
                  ELSE SubmitLog(p, downstream[p], upstream[p], prepareVersion[p])
               /\ Send(NoMsg, RetransmitDown(p, upstream[p], collected[p])
                       \cup RetransmitUp(p, downstream[p], upstream[p], collected[p]))
               /\ UNCHANGED <<upstream, collected, prepareVersion, forceAbort, requested>>
        <3>1. prepareVersion[p] \in Version
            BY DEF TypeOK
        <3>2. /\ logging' \in [Participants -> StateLog \cup {NONE}]
              /\ logVersion' \in [Participants -> Version]
            BY <2>3, <3>1, SubmitLogType DEF TypeOK
        <3>3. msgs' \subseteq Message
            BY <2>3, SendType, RetransmitType
        <3>. QED
            BY <2>1, <2>3, <3>2, <3>3 DEF TypeOK
    <2>. QED
        BY <1>4, <2>2, <2>3 DEF Timeout
<1>. QED
    BY <1>1, <1>2, <1>3, <1>4

\* A leader change keeps the types.
LEMMA FailoverType ==
    ASSUME TypeOK, NEW p \in Participants, Failover(p)
    PROVE  TypeOK'
<1>1. /\ faults' \in 0 .. MaxFaults
      /\ collected' \in [Participants -> SUBSET Participants]
      /\ gtsWaiting' \in BOOLEAN
      /\ UNCHANGED <<logVersion, msgs>>
    <2>1. faults' \in 0 .. MaxFaults
        BY ParameterAssumption DEF Failover, TypeOK
    <2>2. gtsWaiting' \in BOOLEAN
        BY DEF Failover, TypeOK
    <2>. QED
        BY <2>1, <2>2 DEF Failover, TypeOK
<1>2. ASSUME NEW d \in RecoveredStates(p), RecoverFrom(p, d),
             forceAbort' \in [Participants -> BOOLEAN],
             logging' = [logging EXCEPT ![p] = NONE], UNCHANGED answers
      PROVE  TypeOK'
    <2>1. d \in TxState
        BY DEF RecoveredStates, TypeOK, TxState, StateLog
    <2>2. /\ downstream' \in [Participants -> TxState]
          /\ upstream' \in [Participants -> TxState]
          /\ alive' \in [Participants -> BOOLEAN]
          /\ requested' \in BOOLEAN
        BY <1>2, <2>1 DEF RecoverFrom, TypeOK
    <2>3. outcome' \in [Participants -> {"none", "commit", "abort"}]
        BY <1>2 DEF RecoverFrom, TypeOK
    <2>4. /\ prepareVersion' \in [Participants -> Version]
          /\ commitVersion' \in [Participants -> Version]
        BY <1>2 DEF RecoverFrom, TypeOK, Version
    <2>. QED
        BY <1>1, <1>2, <2>2, <2>3, <2>4 DEF TypeOK
<1>3. CASE /\ ExitAborted(p)
           /\ UNCHANGED <<upstream, versionVars, forceAbort, requested>>
    BY <1>1, <1>3 DEF ExitAborted, TypeOK, TxState, versionVars
<1>4. CASE \E d \in RecoveredStates(p) :
            /\ RecoverFrom(p, d)
            /\ \/ forceAbort' = [forceAbort EXCEPT ![p] = FALSE]
               \/ UNCHANGED forceAbort
               \/ forceAbort' = [forceAbort EXCEPT ![p] = TRUE]
            /\ logging' = [logging EXCEPT ![p] = NONE]
            /\ UNCHANGED answers
    BY <1>2, <1>4 DEF TypeOK
<1>. QED
    BY <1>3, <1>4 DEF Failover

\* The initial state is well typed.
LEMMA InitType == Init => TypeOK
<1>1. Init => /\ alive \in [Participants -> BOOLEAN]
              /\ forceAbort \in [Participants -> BOOLEAN]
              /\ requested \in BOOLEAN /\ gtsWaiting \in BOOLEAN
    BY DEF Init
<1>2. Init => faults \in 0 .. MaxFaults
    BY ParameterAssumption DEF Init
<1>. QED
    BY <1>1, <1>2 DEF Init, TypeOK, TxState, Version

\* Every step keeps the types.
LEMMA TypeInduction ==
    ASSUME TypeOK, [Next]_vars
    PROVE  TypeOK'
<1>1. CASE UNCHANGED vars
    BY <1>1 DEF TypeOK, vars, phaseVars, versionVars, lifeVars, rootVars
<1>2. CASE CommitRequest \/ CommitRequestOnTxTable \/ GtsElapsed
    BY <1>2, DriverType
<1>3. ASSUME NEW m \in msgs, Receive(m) \/ Lose(m) PROVE TypeOK'
    BY <1>3, HandleReqType, HandleRespType, OrphanType DEF Receive
<1>4. ASSUME NEW p \in Participants,
             \/ LogSynced(p) \/ CommitInfoSynced(p) \/ LogFailed(p)
             \/ Timeout(p) \/ LocalAbort(p) \/ Failover(p)
      PROVE  TypeOK'
    BY <1>4, LogSyncedType, LocalType, DriverType, FailoverType
<1>. QED
    BY <1>1, <1>2, <1>3, <1>4 DEF Next

\* Every state the committer reaches is well typed, for any tree of
\* participants: no handler, log callback, timer or leader change puts a value
\* of another kind into the context, the network or the history.
THEOREM TypeCorrect == Spec => []TypeOK
<1>1. TypeOK /\ [Next]_vars => TypeOK'
    BY TypeInduction
<1>. QED
    BY <1>1, InitType, PTL DEF Spec

-----------------------------------------------------------------------------
(* What one context knows about itself *)

\* The fields of the context of q that CtxOK speaks of.
SameAt(q) ==
    /\ alive'[q] = alive[q] /\ upstream'[q] = upstream[q]
    /\ downstream'[q] = downstream[q] /\ logging'[q] = logging[q]
    /\ forceAbort'[q] = forceAbort[q] /\ outcome'[q] = outcome[q]

\* A step that leaves a context alone leaves it consistent.
LEMMA FrameCtx ==
    ASSUME NEW q \in Participants, CtxOK(q), SameAt(q)
    PROVE  CtxOK(q)'
BY DEF CtxOK, LifeOK, PhaseOK, LogOK, ForceOK, SameAt

\* A step of p that leaves every other context alone.
LEMMA OneCtx ==
    ASSUME LocalInv, NEW p \in Participants, CtxOK(p)',
           \A q \in Participants \ {p} : SameAt(q)
    PROVE  \A q \in Participants : CtxOK(q)'
BY FrameCtx DEF LocalInv

\* What a phase change assigns: the new phase, and the log that goes with it
\* or none.
LEMMA DriveSelfEffect ==
    ASSUME TypeOK, NEW p \in Participants, NEW phase, NEW down, NEW pv, NEW acks,
           DriveSelf(p, phase, down, pv, acks)
    PROVE  /\ upstream'[p] = phase
           /\ logging'[p] = NONE \/ (logging'[p] = phase /\ NeedLog(down, phase))
           /\ \A q \in Participants \ {p} :
                upstream'[q] = upstream[q] /\ logging'[q] = logging[q]
BY DEF DriveSelf, SubmitLog, TypeOK

USE DEF INIT, REDO_COMPLETE, PREPARE, PRE_COMMIT, COMMIT, ABORT, CLEAR, NONE

\* Steps that leave all contexts alone.
LEMMA QuietCtx ==
    ASSUME LocalInv, UNCHANGED <<alive, upstream, downstream, logging,
                                 forceAbort, outcome>>
    PROVE  \A q \in Participants : CtxOK(q)'
BY FrameCtx DEF LocalInv, SameAt

\* Entering the prepare phase, or aborting instead of it.
LEMMA EnterPrepareCtx ==
    ASSUME LocalInv, NEW p \in Participants, NEW m, EnterPrepare(p, m),
           alive[p], ~Busy(p), downstream[p] \in {INIT, REDO_COMPLETE},
           UNCHANGED <<alive, downstream, outcome>>
    PROVE  \A q \in Participants : CtxOK(q)'
<1>0. TypeOK /\ CtxOK(p)
    BY DEF LocalInv
<1>1. CASE ~(forceAbort[p] /\ upstream[p] # PREPARE)
    <2>1. PICK v : DriveSelf(p, PREPARE, downstream[p], v, {})
        BY <1>1 DEF EnterPrepare
    <2>2. UNCHANGED forceAbort
        BY <1>1 DEF EnterPrepare
    <2>3. ~forceAbort[p]
        BY <1>0, <1>1 DEF CtxOK, ForceOK
    <2>4. CtxOK(p)'
        BY <1>0, <2>1, <2>2, <2>3, DriveSelfEffect
        DEF CtxOK, LifeOK, PhaseOK, LogOK, ForceOK, NeedLog
    <2>5. \A q \in Participants \ {p} : SameAt(q)
        BY <1>0, <2>1, <2>2, DriveSelfEffect DEF SameAt
    <2>. QED
        BY <2>4, <2>5, OneCtx
<1>2. CASE forceAbort[p] /\ upstream[p] # PREPARE
    <2>1. CompensateAbort(p)
        BY <1>2 DEF EnterPrepare
    <2>2. downstream[p] = INIT
        BY <1>0, <1>2 DEF CtxOK, ForceOK
    <2>3. CtxOK(p)'
        BY <1>0, <2>1, <2>2
        DEF CompensateAbort, TypeOK, CtxOK, LifeOK, PhaseOK, LogOK, ForceOK
    <2>4. \A q \in Participants \ {p} : SameAt(q)
        BY <1>0, <2>1 DEF CompensateAbort, SameAt, TypeOK
    <2>. QED
        BY <2>3, <2>4, OneCtx
<1>. QED
    BY <1>1, <1>2

\* Entering PRE_COMMIT from a durable prepare.
LEMMA EnterPreCommitCtx ==
    ASSUME LocalInv, NEW p \in Participants, NEW cv, NEW m,
           EnterPreCommit(p, cv, m),
           alive[p], outcome[p] = "none", ~forceAbort[p],
           UNCHANGED <<alive, forceAbort, outcome>>
    PROVE  \A q \in Participants : CtxOK(q)'
<1>0. TypeOK /\ CtxOK(p)
    BY DEF LocalInv
<1>1. /\ DriveSelf(p, PRE_COMMIT, PREPARE, 0, {})
      /\ downstream' = [downstream EXCEPT ![p] = PRE_COMMIT]
    BY DEF EnterPreCommit
<1>2. downstream'[p] = PRE_COMMIT
    BY <1>0, <1>1 DEF TypeOK
<1>3. CtxOK(p)'
    BY <1>0, <1>1, <1>2, DriveSelfEffect
    DEF CtxOK, LifeOK, PhaseOK, LogOK, ForceOK, NeedLog
<1>4. \A q \in Participants \ {p} : SameAt(q)
    BY <1>0, <1>1, DriveSelfEffect DEF SameAt, TypeOK
<1>. QED
    BY <1>3, <1>4, OneCtx

\* A phase change that touches nothing else of the context.
LEMMA DriveSelfCtx ==
    ASSUME LocalInv, NEW p \in Participants, NEW acks, NEW pv,
           NEW phase \in {COMMIT, ABORT, CLEAR},
           DriveSelf(p, phase, downstream[p], pv, acks), alive[p],
           \/ phase = COMMIT /\ downstream[p] \in {PREPARE, PRE_COMMIT}
           \/ phase = ABORT /\ downstream[p] \in {INIT, REDO_COMPLETE, PREPARE}
           \/ phase = CLEAR /\ downstream[p] \in {COMMIT, ABORT},
           UNCHANGED <<alive, downstream, forceAbort, outcome>>
    PROVE  \A q \in Participants : CtxOK(q)'
<1>0. TypeOK /\ CtxOK(p)
    BY DEF LocalInv
<1>1. CtxOK(p)'
    BY <1>0, DriveSelfEffect
    DEF CtxOK, LifeOK, PhaseOK, LogOK, ForceOK, NeedLog
<1>2. \A q \in Participants \ {p} : SameAt(q)
    BY <1>0, DriveSelfEffect DEF SameAt
<1>. QED
    BY <1>1, <1>2, OneCtx

\* The request handlers keep the contexts consistent.
LEMMA HandleReqCtx ==
    ASSUME LocalInv, NEW m \in msgs, HandleReq(m)
    PROVE  \A q \in Participants : CtxOK(q)'
<1> DEFINE p == m.to
<1>0. TypeOK /\ p \in Participants /\ CtxOK(p) /\ alive[p]
    BY MessageFields DEF LocalInv, HandleReq
<1> HIDE DEF p
<1>1. CASE \E state : Ignore(m) \/ AnswerReq(m, state)
    BY <1>1, QuietCtx DEF Ignore, AnswerReq, phaseVars, lifeVars
<1>2. CASE HandlePrepareReq(m)
    BY <1>0, <1>1, <1>2, EnterPrepareCtx DEF HandlePrepareReq, p
<1>3. CASE HandlePreCommitReq(m)
    <2>1. CASE UNCHANGED <<phaseVars, downstream, alive, forceAbort, outcome>>
        BY <2>1, QuietCtx DEF phaseVars
    <2>2. CASE /\ \E cv : EnterPreCommit(p, cv, m)
               /\ downstream[p] = PREPARE
               /\ UNCHANGED <<alive, forceAbort, outcome>>
        <3>1. outcome[p] = "none" /\ ~forceAbort[p]
            BY <1>0, <2>2 DEF CtxOK, LifeOK, ForceOK, TypeOK
        <3>. QED
            BY <1>0, <2>2, <3>1, EnterPreCommitCtx
    <2>. QED
        BY <1>1, <1>3, <2>1, <2>2 DEF HandlePreCommitReq, p
<1>4. CASE HandleCommitReq(m)
    BY <1>0, <1>1, <1>4, DriveSelfCtx DEF HandleCommitReq, lifeVars, p
<1>5. CASE HandleAbortReq(m)
    BY <1>0, <1>1, <1>5, DriveSelfCtx DEF HandleAbortReq, lifeVars, p
<1>6. CASE HandleClearReq(m)
    BY <1>0, <1>1, <1>6, DriveSelfCtx DEF HandleClearReq, lifeVars, p
<1>. QED
    BY <1>2, <1>3, <1>4, <1>5, <1>6 DEF HandleReq

\* The last acknowledgement of the commit or abort phase.
LEMMA FinishPhaseCtx ==
    ASSUME LocalInv, NEW p \in Participants, NEW phase, NEW acks, NEW m,
           NEW down \in {COMMIT, ABORT}, FinishPhase(p, phase, down, acks, m),
           alive[p], downstream'[p] = down,
           outcome'[p] = (IF down = COMMIT THEN "commit" ELSE "abort"),
           upstream[p] = down, ~forceAbort[p],
           \A q \in Participants \ {p} : /\ downstream'[q] = downstream[q]
                                       /\ outcome'[q] = outcome[q],
           UNCHANGED <<alive, forceAbort>>
    PROVE  \A q \in Participants : CtxOK(q)'
<1>0. TypeOK /\ CtxOK(p)
    BY DEF LocalInv
<1>1. CASE IsRoot(p)
    <2>1. DriveSelf(p, CLEAR, down, 0, {})
        BY <1>1 DEF FinishPhase
    <2>2. CtxOK(p)'
        BY <1>0, <2>1, DriveSelfEffect
        DEF CtxOK, LifeOK, PhaseOK, LogOK, ForceOK, NeedLog
    <2>3. \A q \in Participants \ {p} : SameAt(q)
        BY <1>0, <2>1, DriveSelfEffect DEF SameAt
    <2>. QED
        BY <2>2, <2>3, OneCtx
<1>2. CASE ~IsRoot(p)
    <2>1. logging' = [logging EXCEPT ![p] = NONE] /\ UNCHANGED upstream
        BY <1>2 DEF FinishPhase
    <2>2. logging'[p] = NONE /\ \A q \in Participants \ {p} : logging'[q] = logging[q]
        BY <1>0, <2>1 DEF TypeOK
    <2>3. CtxOK(p)'
        BY <1>0, <2>1, <2>2 DEF CtxOK, LifeOK, PhaseOK, LogOK, ForceOK
    <2>4. \A q \in Participants \ {p} : SameAt(q)
        BY <2>1, <2>2 DEF SameAt
    <2>. QED
        BY <2>3, <2>4, OneCtx
<1>. QED
    BY <1>1, <1>2

\* The response handlers keep the contexts consistent.
LEMMA HandleRespCtx ==
    ASSUME LocalInv, NEW m \in msgs, HandleResp(m)
    PROVE  \A q \in Participants : CtxOK(q)'
<1> DEFINE p == m.to
<1>0. TypeOK /\ p \in Participants /\ CtxOK(p) /\ alive[p]
    BY MessageFields DEF LocalInv, HandleResp
<1> HIDE DEF p
<1>1. CASE Ignore(m) \/ Remind(m)
    BY <1>1, QuietCtx DEF Ignore, Remind, phaseVars, lifeVars
<1>2. CASE upstream[p] = PREPARE /\ PrepareRespImpl(m)
    <2>1. CASE UNCHANGED <<upstream, logging, downstream, alive, forceAbort, outcome>>
        BY <2>1, QuietCtx
    <2>2. CASE /\ \E cv : EnterPreCommit(p, cv, m)
               /\ downstream[p] = PREPARE
               /\ UNCHANGED <<alive, forceAbort, outcome>>
        <3>1. outcome[p] = "none" /\ ~forceAbort[p]
            BY <1>0, <2>2 DEF CtxOK, LifeOK, ForceOK, TypeOK
        <3>. QED
            BY <1>0, <2>2, <3>1, EnterPreCommitCtx
    <2>. QED
        BY <1>2, <2>1, <2>2 DEF PrepareRespImpl, CollectOnly, p
<1>3. CASE upstream[p] = PRE_COMMIT /\ PreCommitRespImpl(m)
    <2>1. UNCHANGED <<alive, downstream, forceAbort, outcome>>
        BY <1>3 DEF PreCommitRespImpl, lifeVars
    <2>2. CASE UNCHANGED <<upstream, logging>>
        BY <2>1, <2>2, QuietCtx
    <2>3. CASE DriveSelf(p, COMMIT, downstream[p], 0, {})
        <3>1. downstream[p] \in {PREPARE, PRE_COMMIT}
            BY <1>0, <1>3 DEF CtxOK, PhaseOK, LifeOK, TypeOK, TxState
        <3>. QED
            BY <1>0, <2>1, <2>3, <3>1, DriveSelfCtx
    <2>. QED
        BY <1>3, <2>2, <2>3 DEF PreCommitRespImpl, p
<1>4. CASE upstream[p] \in {COMMIT, ABORT} /\ AckRespImpl(m)
    <2>1. UNCHANGED <<alive, downstream, forceAbort, outcome>>
        BY <1>4 DEF AckRespImpl, lifeVars
    <2>2. CASE CollectOnly(m)
        BY <2>1, <2>2, QuietCtx DEF CollectOnly
    <2>3. CASE /\ downstream[p] \in {COMMIT, ABORT}
               /\ FinishPhase(p, upstream[p], downstream[p], {m.from}, m)
        <3>1. /\ upstream[p] = downstream[p] /\ ~forceAbort[p]
              /\ outcome[p] = (IF downstream[p] = COMMIT THEN "commit" ELSE "abort")
            BY <1>0, <1>4, <2>3 DEF CtxOK, PhaseOK, LifeOK, ForceOK, TypeOK
        <3>. QED
            BY <1>0, <2>1, <2>3, <3>1, FinishPhaseCtx
    <2>. QED
        BY <1>4, <2>2, <2>3 DEF AckRespImpl, p
<1>5. CASE AbortRespImpl(m)
    BY <1>0, <1>1, <1>5, DriveSelfCtx DEF AbortRespImpl, lifeVars, p
<1>6. CASE HandlePrepareResp(m)
    BY <1>1, <1>2, <1>6 DEF HandlePrepareResp, p
<1>7. CASE HandlePreCommitResp(m)
    BY <1>1, <1>3, <1>7 DEF HandlePreCommitResp, p
<1>8. CASE HandleCommitResp(m)
    BY <1>1, <1>4, <1>8 DEF HandleCommitResp, p
<1>9. CASE HandleAbortResp(m)
    BY <1>1, <1>4, <1>5, <1>9 DEF HandleAbortResp, p
<1>. QED
    BY <1>6, <1>7, <1>8, <1>9 DEF HandleResp

\* Log callbacks keep the contexts consistent.
LEMMA LogSyncedCtx ==
    ASSUME LocalInv, NEW p \in Participants, LogSynced(p)
    PROVE  \A q \in Participants : CtxOK(q)'
<1>0. TypeOK /\ CtxOK(p) /\ alive[p]
    BY DEF LocalInv, LogSynced
<1>1. CASE ApplyPrepareLog(p)
    <2>1. /\ outcome[p] = "none" /\ ~forceAbort[p] /\ upstream[p] = PREPARE
          /\ UNCHANGED <<alive, forceAbort, outcome>>
        BY <1>0, <1>1 DEF ApplyPrepareLog, CtxOK, LifeOK, ForceOK, TypeOK
    <2>2. CASE EnterPreCommit(p, prepareVersion[p], NoMsg)
        BY <1>0, <2>1, <2>2, EnterPreCommitCtx
    <2>3. CASE /\ downstream' = [downstream EXCEPT ![p] = PREPARE]
               /\ logging' = [logging EXCEPT ![p] = NONE]
               /\ UNCHANGED upstream
        <3>1. downstream'[p] = PREPARE /\ logging'[p] = NONE
            BY <1>0, <2>3 DEF TypeOK
        <3>2. CtxOK(p)'
            BY <1>0, <2>1, <2>3, <3>1 DEF CtxOK, LifeOK, PhaseOK, LogOK, ForceOK
        <3>3. \A q \in Participants \ {p} : SameAt(q)
            BY <1>0, <2>1, <2>3 DEF SameAt, TypeOK
        <3>. QED
            BY <3>2, <3>3, OneCtx
    <2>. QED
        BY <1>1, <2>2, <2>3 DEF ApplyPrepareLog
<1>2. ASSUME NEW down \in {COMMIT, ABORT}, logging[p] = down, ~forceAbort[p],
             downstream' = [downstream EXCEPT ![p] = down],
             outcome' = [outcome EXCEPT ![p] =
                            IF down = COMMIT THEN "commit" ELSE "abort"],
             \/ FinishPhase(p, down, down, {}, NoMsg)
             \/ /\ logging' = [logging EXCEPT ![p] = NONE]
                /\ UNCHANGED upstream,
             UNCHANGED <<alive, forceAbort>>
      PROVE  \A q \in Participants : CtxOK(q)'
    <2>1. /\ downstream'[p] = down /\ upstream[p] = down
          /\ outcome'[p] = (IF down = COMMIT THEN "commit" ELSE "abort")
          /\ \A q \in Participants \ {p} : /\ downstream'[q] = downstream[q]
                                         /\ outcome'[q] = outcome[q]
        BY <1>0, <1>2 DEF TypeOK, CtxOK, LogOK
    <2>2. CASE FinishPhase(p, down, down, {}, NoMsg)
        BY <1>0, <1>2, <2>1, <2>2, FinishPhaseCtx
    <2>3. CASE logging' = [logging EXCEPT ![p] = NONE] /\ UNCHANGED upstream
        <3>1. logging'[p] = NONE /\ \A q \in Participants \ {p} : logging'[q] = logging[q]
            BY <1>0, <2>3 DEF TypeOK
        <3>2. CtxOK(p)'
            BY <1>0, <1>2, <2>1, <2>3, <3>1
            DEF CtxOK, LifeOK, PhaseOK, LogOK, ForceOK
        <3>3. \A q \in Participants \ {p} : SameAt(q)
            BY <1>2, <2>1, <2>3, <3>1 DEF SameAt
        <3>. QED
            BY <3>2, <3>3, OneCtx
    <2>. QED
        BY <1>2, <2>2, <2>3
<1>3. CASE ApplyCommitLog(p)
    <2>1. ~forceAbort[p]
        BY <1>0, <1>3 DEF ApplyCommitLog, CtxOK, ForceOK
    <2>. QED
        BY <1>2, <1>3, <2>1 DEF ApplyCommitLog
<1>4. CASE ApplyAbortLog(p) /\ ~forceAbort[p]
    BY <1>2, <1>4 DEF ApplyAbortLog
<1>5. CASE ApplyAbortLog(p) /\ forceAbort[p]
    <2>1. ExitAborted(p) /\ UNCHANGED <<upstream, forceAbort>>
        BY <1>5 DEF ApplyAbortLog
    <2>2. CtxOK(p)'
        BY <1>0, <2>1 DEF ExitAborted, TypeOK, CtxOK, LifeOK, PhaseOK, LogOK, ForceOK
    <2>3. \A q \in Participants \ {p} : SameAt(q)
        BY <1>0, <2>1 DEF ExitAborted, TypeOK, SameAt
    <2>. QED
        BY <2>2, <2>3, OneCtx
<1>6. CASE ApplyClearLog(p)
    <2>1. outcome[p] # "none" /\ (outcome[p] = "commit" <=> downstream[p] = COMMIT)
        BY <1>0, <1>6 DEF ApplyClearLog, CtxOK, LifeOK, TypeOK
    <2>2. CtxOK(p)'
        BY <1>0, <1>6, <2>1
        DEF ApplyClearLog, TypeOK, CtxOK, LifeOK, PhaseOK, LogOK, ForceOK
    <2>3. \A q \in Participants \ {p} : SameAt(q)
        BY <1>0, <1>6 DEF ApplyClearLog, TypeOK, SameAt
    <2>. QED
        BY <2>2, <2>3, OneCtx
<1>. QED
    BY <1>1, <1>3, <1>4, <1>5, <1>6 DEF LogSynced

\* A forced exit keeps the contexts consistent.
LEMMA ExitAbortedCtx ==
    ASSUME LocalInv, NEW p \in Participants, ExitAborted(p), UNCHANGED upstream,
           \A q \in Participants \ {p} : forceAbort'[q] = forceAbort[q]
    PROVE  \A q \in Participants : CtxOK(q)'
<1>0. TypeOK /\ CtxOK(p)
    BY DEF LocalInv
<1>1. CtxOK(p)'
    BY <1>0 DEF ExitAborted, TypeOK, CtxOK, LifeOK, PhaseOK, LogOK, ForceOK
<1>2. \A q \in Participants \ {p} : SameAt(q)
    BY <1>0 DEF ExitAborted, TypeOK, SameAt
<1>. QED
    BY <1>1, <1>2, OneCtx

\* The commit info log, a failed log, and a local abort keep the contexts
\* consistent.
LEMMA LocalCtx ==
    ASSUME LocalInv, NEW p \in Participants,
           CommitInfoSynced(p) \/ LogFailed(p) \/ LocalAbort(p)
    PROVE  \A q \in Participants : CtxOK(q)'
<1>0. TypeOK /\ CtxOK(p) /\ alive[p]
    BY DEF LocalInv, CommitInfoSynced, LogFailed, LocalAbort
<1>1. CASE CommitInfoSynced(p)
    <2>1. /\ downstream'[p] = REDO_COMPLETE
          /\ downstream[p] = INIT /\ upstream[p] = PREPARE
          /\ UNCHANGED <<alive, upstream, logging, forceAbort, outcome>>
        BY <1>0, <1>1 DEF CommitInfoSynced, TypeOK, phaseVars
    <2>2. CtxOK(p)'
        BY <1>0, <2>1 DEF CtxOK, LifeOK, PhaseOK, LogOK, ForceOK
    <2>3. \A q \in Participants \ {p} : SameAt(q)
        BY <1>0, <1>1, <2>1 DEF CommitInfoSynced, SameAt, TypeOK
    <2>. QED
        BY <2>2, <2>3, OneCtx
<1>2. CASE LogFailed(p)
    <2>1. CASE ExitAborted(p)
        BY <1>2, <2>1, ExitAbortedCtx DEF LogFailed
    <2>2. CASE /\ logging' = [logging EXCEPT ![p] = NONE]
               /\ UNCHANGED <<alive, upstream, downstream, forceAbort, outcome>>
        <3>1. CtxOK(p)'
            BY <1>0, <2>2 DEF TypeOK, CtxOK, LifeOK, PhaseOK, LogOK, ForceOK
        <3>2. \A q \in Participants \ {p} : SameAt(q)
            BY <1>0, <2>2 DEF TypeOK, SameAt
        <3>. QED
            BY <3>1, <3>2, OneCtx
    <2>. QED
        BY <1>2, <2>1, <2>2 DEF LogFailed
<1>3. CASE LocalAbort(p)
    <2>1. CASE ExitAborted(p) /\ UNCHANGED upstream
               /\ forceAbort' = [forceAbort EXCEPT ![p] = TRUE]
        BY <1>0, <2>1, ExitAbortedCtx DEF TypeOK
    <2>2. CASE CompensateAbort(p) /\ UNCHANGED <<alive, downstream, outcome>>
        <3>1. downstream[p] = INIT
            BY <1>3 DEF LocalAbort
        <3>2. CtxOK(p)'
            BY <1>0, <2>2, <3>1
            DEF CompensateAbort, TypeOK, CtxOK, LifeOK, PhaseOK, LogOK, ForceOK
        <3>3. \A q \in Participants \ {p} : SameAt(q)
            BY <1>0, <2>2 DEF CompensateAbort, TypeOK, SameAt
        <3>. QED
            BY <3>2, <3>3, OneCtx
    <2>. QED
        BY <1>3, <2>1, <2>2 DEF LocalAbort
<1>. QED
    BY <1>1, <1>2, <1>3

\* The scheduler's requests, the timers and gts keep the contexts consistent.
LEMMA DriverCtx ==
    ASSUME LocalInv,
           \/ CommitRequest \/ CommitRequestOnTxTable \/ GtsElapsed
           \/ \E p \in Participants : Timeout(p)
    PROVE  \A q \in Participants : CtxOK(q)'
<1>0. TypeOK /\ Root \in Participants /\ CtxOK(Root)
    BY TreeAssumption DEF LocalInv
<1>1. CASE CommitRequest
    <2>1. CASE UNCHANGED <<phaseVars, forceAbort>>
        BY <1>1, <2>1, QuietCtx DEF CommitRequest, phaseVars
    <2>2. CASE EnterPrepare(Root, NoMsg) /\ downstream[Root] \in {INIT, REDO_COMPLETE}
        BY <1>0, <1>1, <2>2, EnterPrepareCtx DEF CommitRequest
    <2>. QED
        BY <1>1, <2>1, <2>2 DEF CommitRequest
<1>2. CASE CommitRequestOnTxTable
    BY <1>2, QuietCtx DEF CommitRequestOnTxTable, phaseVars, lifeVars
<1>3. CASE GtsElapsed
    <2>1. downstream[Root] = PREPARE
        BY <1>3 DEF GtsElapsed, LocalInv, GtsOK
    <2>2. outcome[Root] = "none" /\ ~forceAbort[Root]
        BY <1>0, <1>3, <2>1 DEF GtsElapsed, CtxOK, LifeOK, ForceOK, TypeOK
    <2>. QED
        BY <1>0, <1>3, <2>2, EnterPreCommitCtx DEF GtsElapsed
<1>4. ASSUME NEW p \in Participants, Timeout(p)
      PROVE  \A q \in Participants : CtxOK(q)'
    <2>0. CtxOK(p) /\ alive[p] /\ UNCHANGED <<alive, downstream, outcome>>
        BY <1>4 DEF LocalInv, Timeout
    <2>1. CASE EnterPrepare(p, NoMsg) /\ downstream[p] = REDO_COMPLETE /\ ~Busy(p)
        BY <2>0, <2>1, EnterPrepareCtx
    <2>2. CASE Busy(p) /\ UNCHANGED <<logging, upstream, forceAbort>>
        BY <2>0, <2>2, QuietCtx
    <2>3. CASE /\ upstream[p] >= PREPARE
               /\ SubmitLog(p, downstream[p], upstream[p], prepareVersion[p])
               /\ UNCHANGED <<upstream, forceAbort>>
        <3>1. /\ logging'[p] = NONE
                 \/ /\ logging'[p] = upstream[p]
                    /\ NeedLog(downstream[p], upstream[p])
              /\ \A q \in Participants \ {p} : logging'[q] = logging[q]
            BY <1>0, <2>3 DEF SubmitLog, TypeOK
        <3>2. CtxOK(p)'
            BY <1>0, <2>0, <2>3, <3>1
            DEF TypeOK, TxState, CtxOK, LifeOK, PhaseOK, LogOK, ForceOK, NeedLog
        <3>3. \A q \in Participants \ {p} : SameAt(q)
            BY <2>0, <2>3, <3>1 DEF SameAt
        <3>. QED
            BY <3>2, <3>3, OneCtx
    <2>. QED
        BY <1>4, <2>1, <2>2, <2>3 DEF Timeout
<1>. QED
    BY <1>1, <1>2, <1>3, <1>4

\* A new leader starts with a consistent context.
LEMMA FailoverCtx ==
    ASSUME LocalInv, NEW p \in Participants, Failover(p)
    PROVE  \A q \in Participants : CtxOK(q)'
<1>0. TypeOK /\ CtxOK(p) /\ alive[p]
    BY DEF LocalInv, Failover
<1>1. CASE ExitAborted(p) /\ UNCHANGED <<upstream, forceAbort>>
    BY <1>1, ExitAbortedCtx
<1>2. ASSUME NEW d \in RecoveredStates(p), RecoverFrom(p, d),
             \/ d # INIT /\ forceAbort' = [forceAbort EXCEPT ![p] = FALSE]
             \/ d = INIT /\ upstream[p] = INIT /\ UNCHANGED forceAbort
             \/ d = INIT /\ forceAbort' = [forceAbort EXCEPT ![p] = TRUE],
             logging' = [logging EXCEPT ![p] = NONE]
      PROVE  \A q \in Participants : CtxOK(q)'
    <2>1. /\ downstream'[p] = d /\ upstream'[p] = d /\ logging'[p] = NONE
          /\ d \in {ABORT, CLEAR} <=> ~alive'[p]
          /\ outcome'[p] = IF d = COMMIT THEN "commit"
                           ELSE IF d = ABORT THEN "abort" ELSE outcome[p]
          /\ d # INIT => forceAbort'[p] = FALSE
        BY <1>0, <1>2 DEF RecoverFrom, TypeOK
    <2>2. /\ d \in TxState
          /\ d \in {INIT, REDO_COMPLETE, PREPARE, PRE_COMMIT} => outcome[p] = "none"
          /\ d = CLEAR => outcome[p] # "none"
        BY <1>0 DEF RecoveredStates, TypeOK, TxState, StateLog, CtxOK, LifeOK, LogOK
    <2>3. CtxOK(p)'
        <3>1. CASE d \in {INIT, REDO_COMPLETE, PREPARE, PRE_COMMIT}
            <4>1. alive'[p] /\ outcome'[p] = "none"
                BY <2>1, <2>2, <3>1
            <4>. QED
                BY <2>1, <3>1, <4>1 DEF CtxOK, LifeOK, PhaseOK, LogOK, ForceOK
        <3>2. CASE d = COMMIT
            <4>1. alive'[p] /\ outcome'[p] = "commit"
                BY <2>1, <3>2
            <4>. QED
                BY <2>1, <3>2, <4>1 DEF CtxOK, LifeOK, PhaseOK, LogOK, ForceOK
        <3>3. CASE d \in {ABORT, CLEAR}
            <4>1. ~alive'[p] /\ outcome'[p] # "none" /\ (d = ABORT => outcome'[p] = "abort")
                BY <2>1, <2>2, <3>3
            <4>. QED
                BY <2>1, <3>3, <4>1 DEF CtxOK, LifeOK, PhaseOK, LogOK, ForceOK
        <3>. QED
            BY <2>2, <3>1, <3>2, <3>3 DEF TxState
    <2>4. \A q \in Participants \ {p} : SameAt(q)
        BY <1>0, <1>2 DEF RecoverFrom, TypeOK, SameAt
    <2>. QED
        BY <2>3, <2>4, OneCtx
<1>. QED
    BY <1>1, <1>2 DEF Failover

-----------------------------------------------------------------------------
(* The network *)

\* The messages an operation sends follow the edges of the tree.
LEMMA ReqsToTree ==
    ASSUME NEW p \in Participants, NEW phase, NEW cv,
           NEW dests \in SUBSET Downstream(p)
    PROVE  FollowTree(ReqsTo(p, phase, dests, cv))
BY DEF FollowTree, ReqsTo, Req, Downstream

LEMMA RespOfTree ==
    ASSUME NEW p \in Participants, NEW phase, NEW pv, NEW cv
    PROVE  FollowTree(RespOf(p, phase, pv, cv))
BY DEF FollowTree, RespOf, Resp, IsRoot

LEMMA RetransmitTree ==
    ASSUME NEW p \in Participants, NEW up, NEW col, NEW state
    PROVE  /\ FollowTree(RetransmitDown(p, up, col))
           /\ FollowTree(RetransmitUp(p, state, up, col))
           /\ \A q \in Downstream(p) : FollowTree(RetransmitTo(p, q))
<1>1. FollowTree(RetransmitDown(p, up, col))
    BY ReqsToTree DEF RetransmitDown, FollowTree
<1>2. FollowTree(RetransmitUp(p, state, up, col))
    BY RespOfTree DEF RetransmitUp, FollowTree
<1>3. \A q \in Downstream(p) : FollowTree(RetransmitTo(p, q))
    BY ReqsToTree DEF RetransmitTo, FollowTree
<1>. QED
    BY <1>1, <1>2, <1>3

LEMMA SendTree ==
    ASSUME FollowTree(msgs), NEW m, NEW S, FollowTree(S), Send(m, S)
    PROVE  FollowTree(msgs')
BY DEF FollowTree, Send

LEMMA NothingTree == FollowTree({})
BY DEF FollowTree

LEMMA UnionTree ==
    ASSUME NEW S, NEW T, FollowTree(S), FollowTree(T)
    PROVE  FollowTree(S \cup T)
BY DEF FollowTree

LEMMA EnterPrepareTree ==
    ASSUME FollowTree(msgs), NEW p \in Participants, NEW m, EnterPrepare(p, m)
    PROVE  FollowTree(msgs')
<1>1. FollowTree(ReqsTo(p, PREPARE, Downstream(p), 0))
    BY ReqsToTree
<1>. QED
    BY <1>1, NothingTree, SendTree DEF EnterPrepare

LEMMA EnterPreCommitTree ==
    ASSUME FollowTree(msgs), NEW p \in Participants, NEW cv, NEW m,
           EnterPreCommit(p, cv, m)
    PROVE  FollowTree(msgs')
<1>1. FollowTree(ReqsTo(p, PRE_COMMIT, Downstream(p), cv))
    BY ReqsToTree
<1>2. FollowTree(RespOf(p, PRE_COMMIT, 0, cv))
    BY RespOfTree
<1>. QED
    BY <1>1, <1>2, SendTree DEF EnterPreCommit

LEMMA FinishPhaseTree ==
    ASSUME FollowTree(msgs), NEW p \in Participants, NEW phase, NEW down,
           NEW acks, NEW m, FinishPhase(p, phase, down, acks, m)
    PROVE  FollowTree(msgs')
<1>1. FollowTree(ReqsTo(p, CLEAR, Downstream(p), 0))
    BY ReqsToTree
<1>2. FollowTree(RespOf(p, phase, 0, commitVersion'[p]))
    BY RespOfTree
<1>. QED
    BY <1>1, <1>2, SendTree DEF FinishPhase

LEMMA ReceiveTree ==
    ASSUME LocalInv, NEW m \in msgs, Receive(m)
    PROVE  FollowTree(msgs')
<1> DEFINE p == m.to
<1>0. TypeOK /\ p \in Participants /\ m.from \in Participants /\ FollowTree(msgs)
    BY MessageFields DEF LocalInv
<1>1. ASSUME NEW phase, NEW cv, Send(m, ReqsTo(p, phase, Downstream(p), cv))
      PROVE  FollowTree(msgs')
    <2>1. FollowTree(ReqsTo(p, phase, Downstream(p), cv))
        BY <1>0, ReqsToTree
    <2>. QED
        BY <1>0, <1>1, <2>1, SendTree
<1>2. ASSUME NEW phase, NEW pv, NEW cv, Send(m, RespOf(p, phase, pv, cv))
      PROVE  FollowTree(msgs')
    <2>1. FollowTree(RespOf(p, phase, pv, cv))
        BY <1>0, RespOfTree
    <2>. QED
        BY <1>0, <1>2, <2>1, SendTree
<1>3. ASSUME Send(m, {})
      PROVE  FollowTree(msgs')
    BY <1>0, <1>3, NothingTree, SendTree
<1>4. CASE HandleReq(m)
    <2>1. ASSUME NEW state, AnswerReq(m, state)
          PROVE  FollowTree(msgs')
        <3> DEFINE S == RetransmitDown(p, upstream[p], collected[p])
                   T == RetransmitUp(p, state, upstream[p], collected[p])
        <3>1. FollowTree(S) /\ FollowTree(T) /\ Send(m, S \cup T)
            BY <1>0, <2>1, RetransmitTree DEF AnswerReq
        <3> HIDE DEF S, T
        <3>. QED
            BY <1>0, <3>1, UnionTree, SendTree
    <2>2. CASE Ignore(m)
        BY <1>3, <2>2 DEF Ignore
    <2>3. CASE HandlePrepareReq(m)
        BY <1>0, <2>1, <2>2, <2>3, EnterPrepareTree DEF HandlePrepareReq
    <2>4. CASE HandlePreCommitReq(m)
        BY <1>0, <1>3, <2>1, <2>2, <2>4, EnterPreCommitTree DEF HandlePreCommitReq
    <2>5. CASE HandleCommitReq(m)
        BY <1>1, <2>1, <2>2, <2>5 DEF HandleCommitReq
    <2>6. CASE HandleAbortReq(m)
        BY <1>1, <2>1, <2>2, <2>6 DEF HandleAbortReq
    <2>7. CASE HandleClearReq(m)
        BY <1>1, <2>2, <2>7 DEF HandleClearReq
    <2>. QED
        BY <1>4, <2>3, <2>4, <2>5, <2>6, <2>7 DEF HandleReq
<1>5. CASE HandleResp(m)
    <2>0. m.from \in Downstream(p)
        BY <1>0, <1>5 DEF HandleResp, FollowTree, Downstream
    <2>1. CASE Remind(m)
        <3>1. FollowTree(RetransmitTo(p, m.from))
            BY <1>0, <2>0, RetransmitTree
        <3>. QED
            BY <1>0, <2>1, <3>1, SendTree DEF Remind
    <2>2. CASE Ignore(m) \/ CollectOnly(m)
        BY <1>3, <2>2 DEF Ignore, CollectOnly
    <2>3. CASE PrepareRespImpl(m)
        BY <1>0, <1>2, <2>2, <2>3, EnterPreCommitTree DEF PrepareRespImpl
    <2>4. CASE PreCommitRespImpl(m)
        BY <1>1, <1>2, <1>3, <2>4 DEF PreCommitRespImpl
    <2>5. CASE AckRespImpl(m)
        BY <1>0, <2>2, <2>5, FinishPhaseTree DEF AckRespImpl
    <2>6. CASE AbortRespImpl(m)
        BY <1>1, <2>2, <2>6 DEF AbortRespImpl
    <2>. QED
        BY <1>5, <2>1, <2>2, <2>3, <2>4, <2>5, <2>6
        DEF HandleResp, HandlePrepareResp, HandlePreCommitResp, HandleCommitResp,
            HandleAbortResp
<1>6. CASE HandleOrphan(m)
    <2>1. FollowTree(OrphanReply(m))
        BY <1>0 DEF FollowTree, OrphanReply, OrphanResp, OrphanReq, Req, Resp, TypeOK, Message
    <2>. QED
        BY <1>0, <1>6, <2>1, SendTree DEF HandleOrphan
<1>. QED
    BY <1>4, <1>5, <1>6 DEF Receive

LEMMA NextTree ==
    ASSUME LocalInv, Next
    PROVE  FollowTree(msgs')
<1>0. FollowTree(msgs) /\ Root \in Participants
    BY TreeAssumption DEF LocalInv
<1>1. CASE UNCHANGED msgs
    BY <1>0, <1>1
<1>2. CASE CommitRequest
    BY <1>0, <1>1, <1>2, EnterPrepareTree DEF CommitRequest
<1>3. CASE GtsElapsed
    BY <1>0, <1>3, EnterPreCommitTree DEF GtsElapsed
<1>4. CASE \E m \in msgs : Receive(m) \/ Lose(m)
    BY <1>0, <1>4, ReceiveTree, NothingTree, SendTree DEF Lose
<1>5. ASSUME NEW p \in Participants, LogSynced(p)
      PROVE  FollowTree(msgs')
    <2>1. FollowTree(RespOf(p, PREPARE, prepareVersion[p], 0))
        BY RespOfTree
    <2>. QED
        BY <1>0, <1>1, <1>5, <2>1, SendTree, EnterPreCommitTree, FinishPhaseTree
        DEF LogSynced, ApplyPrepareLog, ApplyCommitLog, ApplyAbortLog, ApplyClearLog
<1>6. ASSUME NEW p \in Participants, Timeout(p)
      PROVE  FollowTree(msgs')
    <2> DEFINE S == RetransmitDown(p, upstream[p], collected[p])
               T == RetransmitUp(p, downstream[p], upstream[p], collected[p])
    <2>1. FollowTree(S) /\ FollowTree(T)
        BY RetransmitTree
    <2>2. EnterPrepare(p, NoMsg) \/ Send(NoMsg, S \cup T)
        BY <1>6 DEF Timeout
    <2> HIDE DEF S, T
    <2>. QED
        BY <1>0, <2>1, <2>2, UnionTree, SendTree, EnterPrepareTree
<1>7. CASE CommitRequestOnTxTable \/ \E p \in Participants :
                CommitInfoSynced(p) \/ LogFailed(p) \/ LocalAbort(p) \/ Failover(p)
    BY <1>1, <1>7
    DEF CommitRequestOnTxTable, CommitInfoSynced, LogFailed, LocalAbort, Failover
<1>. QED
    BY <1>2, <1>3, <1>4, <1>5, <1>6, <1>7 DEF Next

-----------------------------------------------------------------------------
(* The wait for gts *)

\* The fields of the root that GtsOK speaks of.
SameRoot ==
    /\ alive'[Root] = alive[Root] /\ logging'[Root] = logging[Root]
    /\ upstream'[Root] = upstream[Root] /\ downstream'[Root] = downstream[Root]
    /\ collected'[Root] = collected[Root] /\ UNCHANGED gtsWaiting

\* A step that leaves the root alone, or does not leave it waiting.
LEMMA FrameGts ==
    ASSUME GtsOK, SameRoot \/ ~gtsWaiting'
    PROVE  GtsOK'
BY DEF GtsOK, SameRoot

\* A step that starts the wait, or starts the next phase instead.
LEMMA EnterPreCommitGts ==
    ASSUME TypeOK, GtsOK, NEW p \in Participants, NEW cv, NEW m,
           EnterPreCommit(p, cv, m), UNCHANGED alive
    PROVE  GtsOK'
<1>1. CASE p = Root
    BY <1>1, FrameGts DEF EnterPreCommit, IsRoot
<1>2. CASE p # Root
    <2>1. SameRoot
        BY <1>2, TreeAssumption
        DEF EnterPreCommit, DriveSelf, SubmitLog, SameRoot, TypeOK, IsRoot
    <2>. QED
        BY <2>1, FrameGts
<1>. QED
    BY <1>1, <1>2

LEMMA ReceiveGts ==
    ASSUME LocalInv, NEW m \in msgs, Receive(m)
    PROVE  GtsOK'
<1> DEFINE p == m.to
<1>0. /\ TypeOK /\ GtsOK /\ p \in Participants /\ Root \in Participants
      /\ CtxOK(p)
    BY MessageFields, TreeAssumption DEF LocalInv
<1>1. CASE UNCHANGED <<alive, upstream, downstream, logging, collected, gtsWaiting>>
    BY <1>0, <1>1, FrameGts DEF SameRoot
<1>2. CASE HandleReq(m)
    <2>1. p # Root
        BY <1>2 DEF HandleReq, LocalInv, FollowTree
    <2>2. CASE \E cv : EnterPreCommit(p, cv, m) /\ UNCHANGED alive
        BY <1>0, <2>2, EnterPreCommitGts
    <2>3. CASE /\ \E phase, down, pv, acks : DriveSelf(p, phase, down, pv, acks)
               /\ UNCHANGED <<alive, downstream, gtsWaiting>>
        <3>1. SameRoot
            BY <1>0, <2>1, <2>3 DEF DriveSelf, SubmitLog, SameRoot, TypeOK
        <3>. QED
            BY <1>0, <3>1, FrameGts
    <2>4. CASE CompensateAbort(p) /\ UNCHANGED <<alive, downstream, gtsWaiting>>
        <3>1. SameRoot
            BY <1>0, <2>1, <2>4 DEF CompensateAbort, SameRoot, TypeOK
        <3>. QED
            BY <1>0, <3>1, FrameGts
    <2>5. CASE Ignore(m) \/ \E state : AnswerReq(m, state)
        BY <1>1, <2>5 DEF Ignore, AnswerReq, phaseVars, lifeVars, rootVars
    <2>6. CASE HandlePrepareReq(m)
        <3>1. CASE EnterPrepare(p, m) /\ UNCHANGED <<alive, downstream, rootVars>>
            BY <2>3, <2>4, <3>1 DEF EnterPrepare, rootVars
        <3>. QED
            BY <2>5, <2>6, <3>1 DEF HandlePrepareReq
    <2>7. CASE HandlePreCommitReq(m)
        BY <1>1, <2>2, <2>5, <2>7 DEF HandlePreCommitReq, phaseVars
    <2>8. CASE HandleCommitReq(m)
        BY <2>3, <2>5, <2>8 DEF HandleCommitReq, lifeVars, rootVars
    <2>9. CASE HandleAbortReq(m)
        BY <2>3, <2>5, <2>9 DEF HandleAbortReq, lifeVars, rootVars
    <2>10. CASE HandleClearReq(m)
        BY <2>3, <2>5, <2>10 DEF HandleClearReq, lifeVars, rootVars
    <2>. QED
        BY <1>2, <2>6, <2>7, <2>8, <2>9, <2>10 DEF HandleReq
<1>3. CASE HandleResp(m)
    <2>0. m.from \in Downstream(p)
        BY <1>0, <1>3, MessageFields
        DEF HandleResp, LocalInv, FollowTree, Downstream
    <2>1. CASE Ignore(m) \/ Remind(m)
        BY <1>1, <2>1 DEF Ignore, Remind, phaseVars, lifeVars, rootVars
    <2>2. CASE /\ p # Root \/ ~gtsWaiting
               /\ \/ \E phase, down, pv, acks : DriveSelf(p, phase, down, pv, acks)
                  \/ /\ \E S : collected' = [collected EXCEPT ![p] = S]
                     /\ \/ UNCHANGED logging
                        \/ logging' = [logging EXCEPT ![p] = NONE]
                     /\ UNCHANGED upstream
               /\ UNCHANGED <<alive, downstream, gtsWaiting>>
        <3>1. CASE p # Root
            <4>1. SameRoot
                BY <1>0, <2>2, <3>1 DEF DriveSelf, SubmitLog, SameRoot, TypeOK
            <4>. QED
                BY <1>0, <4>1, FrameGts
        <3>2. CASE ~gtsWaiting
            BY <1>0, <2>2, <3>2, FrameGts
        <3>. QED
            BY <2>2, <3>1, <3>2
    <2>3. CASE upstream[p] = PREPARE /\ PrepareRespImpl(m)
        <3>1. CASE \E cv : EnterPreCommit(p, cv, m)
            BY <1>0, <2>3, <3>1, EnterPreCommitGts DEF PrepareRespImpl
        <3>2. CASE CollectOnly(m) /\ UNCHANGED <<downstream, gtsWaiting>>
            <4>1. collected'[p] = collected[p] \cup {m.from}
                BY <1>0, <3>2 DEF CollectOnly, TypeOK
            <4>2. CASE p = Root
                BY <1>0, <2>0, <2>3, <3>2, <4>1, <4>2
                DEF CollectOnly, PrepareRespImpl, GtsOK, Downstream
            <4>3. CASE p # Root
                <5>1. SameRoot
                    BY <1>0, <2>3, <3>2, <4>3
                    DEF CollectOnly, PrepareRespImpl, SameRoot, TypeOK
                <5>. QED
                    BY <1>0, <5>1, FrameGts
            <4>. QED
                BY <4>2, <4>3
        <3>3. CASE /\ IsRoot(p) /\ ~Busy(p) /\ downstream[p] = PREPARE
                   /\ CompletesPhase(m) /\ CollectOnly(m) /\ UNCHANGED downstream
            <4>1. collected'[Root] = Downstream(Root)
                BY <1>0, <3>3 DEF CollectOnly, CompletesPhase, IsRoot, TypeOK
            <4>2. alive'[Root] /\ logging'[Root] = NONE
                BY <1>0, <1>3, <2>3, <3>3
                DEF HandleResp, PrepareRespImpl, CollectOnly, IsRoot, Busy
            <4>. QED
                BY <2>3, <3>3, <4>1, <4>2 DEF CollectOnly, IsRoot, GtsOK, Downstream
        <3>4. CASE /\ ~IsRoot(p)
                   /\ collected' = [collected EXCEPT ![p] = @ \cup {m.from}]
                   /\ UNCHANGED <<upstream, logging, downstream, gtsWaiting>>
            BY <2>2, <2>3, <3>4 DEF PrepareRespImpl, IsRoot
        <3>. QED
            BY <2>3, <3>1, <3>2, <3>3, <3>4 DEF PrepareRespImpl, WaitGts
    <2>4. CASE upstream[p] = PRE_COMMIT /\ PreCommitRespImpl(m)
        <3>1. p # Root \/ ~gtsWaiting
            BY <1>0, <2>4 DEF GtsOK
        <3>. QED
            BY <2>2, <2>4, <3>1 DEF PreCommitRespImpl, lifeVars
    <2>5. CASE upstream[p] \in {COMMIT, ABORT} /\ AckRespImpl(m)
        <3>1. p # Root \/ ~gtsWaiting
            BY <1>0, <2>5 DEF GtsOK
        <3>. QED
            BY <2>2, <2>5, <3>1
            DEF AckRespImpl, FinishPhase, CollectOnly, lifeVars, rootVars
    <2>6. CASE AbortRespImpl(m)
        <3>1. CASE ~Busy(p)
            <4>1. p # Root \/ ~gtsWaiting
                BY <3>1 DEF Busy, IsRoot
            <4>. QED
                BY <2>1, <2>2, <2>6, <4>1 DEF AbortRespImpl, lifeVars
        <3>2. CASE Busy(p)
            BY <2>1, <2>6, <3>2 DEF AbortRespImpl
        <3>. QED
            BY <3>1, <3>2
    <2>. QED
        BY <1>3, <2>1, <2>3, <2>4, <2>5, <2>6
        DEF HandleResp, HandlePrepareResp, HandlePreCommitResp, HandleCommitResp,
            HandleAbortResp
<1>4. CASE HandleOrphan(m)
    BY <1>1, <1>4 DEF HandleOrphan, phaseVars, lifeVars, rootVars
<1>. QED
    BY <1>2, <1>3, <1>4 DEF Receive

LEMMA NextGts ==
    ASSUME LocalInv, Next
    PROVE  GtsOK'
<1>0. TypeOK /\ GtsOK /\ Root \in Participants
    BY TreeAssumption DEF LocalInv
<1>1. CASE UNCHANGED <<alive, upstream, downstream, logging, collected, gtsWaiting>>
    BY <1>0, <1>1, FrameGts DEF SameRoot
<1>2. CASE CommitRequest
    <2>1. ~gtsWaiting'
        BY <1>2 DEF CommitRequest, Busy, IsRoot
    <2>. QED
        BY <1>0, <2>1, FrameGts
<1>3. CASE GtsElapsed
    BY <1>0, <1>3, EnterPreCommitGts DEF GtsElapsed
<1>4. CASE \E m \in msgs : Receive(m) \/ Lose(m)
    BY <1>1, <1>4, ReceiveGts DEF Lose, phaseVars, lifeVars, rootVars
<1>5. ASSUME NEW p \in Participants, LogSynced(p)
      PROVE  GtsOK'
    <2>0. p # Root \/ ~gtsWaiting
        BY <1>0, <1>5 DEF GtsOK, LogSynced, ApplyPrepareLog, ApplyCommitLog,
                          ApplyAbortLog, ApplyClearLog
    <2>1. CASE ApplyPrepareLog(p)
        <3>1. CASE EnterPreCommit(p, prepareVersion[p], NoMsg)
            BY <1>0, <2>1, <3>1, EnterPreCommitGts DEF ApplyPrepareLog
        <3>2. CASE /\ downstream' = [downstream EXCEPT ![p] = PREPARE]
                   /\ logging' = [logging EXCEPT ![p] = NONE]
                   /\ UNCHANGED <<alive, upstream, collected>>
                   /\ IF AllCollected(p) /\ IsRoot(p)
                      THEN WaitGts(p, prepareVersion[p])
                      ELSE UNCHANGED <<gtsWaiting, commitVersion>>
            <4>1. CASE p = Root /\ AllCollected(p)
                <5>1. downstream'[Root] = PREPARE /\ logging'[Root] = NONE
                    BY <1>0, <3>2, <4>1 DEF TypeOK
                <5>. QED
                    BY <1>5, <2>1, <3>2, <4>1, <5>1
                    DEF LogSynced, ApplyPrepareLog, AllCollected, GtsOK, Downstream
            <4>2. CASE p # Root
                <5>1. SameRoot
                    BY <1>0, <3>2, <4>2 DEF SameRoot, TypeOK, IsRoot
                <5>. QED
                    BY <1>0, <5>1, FrameGts
            <4>3. CASE ~gtsWaiting /\ ~AllCollected(p)
                BY <1>0, <3>2, <4>3, FrameGts
            <4>. QED
                BY <2>0, <4>1, <4>2, <4>3
        <3>. QED
            BY <2>1, <3>1, <3>2 DEF ApplyPrepareLog
    <2>2. CASE ApplyCommitLog(p) \/ ApplyAbortLog(p) \/ ApplyClearLog(p)
        <3>1. UNCHANGED gtsWaiting
            BY <2>2 DEF ApplyCommitLog, ApplyAbortLog, ApplyClearLog, rootVars
        <3>2. CASE p # Root
            <4>1. CASE ApplyCommitLog(p)
                <5>1. SameRoot
                    BY <1>0, <3>1, <3>2, <4>1
                    DEF ApplyCommitLog, FinishPhase, DriveSelf, SubmitLog, SameRoot, TypeOK
                <5>. QED
                    BY <1>0, <5>1, FrameGts
            <4>2. CASE ApplyAbortLog(p)
                <5>1. SameRoot
                    <6>1. CASE forceAbort[p]
                        BY <1>0, <3>1, <3>2, <4>2, <6>1
                        DEF ApplyAbortLog, ExitAborted, SameRoot, TypeOK
                    <6>2. CASE ~forceAbort[p]
                        <7>1. /\ downstream' = [downstream EXCEPT ![p] = ABORT]
                              /\ UNCHANGED alive
                              /\ \/ FinishPhase(p, ABORT, ABORT, {}, NoMsg)
                                 \/ /\ logging' = [logging EXCEPT ![p] = NONE]
                                    /\ UNCHANGED <<upstream, collected>>
                            BY <4>2, <6>2 DEF ApplyAbortLog
                        <7>. QED
                            BY <1>0, <3>1, <3>2, <7>1
                            DEF FinishPhase, IsRoot, SameRoot, TypeOK
                    <6>. QED
                        BY <6>1, <6>2
                <5>. QED
                    BY <1>0, <5>1, FrameGts
            <4>3. CASE ApplyClearLog(p)
                <5>1. /\ downstream' = [downstream EXCEPT ![p] = CLEAR]
                      /\ alive' = [alive EXCEPT ![p] = FALSE]
                      /\ logging' = [logging EXCEPT ![p] = NONE]
                      /\ UNCHANGED <<upstream, collected>>
                    BY <4>3 DEF ApplyClearLog
                <5>2. alive'[Root] = alive[Root]
                    BY <1>0, <3>2, <5>1 DEF TypeOK
                <5>3. SameRoot
                    BY <1>0, <3>1, <3>2, <5>1, <5>2 DEF SameRoot, TypeOK
                <5>. QED
                    BY <1>0, <5>3, FrameGts
            <4>. QED
                BY <2>2, <4>1, <4>2, <4>3
        <3>. QED
            BY <1>0, <2>0, <3>1, <3>2, FrameGts
    <2>. QED
        BY <1>5, <2>1, <2>2 DEF LogSynced
<1>6. ASSUME NEW p \in Participants, Timeout(p)
      PROVE  GtsOK'
    <2>1. CASE p = Root
        BY <1>0, <1>6, <2>1 DEF Timeout, Busy, IsRoot, GtsOK
    <2>2. CASE p # Root
        <3>1. SameRoot
            BY <1>0, <1>6, <2>2
            DEF Timeout, EnterPrepare, DriveSelf, SubmitLog, CompensateAbort,
                SameRoot, TypeOK
        <3>. QED
            BY <1>0, <3>1, FrameGts
    <2>. QED
        BY <2>1, <2>2
<1>7. ASSUME NEW p \in Participants, CommitInfoSynced(p) \/ LogFailed(p) \/ LocalAbort(p)
      PROVE  GtsOK'
    <2>1. CASE p = Root
        <3>1. ~gtsWaiting
            BY <1>0, <1>7, <2>1
            DEF CommitInfoSynced, LogFailed, LocalAbort, GtsOK
        <3>2. UNCHANGED gtsWaiting
            BY <1>7 DEF CommitInfoSynced, LogFailed, LocalAbort, rootVars
        <3>. QED
            BY <1>0, <3>1, <3>2, FrameGts
    <2>2. CASE p # Root
        <3>1. SameRoot
            BY <1>0, <1>7, <2>2
            DEF CommitInfoSynced, LogFailed, LocalAbort, ExitAborted, CompensateAbort,
                SameRoot, TypeOK, phaseVars, rootVars
        <3>. QED
            BY <1>0, <3>1, FrameGts
    <2>. QED
        BY <2>1, <2>2
<1>8. ASSUME NEW p \in Participants, Failover(p)
      PROVE  GtsOK'
    <2>1. CASE p = Root
        BY <1>0, <1>8, <2>1, FrameGts DEF Failover, IsRoot
    <2>2. CASE p # Root
        <3>1. SameRoot
            BY <1>0, <1>8, <2>2
            DEF Failover, RecoverFrom, ExitAborted, SameRoot, TypeOK, IsRoot
        <3>. QED
            BY <1>0, <3>1, FrameGts
    <2>. QED
        BY <2>1, <2>2
<1>9. CASE CommitRequestOnTxTable
    BY <1>1, <1>9 DEF CommitRequestOnTxTable, phaseVars, lifeVars
<1>. QED
    BY <1>2, <1>3, <1>4, <1>5, <1>6, <1>7, <1>8, <1>9 DEF Next

-----------------------------------------------------------------------------
(* The theorems *)

\* Next keeps every context consistent.
LEMMA NextCtx ==
    ASSUME LocalInv, Next
    PROVE  \A q \in Participants : CtxOK(q)'
<1>1. ASSUME NEW m \in msgs, Receive(m) \/ Lose(m)
      PROVE  \A q \in Participants : CtxOK(q)'
    BY <1>1, HandleReqCtx, HandleRespCtx, QuietCtx
    DEF Receive, HandleOrphan, Lose, phaseVars, lifeVars
<1>. QED
    BY <1>1, LogSyncedCtx, LocalCtx, DriverCtx, FailoverCtx DEF Next

\* LocalInv is inductive.
LEMMA LocalInduction ==
    ASSUME LocalInv, [Next]_vars
    PROVE  LocalInv'
<1>1. CASE Next
    <2>1. TypeOK'
        BY <1>1, TypeInduction DEF LocalInv
    <2>2. /\ \A q \in Participants : CtxOK(q)'
          /\ FollowTree(msgs') /\ GtsOK'
        BY <1>1, NextCtx, NextTree, NextGts
    <2>. QED
        BY <2>1, <2>2 DEF LocalInv
<1>2. CASE UNCHANGED vars
    <2>1. TypeOK'
        BY <1>2, TypeInduction DEF LocalInv
    <2>2. \A q \in Participants : CtxOK(q)'
        BY <1>2, QuietCtx DEF vars, phaseVars, lifeVars
    <2>3. FollowTree(msgs') /\ GtsOK'
        BY <1>2, FrameGts DEF LocalInv, SameRoot, vars, phaseVars, lifeVars, rootVars
    <2>. QED
        BY <2>1, <2>2, <2>3 DEF LocalInv
<1>. QED
    BY <1>1, <1>2

\* The state machine of every context stays consistent: its two halves, the log
\* in flight, the abort mark and the recorded outcome always fit together.
THEOREM LocalCorrect == Spec => []LocalInv
<1>1. Init => LocalInv
    BY InitType
    DEF Init, LocalInv, CtxOK, LifeOK, PhaseOK, LogOK, ForceOK, FollowTree, GtsOK
<1>2. LocalInv /\ [Next]_vars => LocalInv'
    BY LocalInduction
<1>. QED
    BY <1>1, <1>2, PTL DEF Spec

\* The ob_abort() branches of the log callbacks are unreachable.
THEOREM NeverPanics == Spec => []ApplyNeverPanics
<1>1. LocalInv => ApplyNeverPanics
    BY DEF LocalInv, CtxOK, LogOK, ApplyNeverPanics
<1>. QED
    BY <1>1, LocalCorrect, PTL

\* What DurableSteps says of one participant.
Final(q) ==
    /\ outcome[q] # "none" => outcome'[q] = outcome[q]
    /\ downstream[q] >= PREPARE => downstream'[q] >= PREPARE

\* Only log callbacks, local aborts and leader changes end a transaction, and
\* what they start from has not ended.
LEMMA NextFinal ==
    ASSUME LocalInv, Next
    PROVE  \A q \in Participants : Final(q)
<1>0. TypeOK /\ Root \in Participants
    BY TreeAssumption DEF LocalInv
<1>1. CASE UNCHANGED <<downstream, outcome>>
    BY <1>1 DEF Final
<1>2. ASSUME NEW p \in Participants, NEW cv, NEW m, EnterPreCommit(p, cv, m),
             UNCHANGED outcome
      PROVE  \A q \in Participants : Final(q)
    BY <1>0, <1>2 DEF EnterPreCommit, Final, TypeOK
<1>3. ASSUME NEW p \in Participants, downstream[p] = INIT, ExitAborted(p)
      PROVE  \A q \in Participants : Final(q)
    <2>1. outcome[p] = "none"
        BY <1>0, <1>3 DEF LocalInv, CtxOK, LifeOK, TypeOK
    <2>. QED
        BY <1>0, <1>3, <2>1 DEF ExitAborted, Final, TypeOK
<1>4. CASE CommitRequest \/ CommitRequestOnTxTable
    BY <1>1, <1>4 DEF CommitRequest, CommitRequestOnTxTable, lifeVars
<1>5. CASE GtsElapsed
    BY <1>0, <1>2, <1>5 DEF GtsElapsed
<1>6. ASSUME NEW m \in msgs, Receive(m) \/ Lose(m)
      PROVE  \A q \in Participants : Final(q)
    <2>1. m.to \in Participants
        BY <1>0, MessageFields
    <2>2. CASE HandleReq(m)
        BY <1>1, <1>2, <2>1, <2>2
        DEF HandleReq, HandlePrepareReq, HandlePreCommitReq, HandleCommitReq,
            HandleAbortReq, HandleClearReq, Ignore, AnswerReq, lifeVars
    <2>3. CASE HandleResp(m)
        <3>1. CASE PrepareRespImpl(m)
            BY <1>1, <1>2, <2>1, <3>1 DEF PrepareRespImpl
        <3>. QED
            BY <1>1, <2>3, <3>1
            DEF HandleResp, HandlePrepareResp, HandlePreCommitResp, HandleCommitResp,
                HandleAbortResp, PreCommitRespImpl, AckRespImpl, AbortRespImpl,
                Ignore, Remind, lifeVars
    <2>4. CASE HandleOrphan(m) \/ Lose(m)
        BY <1>1, <2>4 DEF HandleOrphan, Lose, lifeVars
    <2>. QED
        BY <1>6, <2>2, <2>3, <2>4 DEF Receive
<1>7. ASSUME NEW p \in Participants, LogSynced(p)
      PROVE  \A q \in Participants : Final(q)
    <2>0. CtxOK(p) /\ alive[p]
        BY <1>7 DEF LocalInv, LogSynced
    <2>1. CASE ApplyPrepareLog(p)
        <3>1. UNCHANGED outcome
            BY <2>1 DEF ApplyPrepareLog
        <3>2. CASE downstream' = [downstream EXCEPT ![p] = PREPARE]
            BY <1>0, <3>1, <3>2 DEF Final, TypeOK
        <3>. QED
            BY <1>2, <2>1, <3>1, <3>2 DEF ApplyPrepareLog
    <2>2. ASSUME NEW d \in {COMMIT, ABORT}, NEW o,
                 downstream' = [downstream EXCEPT ![p] = d],
                 outcome' = [outcome EXCEPT ![p] = o],
                 downstream[p] \in {INIT, REDO_COMPLETE, PREPARE, PRE_COMMIT}
          PROVE  \A q \in Participants : Final(q)
        <3>1. outcome[p] = "none"
            BY <1>0, <2>0, <2>2 DEF CtxOK, LifeOK, TypeOK
        <3>. QED
            BY <1>0, <2>2, <3>1 DEF Final, TypeOK
    <2>3. CASE ApplyCommitLog(p)
        BY <2>0, <2>2, <2>3 DEF ApplyCommitLog, CtxOK, LogOK
    <2>4. CASE ApplyAbortLog(p)
        BY <2>2, <2>4 DEF ApplyAbortLog, ExitAborted
    <2>5. CASE ApplyClearLog(p)
        BY <1>0, <2>5 DEF ApplyClearLog, Final, TypeOK
    <2>. QED
        BY <1>7, <2>1, <2>3, <2>4, <2>5 DEF LogSynced
<1>8. ASSUME NEW p \in Participants,
             CommitInfoSynced(p) \/ LogFailed(p) \/ Timeout(p) \/ LocalAbort(p)
      PROVE  \A q \in Participants : Final(q)
    <2>1. CASE CommitInfoSynced(p)
        BY <1>0, <2>1 DEF CommitInfoSynced, Final, TypeOK
    <2>2. CASE LogFailed(p) \/ Timeout(p) \/ LocalAbort(p)
        BY <1>1, <1>3, <2>2 DEF LogFailed, Timeout, LocalAbort
    <2>. QED
        BY <1>8, <2>1, <2>2
<1>9. ASSUME NEW p \in Participants, Failover(p)
      PROVE  \A q \in Participants : Final(q)
    <2>0. CtxOK(p)
        BY DEF LocalInv
    <2>1. ASSUME NEW d \in RecoveredStates(p), RecoverFrom(p, d)
          PROVE  \A q \in Participants : Final(q)
        <3>1. /\ outcome'[p] = IF d = COMMIT THEN "commit"
                               ELSE IF d = ABORT THEN "abort" ELSE outcome[p]
              /\ downstream'[p] = d
              /\ \A q \in Participants \ {p} : /\ outcome'[q] = outcome[q]
                                             /\ downstream'[q] = downstream[q]
            BY <1>0, <2>1 DEF RecoverFrom, TypeOK
        <3>2. /\ downstream[p] >= PREPARE => d >= PREPARE
              /\ d = COMMIT => outcome[p] \in {"none", "commit"}
              /\ d = ABORT => outcome[p] \in {"none", "abort"}
            BY <1>0, <2>0
            DEF RecoveredStates, TypeOK, StateLog, TxState, CtxOK, LifeOK, LogOK
        <3>. QED
            BY <3>1, <3>2 DEF Final
    <2>. QED
        BY <1>3, <1>9, <2>1 DEF Failover
<1>. QED
    BY <1>4, <1>5, <1>6, <1>7, <1>8, <1>9 DEF Next

\* A decision is final and a prepare is never undone, for any tree, any number
\* of leader changes and any messages.
THEOREM Durable == Spec => DurableSteps
<1>1. LocalInv /\ [Next]_vars =>
        [\A p \in Participants :
            /\ outcome[p] # "none" => outcome'[p] = outcome[p]
            /\ downstream[p] >= PREPARE => downstream'[p] >= PREPARE]_vars
    BY NextFinal DEF Final
<1>. QED
    BY <1>1, LocalCorrect, PTL DEF Spec, DurableSteps

=============================================================================
