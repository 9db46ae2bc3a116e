--------------------------- MODULE TwoPhaseCommit ---------------------------
(***************************************************************************)
(* The tree-shaped two-phase commit of one distributed transaction:        *)
(* ObTxCycleTwoPhaseCommitter (ob_two_phase_{up,down}stream_committer.cpp) *)
(* as it is driven by ObPartTransCtx (ob_tx_2pc_ctx_impl.cpp,              *)
(* ob_tx_2pc_msg_handler.cpp, ob_trans_part_ctx.cpp).                      *)
(*                                                                         *)
(* A participant is the leader of one log stream.  Everything the code     *)
(* does under the lock of the transaction context is one step.  Its state  *)
(* machine has two halves: the coordinator half in memory (upstream), and  *)
(* the participant half that follows the log (downstream).  PRE_COMMIT is  *)
(* the only downstream state that no log entry records.                    *)
(***************************************************************************)
EXTENDS Integers, FiniteSets

CONSTANTS
    Participants,   \* the log streams the transaction wrote to
    Root,           \* the coordinator
    Upstream,       \* the parent of every other participant
    Versions,       \* prepare versions a participant may choose
    Retain,         \* TRUE: a sent message can be delivered any number of times
    MaxFaults       \* bound on leader changes and lost messages

\* enum class ObTxState, with the numbers of the source: the code compares them
INIT == 10
REDO_COMPLETE == 20
PREPARE == 30
PRE_COMMIT == 40
COMMIT == 50
ABORT == 60
CLEAR == 70
TxState == {INIT, REDO_COMPLETE, PREPARE, PRE_COMMIT, COMMIT, ABORT, CLEAR}

NONE == 0                                 \* no state log in flight
StateLog == {PREPARE, COMMIT, ABORT, CLEAR}
Phase == {PREPARE, PRE_COMMIT, COMMIT, ABORT, CLEAR}
Version == Versions \cup {0}              \* 0: not valid yet

ASSUME TreeAssumption ==
    /\ Root \in Participants
    /\ Upstream \in [Participants \ {Root} -> Participants]

ASSUME ParameterAssumption ==
    /\ Versions \subseteq Nat \ {0}
    /\ Retain \in BOOLEAN
    /\ MaxFaults \in Nat

VARIABLES
    alive,          \* the context exists and is not exiting
    upstream,       \* in-memory state of the coordinator half
    downstream,     \* exec_info_.state_
    collected,      \* downstreams that answered the current phase
    logging,        \* the state log in flight
    forceAbort,     \* sub_state_.is_force_abort()
    requested,      \* the root has accepted a commit request
    gtsWaiting,     \* the root waits for gts to pass the commit version
    prepareVersion, \* exec_info_.prepare_version_
    logVersion,     \* the version inside the submitted prepare log
    commitVersion,  \* ctx_tx_data_ commit version
    msgs,           \* messages in the network
    answers,        \* what the scheduler has been told
    outcome,        \* history: how the transaction ended at a participant
    faults          \* leader changes and lost messages so far

phaseVars == <<upstream, collected, logging, logVersion>>
versionVars == <<prepareVersion, commitVersion>>
lifeVars == <<alive, downstream, forceAbort, outcome>>
rootVars == <<requested, gtsWaiting, answers>>
vars == <<phaseVars, versionVars, lifeVars, rootVars, msgs, faults>>

-----------------------------------------------------------------------------
(* The tree and the roles *)

Downstream(p) == {q \in Participants \ {Root} : Upstream[q] = p}
IsRoot(p) == p = Root
IsLeaf(p) == ~IsRoot(p) /\ Downstream(p) = {}
Flat == \A q \in Participants \ {Root} : Upstream[q] = Root

\* Fault: the version of a response replaces the one at hand.
LatestOf(a, b) == b

MaxOf(a, b) == IF a >= b THEN a ELSE b

Req(phase, p, q, v) ==
    [kind |-> "REQ", phase |-> phase, from |-> p, to |-> q, version |-> v]
Resp(phase, p, q, v) ==
    [kind |-> "RESP", phase |-> phase, from |-> p, to |-> q, version |-> v]
Message == [kind : {"REQ", "RESP"}, phase : Phase,
            from : Participants, to : Participants, version : Version]

\* The network takes the handled message m out unless it keeps duplicates.
NoMsg == [kind |-> "NONE"]
Send(m, S) == msgs' = (IF Retain THEN msgs ELSE msgs \ {m}) \cup S

\* is_2pc_logging()
Busy(p) == logging[p] # NONE \/ (IsRoot(p) /\ gtsWaiting)

AllCollected(p) == collected[p] = Downstream(p)

\* Requests of a phase to some of the downstreams of p.
ReqsTo(p, phase, dests, cv) ==
    {Req(phase, p, q, IF phase \in {PRE_COMMIT, COMMIT} THEN cv ELSE 0) :
        q \in dests}

\* A response of p to its upstream; the root has none.
RespOf(p, phase, pv, cv) ==
    IF IsRoot(p) THEN {}
    ELSE {Resp(phase, p, Upstream[p],
               IF phase = PREPARE THEN pv
               ELSE IF phase \in {PRE_COMMIT, COMMIT} THEN cv ELSE 0)}

\* retransmit_downstream_msg_(): the request of the current phase to every
\* downstream that has not answered it.
RetransmitDown(p, up, col) ==
    IF up \in Phase
    THEN ReqsTo(p, up, Downstream(p) \ col, commitVersion[p])
    ELSE {}

\* retransmit_downstream_msg_(participant)
RetransmitTo(p, q) ==
    IF upstream[p] \in Phase
    THEN ReqsTo(p, upstream[p], {q}, commitVersion[p])
    ELSE {}

\* retransmit_upstream_msg_(state), given the in-memory state and the acks
RetransmitUp(p, state, up, col) ==
    IF /\ downstream[p] <= up
       /\ state \in {PREPARE, PRE_COMMIT, COMMIT, ABORT}
       /\ \/ downstream[p] > state
          \/ downstream[p] = state /\ col = Downstream(p)
    THEN RespOf(p, state, prepareVersion[p], commitVersion[p])
    ELSE {}

-----------------------------------------------------------------------------
(* Phases, logs and answers *)

\* decide_2pc_log_type_(): the log that brings downstream up to upstream
NeedLog(down, up) ==
    /\ up > down
    /\ \/ up = PREPARE
       \/ up = COMMIT /\ down \in {PREPARE, PRE_COMMIT}
       \/ up = ABORT /\ down # COMMIT
       \/ up = CLEAR /\ down \in {COMMIT, ABORT}

\* submit_2pc_log_(): the submission may fail, and its error is ignored.
SubmitLog(p, down, up, pv) ==
    \E log \in (IF NeedLog(down, up) THEN {up, NONE} ELSE {NONE}) :
        /\ logging' = [logging EXCEPT ![p] = log]
        /\ logVersion' = IF log = PREPARE
                         THEN [logVersion EXCEPT ![p] = pv] ELSE logVersion

\* Fault: the acknowledgements of the last phase are not reset.
DriveSelfKeepingAcks(p, phase, down, pv, acks) ==
    /\ upstream' = [upstream EXCEPT ![p] = phase]
    /\ collected' = [collected EXCEPT ![p] = @ \cup acks]
    /\ SubmitLog(p, down, phase, pv)

\* drive_self_2pc_phase(), when the context is neither logging nor blocked;
\* acks are collected after the reset.
DriveSelf(p, phase, down, pv, acks) ==
    /\ upstream' = [upstream EXCEPT ![p] = phase]
    /\ collected' = [collected EXCEPT ![p] =
                        (IF upstream[p] = phase THEN @ ELSE {}) \cup acks]
    /\ SubmitLog(p, down, phase, pv)

\* do_commit() and do_abort(): the root answers the scheduler as it enters the
\* phase, before the log of the phase is durable.
Answer(p, phase) ==
    answers' = IF IsRoot(p) /\ upstream[p] # phase
               THEN answers \cup {IF phase = COMMIT THEN "committed" ELSE "killed"}
               ELSE answers

\* generate_prepare_version_(): keeps the version it already has
PrepareVersions(p) ==
    IF prepareVersion[p] # 0 THEN {prepareVersion[p]} ELSE Versions

\* compensate_abort_log_() and submit_abort_log_(): the state moves to ABORT
\* even when the submission fails.
CompensateAbort(p) ==
    /\ forceAbort' = [forceAbort EXCEPT ![p] = TRUE]
    /\ upstream' = [upstream EXCEPT ![p] = ABORT]
    /\ \E log \in {ABORT, NONE} : logging' = [logging EXCEPT ![p] = log]
    /\ UNCHANGED <<collected, logVersion>>

\* on_local_abort_tx_(): abort without the other participants, then forget.
ExitAborted(p) ==
    /\ alive' = [alive EXCEPT ![p] = FALSE]
    /\ downstream' = [downstream EXCEPT ![p] = ABORT]
    /\ outcome' = [outcome EXCEPT ![p] = "abort"]
    /\ logging' = [logging EXCEPT ![p] = NONE]
    /\ answers' = IF IsRoot(p) /\ requested THEN answers \cup {"killed"} ELSE answers

\* drive_self_2pc_phase(PREPARE) with do_prepare(), then the requests
EnterPrepare(p, m) ==
    \/ /\ ~(forceAbort[p] /\ upstream[p] # PREPARE)
       /\ \E v \in PrepareVersions(p) :
            /\ prepareVersion' = [prepareVersion EXCEPT ![p] = v]
            /\ DriveSelf(p, PREPARE, downstream[p], v, {})
       /\ Send(m, ReqsTo(p, PREPARE, Downstream(p), 0))
       /\ UNCHANGED <<forceAbort>>
    \/ /\ forceAbort[p] /\ upstream[p] # PREPARE
       /\ CompensateAbort(p)
       /\ Send(m, {})
       /\ UNCHANGED prepareVersion

\* try_enter_pre_commit_state(): drive_self_2pc_phase(PRE_COMMIT), on_pre_commit()
EnterPreCommit(p, cv, m) ==
    /\ DriveSelf(p, PRE_COMMIT, PREPARE, 0, {})
    /\ downstream' = [downstream EXCEPT ![p] = PRE_COMMIT]
    /\ commitVersion' = [commitVersion EXCEPT ![p] = cv]
    /\ gtsWaiting' = IF IsRoot(p) THEN FALSE ELSE gtsWaiting
    /\ Send(m, IF IsLeaf(p) THEN RespOf(p, PRE_COMMIT, 0, cv)
               ELSE ReqsTo(p, PRE_COMMIT, Downstream(p), cv))

\* Fault: the commit version is chosen above the prepare versions.
WaitGtsAbove(p, cv) ==
    /\ IsRoot(p)
    /\ gtsWaiting' = TRUE
    /\ commitVersion' = [commitVersion EXCEPT ![p] = cv + 1]

\* try_enter_pre_commit_state() on the root when gts is behind the version
WaitGts(p, cv) ==
    /\ IsRoot(p)
    /\ gtsWaiting' = TRUE
    /\ commitVersion' = [commitVersion EXCEPT ![p] = cv]

\* drive_self_2pc_phase(CLEAR) and the clear requests, by the root, or the
\* acknowledgement of an internal or leaf participant
FinishPhase(p, phase, down, acks, m) ==
    IF IsRoot(p)
    THEN /\ DriveSelf(p, CLEAR, down, 0, {})
         /\ Send(m, ReqsTo(p, CLEAR, Downstream(p), 0))
    ELSE /\ collected' = [collected EXCEPT ![p] = @ \cup acks]
         /\ logging' = [logging EXCEPT ![p] = NONE]
         /\ Send(m, RespOf(p, phase, 0, commitVersion'[p]))
         /\ UNCHANGED <<upstream, logVersion>>

-----------------------------------------------------------------------------
(* Requests, handled by a participant whose context exists *)

Ignore(m) ==
    /\ Send(m, {})
    /\ UNCHANGED <<phaseVars, versionVars, lifeVars, rootVars, faults>>

\* The phase is already reached: answer for it, and pass on what is pending.
AnswerReq(m, state) ==
    LET p == m.to IN
    /\ Send(m, RetransmitDown(p, upstream[p], collected[p])
               \cup RetransmitUp(p, state, upstream[p], collected[p]))
    /\ UNCHANGED <<phaseVars, versionVars, lifeVars, rootVars, faults>>

HandlePrepareReq(m) ==
    LET p == m.to IN
    \/ /\ downstream[p] \in {INIT, REDO_COMPLETE}
       /\ IF Busy(p) THEN Ignore(m)
          ELSE /\ EnterPrepare(p, m)
               /\ UNCHANGED <<commitVersion, alive, downstream, outcome,
                              rootVars, faults>>
    \/ downstream[p] \in {PREPARE, PRE_COMMIT, COMMIT} /\ AnswerReq(m, PREPARE)
    \/ downstream[p] = ABORT /\ AnswerReq(m, ABORT)

HandlePreCommitReq(m) ==
    LET p == m.to
        cv == MaxOf(commitVersion[p], m.version) IN
    \/ /\ downstream[p] = PREPARE
       /\ IF Busy(p)
          THEN /\ commitVersion' = [commitVersion EXCEPT ![p] = cv]
               /\ Send(m, {})
               /\ UNCHANGED <<phaseVars, downstream, gtsWaiting>>
          ELSE EnterPreCommit(p, cv, m)
       /\ UNCHANGED <<prepareVersion, alive, forceAbort, outcome,
                      requested, answers, faults>>
    \/ downstream[p] \in {PRE_COMMIT, COMMIT} /\ AnswerReq(m, PRE_COMMIT)
    \/ downstream[p] \in {INIT, REDO_COMPLETE, ABORT} /\ Ignore(m)

HandleCommitReq(m) ==
    LET p == m.to IN
    \/ /\ downstream[p] \in {PREPARE, PRE_COMMIT}
       /\ IF Busy(p) THEN Ignore(m)
          ELSE /\ commitVersion' =
                    [commitVersion EXCEPT ![p] = MaxOf(@, m.version)]
               /\ DriveSelf(p, COMMIT, downstream[p], 0, {})
               /\ Send(m, ReqsTo(p, COMMIT, Downstream(p), commitVersion'[p]))
               /\ UNCHANGED <<prepareVersion, lifeVars, rootVars, faults>>
    \/ downstream[p] = COMMIT /\ AnswerReq(m, COMMIT)
    \/ downstream[p] \in {INIT, REDO_COMPLETE, ABORT} /\ Ignore(m)

HandleAbortReq(m) ==
    LET p == m.to IN
    \/ /\ downstream[p] \in {INIT, REDO_COMPLETE, PREPARE}
       /\ IF Busy(p) THEN Ignore(m)
          ELSE /\ DriveSelf(p, ABORT, downstream[p], 0, {})
               /\ Send(m, ReqsTo(p, ABORT, Downstream(p), 0))
               /\ UNCHANGED <<versionVars, lifeVars, rootVars, faults>>
    \/ downstream[p] = ABORT /\ AnswerReq(m, ABORT)
    \/ downstream[p] \in {PRE_COMMIT, COMMIT} /\ Ignore(m)

HandleClearReq(m) ==
    LET p == m.to IN
    \/ /\ downstream[p] \in {COMMIT, ABORT}
       /\ IF Busy(p) THEN Ignore(m)
          ELSE /\ DriveSelf(p, CLEAR, downstream[p], 0, {})
               /\ Send(m, ReqsTo(p, CLEAR, Downstream(p), 0))
               /\ UNCHANGED <<versionVars, lifeVars, rootVars, faults>>
    \/ downstream[p] \notin {COMMIT, ABORT} /\ Ignore(m)

HandleReq(m) ==
    /\ m.kind = "REQ" /\ alive[m.to]
    /\ \/ m.phase = PREPARE /\ HandlePrepareReq(m)
       \/ m.phase = PRE_COMMIT /\ HandlePreCommitReq(m)
       \/ m.phase = COMMIT /\ HandleCommitReq(m)
       \/ m.phase = ABORT /\ HandleAbortReq(m)
       \/ m.phase = CLEAR /\ HandleClearReq(m)

-----------------------------------------------------------------------------
(* Responses, handled by the upstream *)

\* The participant lags behind: send it the request of the current phase.
Remind(m) ==
    /\ Send(m, RetransmitTo(m.to, m.from))
    /\ UNCHANGED <<phaseVars, versionVars, lifeVars, rootVars, faults>>

\* collect_downstream_() and nothing else
CollectOnly(m) ==
    /\ collected' = [collected EXCEPT ![m.to] = @ \cup {m.from}]
    /\ Send(m, {})
    /\ UNCHANGED <<upstream, logging, logVersion>>

\* Fault: one response is taken for all.
CompletesPhaseAny(m) == m.from \in Downstream(m.to)

CompletesPhase(m) == collected[m.to] \cup {m.from} = Downstream(m.to)

\* handle_2pc_prepare_response_impl_()
PrepareRespImpl(m) ==
    LET p == m.to
        pv == MaxOf(prepareVersion[p], m.version) IN
    /\ prepareVersion' = [prepareVersion EXCEPT ![p] = pv]
    /\ IF ~Busy(p) /\ downstream[p] = PREPARE /\ CompletesPhase(m)
       THEN \/ IsRoot(p) /\ EnterPreCommit(p, pv, m)
            \/ WaitGts(p, pv) /\ CollectOnly(m) /\ UNCHANGED downstream
            \/ /\ ~IsRoot(p)
               /\ collected' = [collected EXCEPT ![p] = @ \cup {m.from}]
               /\ Send(m, RespOf(p, PREPARE, pv, 0))
               /\ UNCHANGED <<upstream, logging, logVersion, downstream,
                              commitVersion, gtsWaiting>>
       ELSE CollectOnly(m) /\ UNCHANGED <<downstream, commitVersion, gtsWaiting>>
    /\ UNCHANGED <<alive, forceAbort, outcome, requested, answers, faults>>

HandlePrepareResp(m) ==
    LET up == upstream[m.to] IN
    \/ up \in {INIT, REDO_COMPLETE, CLEAR} /\ Ignore(m)
    \/ up = PREPARE /\ PrepareRespImpl(m)
    \/ up \in {PRE_COMMIT, COMMIT, ABORT} /\ Remind(m)

\* handle_2pc_pre_commit_response_impl_()
PreCommitRespImpl(m) ==
    LET p == m.to
        cv == MaxOf(commitVersion[p], m.version) IN
    /\ prepareVersion' = [prepareVersion EXCEPT ![p] = MaxOf(@, m.version)]
    /\ commitVersion' = [commitVersion EXCEPT ![p] = cv]
    /\ IF CompletesPhase(m) /\ IsRoot(p) /\ ~Busy(p)
       THEN /\ DriveSelf(p, COMMIT, downstream[p], 0, {})
            /\ Answer(p, COMMIT)
            /\ Send(m, ReqsTo(p, COMMIT, Downstream(p), cv))
       ELSE /\ collected' = [collected EXCEPT ![p] = @ \cup {m.from}]
            /\ Send(m, IF CompletesPhase(m) THEN RespOf(p, PRE_COMMIT, 0, cv)
                       ELSE {})
            /\ UNCHANGED <<upstream, logging, logVersion, answers>>
    /\ UNCHANGED <<lifeVars, requested, gtsWaiting, faults>>

HandlePreCommitResp(m) ==
    LET up == upstream[m.to] IN
    \/ up = PRE_COMMIT /\ PreCommitRespImpl(m)
    \/ up \in {COMMIT, CLEAR} /\ Remind(m)
    \/ up \in {INIT, REDO_COMPLETE, PREPARE, ABORT} /\ Ignore(m)

\* handle_2pc_ack_response_impl_()
AckRespImpl(m) ==
    LET p == m.to IN
    /\ commitVersion' = [commitVersion EXCEPT ![p] = MaxOf(@, m.version)]
    /\ IF ~Busy(p) /\ downstream[p] \in {COMMIT, ABORT} /\ CompletesPhase(m)
       THEN FinishPhase(p, upstream[p], downstream[p], {m.from}, m)
       ELSE CollectOnly(m)
    /\ UNCHANGED <<prepareVersion, lifeVars, rootVars, faults>>

HandleCommitResp(m) ==
    LET up == upstream[m.to] IN
    \/ up = COMMIT /\ AckRespImpl(m)
    \/ up = CLEAR /\ Remind(m)
    \/ up \in {INIT, REDO_COMPLETE, PREPARE, PRE_COMMIT, ABORT} /\ Ignore(m)

\* The root learns its participants from the commit request, and has them
\* back from the log after a leader change.
KnowsParticipants(p) ==
    ~IsRoot(p) \/ requested \/ downstream[p] # INIT

\* Fault: the "Abandoned" variant of the source's comment, an abort response
\* moves the state although a log is in flight.
AbortRespImplWhileBusy(m) ==
    LET p == m.to IN
    IF downstream[p] \in {INIT, REDO_COMPLETE, PREPARE} /\ KnowsParticipants(p)
    THEN /\ upstream' = [upstream EXCEPT ![p] = ABORT]
         /\ collected' = [collected EXCEPT ![p] = {m.from}]
         /\ Answer(p, ABORT)
         /\ Send(m, ReqsTo(p, ABORT, Downstream(p), 0))
         /\ UNCHANGED <<logging, logVersion, versionVars, lifeVars, requested,
                        gtsWaiting, faults>>
    ELSE Ignore(m)

\* handle_2pc_abort_response_impl_(): the first abort response
AbortRespImpl(m) ==
    LET p == m.to IN
    IF /\ downstream[p] \in {INIT, REDO_COMPLETE, PREPARE}
       /\ ~Busy(p) /\ KnowsParticipants(p)
    THEN /\ DriveSelf(p, ABORT, downstream[p], 0, {m.from})
         /\ Answer(p, ABORT)
         /\ Send(m, ReqsTo(p, ABORT, Downstream(p), 0))
         /\ UNCHANGED <<versionVars, lifeVars, requested, gtsWaiting, faults>>
    ELSE Ignore(m)

HandleAbortResp(m) ==
    LET up == upstream[m.to] IN
    \/ up \in {INIT, REDO_COMPLETE, PREPARE} /\ AbortRespImpl(m)
    \/ up \in {COMMIT, ABORT} /\ AckRespImpl(m)
    \/ up = CLEAR /\ Remind(m)
    \/ up = PRE_COMMIT /\ Ignore(m)

HandleResp(m) ==
    /\ m.kind = "RESP" /\ alive[m.to]
    /\ \/ m.phase = PREPARE /\ HandlePrepareResp(m)
       \/ m.phase = PRE_COMMIT /\ HandlePreCommitResp(m)
       \/ m.phase = COMMIT /\ HandleCommitResp(m)
       \/ m.phase = ABORT /\ HandleAbortResp(m)

\* handle_orphan_2pc_*_response(): an upstream that has forgotten the
\* transaction presumes it aborted, or finished.
OrphanResp(m) ==
    {Req(IF m.phase \in {PREPARE, PRE_COMMIT} THEN ABORT ELSE CLEAR,
         m.to, m.from, 0)}

\* Fault: an unknown transaction is presumed committed.
OrphanReqCommit(m) ==
    IF m.phase = CLEAR THEN {} ELSE {Resp(m.phase, m.to, m.from, 0)}

\* handle_orphan_2pc_*_request(): so does a participant.
OrphanReq(m) ==
    IF m.phase = CLEAR THEN {} ELSE {Resp(ABORT, m.to, m.from, 0)}

OrphanReply(m) == IF m.kind = "RESP" THEN OrphanResp(m) ELSE OrphanReq(m)

HandleOrphan(m) ==
    /\ ~alive[m.to]
    /\ Send(m, OrphanReply(m))
    /\ UNCHANGED <<phaseVars, versionVars, lifeVars, rootVars, faults>>

\* handle_tx_batch_req()
Receive(m) == HandleReq(m) \/ HandleResp(m) \/ HandleOrphan(m)

\* The network loses m.
Lose(m) ==
    /\ ~Retain
    /\ faults < MaxFaults
    /\ faults' = faults + 1
    /\ Send(m, {})
    /\ UNCHANGED <<phaseVars, versionVars, lifeVars, rootVars>>

-----------------------------------------------------------------------------
(* Log callbacks *)

\* apply_prepare_log(); any other state aborts the process (ob_abort)
ApplyPrepareLog(p) ==
    /\ logging[p] = PREPARE
    /\ downstream[p] \in {INIT, REDO_COMPLETE} /\ upstream[p] = PREPARE
    /\ \/ IsRoot(p) /\ AllCollected(p) /\ EnterPreCommit(p, prepareVersion[p], NoMsg)
       \/ /\ downstream' = [downstream EXCEPT ![p] = PREPARE]
          /\ logging' = [logging EXCEPT ![p] = NONE]
          /\ IF AllCollected(p) /\ ~IsRoot(p)
             THEN Send(NoMsg, RespOf(p, PREPARE, prepareVersion[p], 0))
             ELSE UNCHANGED msgs
          /\ IF AllCollected(p) /\ IsRoot(p)
             THEN WaitGts(p, prepareVersion[p])
             ELSE UNCHANGED <<gtsWaiting, commitVersion>>
          /\ UNCHANGED <<upstream, collected, logVersion>>
    /\ UNCHANGED <<prepareVersion, alive, forceAbort, outcome,
                   requested, answers, faults>>

\* apply_commit_log()
ApplyCommitLog(p) ==
    /\ logging[p] = COMMIT
    /\ downstream[p] \in {PREPARE, PRE_COMMIT, COMMIT} /\ upstream[p] = COMMIT
    /\ downstream' = [downstream EXCEPT ![p] = COMMIT]
    /\ outcome' = [outcome EXCEPT ![p] = "commit"]
    /\ UNCHANGED <<versionVars, alive, forceAbort, rootVars, faults>>
    /\ IF AllCollected(p) THEN FinishPhase(p, COMMIT, COMMIT, {}, NoMsg)
       ELSE /\ logging' = [logging EXCEPT ![p] = NONE]
            /\ UNCHANGED <<upstream, collected, logVersion, msgs>>

\* on_success_ops_() for an abort log: a forced abort leaves at once, any other
\* goes through apply_abort_log()
ApplyAbortLog(p) ==
    /\ logging[p] = ABORT
    /\ downstream[p] \in {INIT, REDO_COMPLETE, PREPARE}
    /\ IF forceAbort[p]
       THEN /\ ExitAborted(p)
            /\ UNCHANGED <<upstream, collected, logVersion, msgs>>
       ELSE /\ downstream' = [downstream EXCEPT ![p] = ABORT]
            /\ outcome' = [outcome EXCEPT ![p] = "abort"]
            /\ UNCHANGED <<alive, answers, commitVersion>>
            /\ IF AllCollected(p) THEN FinishPhase(p, ABORT, ABORT, {}, NoMsg)
               ELSE /\ logging' = [logging EXCEPT ![p] = NONE]
                    /\ UNCHANGED <<upstream, collected, logVersion, msgs>>
    /\ UNCHANGED <<versionVars, forceAbort, requested, gtsWaiting, faults>>

\* apply_clear_log(): on_clear() lets the context exit
ApplyClearLog(p) ==
    /\ logging[p] = CLEAR
    /\ downstream[p] \in {COMMIT, ABORT} /\ upstream[p] = CLEAR
    /\ downstream' = [downstream EXCEPT ![p] = CLEAR]
    /\ alive' = [alive EXCEPT ![p] = FALSE]
    /\ logging' = [logging EXCEPT ![p] = NONE]
    /\ UNCHANGED <<upstream, collected, logVersion, versionVars, forceAbort,
                   outcome, rootVars, msgs, faults>>

LogSynced(p) ==
    /\ alive[p]
    /\ ApplyPrepareLog(p) \/ ApplyCommitLog(p) \/ ApplyAbortLog(p) \/ ApplyClearLog(p)

\* The commit info log is durable before the prepare log, or without one.
CommitInfoSynced(p) ==
    /\ alive[p] /\ downstream[p] = INIT /\ upstream[p] = PREPARE
    /\ downstream' = [downstream EXCEPT ![p] = REDO_COMPLETE]
    /\ UNCHANGED <<phaseVars, versionVars, alive, forceAbort, outcome,
                   rootVars, msgs, faults>>

\* on_failure(): the context keeps its in-memory state, unless none of its logs
\* was ever persisted.
LogFailed(p) ==
    /\ alive[p] /\ logging[p] # NONE
    /\ \/ /\ logging' = [logging EXCEPT ![p] = NONE]
          /\ UNCHANGED <<alive, downstream, outcome, answers>>
       \/ downstream[p] = INIT /\ ExitAborted(p)
    /\ UNCHANGED <<upstream, collected, logVersion, versionVars, forceAbort,
                   requested, gtsWaiting, msgs, faults>>

-----------------------------------------------------------------------------
(* The scheduler, timers, local aborts and leader changes *)

\* Fault: a retried request is answered "committed" as soon as the root has
\* prepared.
CommitRequestHasty ==
    /\ alive[Root] /\ ~Busy(Root)
    /\ \/ /\ downstream[Root] = INIT /\ upstream[Root] < PREPARE
          /\ EnterPrepare(Root, NoMsg)
          /\ requested' = TRUE
          /\ UNCHANGED answers
       \/ /\ downstream[Root] \in {PREPARE, PRE_COMMIT, COMMIT}
          /\ answers' = answers \cup {"committed"}
          /\ UNCHANGED <<phaseVars, prepareVersion, forceAbort, requested, msgs>>
    /\ UNCHANGED <<commitVersion, alive, downstream, outcome, gtsWaiting, faults>>

\* commit() on the root, with two_phase_commit(); it is refused while logging.
CommitRequest ==
    /\ alive[Root] /\ ~Busy(Root)
    /\ \/ /\ \/ downstream[Root] = INIT
             \/ downstream[Root] = REDO_COMPLETE /\ ~requested
          /\ IF upstream[Root] >= PREPARE
             THEN /\ requested' = TRUE
                  /\ UNCHANGED <<phaseVars, prepareVersion, forceAbort, answers, msgs>>
             ELSE /\ EnterPrepare(Root, NoMsg)
                  /\ requested' = (requested \/ ~forceAbort[Root])
                  /\ answers' = IF forceAbort[Root] /\ logging'[Root] = ABORT
                                THEN answers \cup {"killed"} ELSE answers
       \/ /\ downstream[Root] = ABORT
          /\ answers' = answers \cup {"killed"}
          /\ UNCHANGED <<phaseVars, prepareVersion, forceAbort, requested, msgs>>
       \/ /\ downstream[Root] \in {PRE_COMMIT, COMMIT}
          /\ answers' = answers \cup {"committed"}
          /\ UNCHANGED <<phaseVars, prepareVersion, forceAbort, requested, msgs>>
    /\ UNCHANGED <<commitVersion, alive, downstream, outcome, gtsWaiting, faults>>

\* local_ls_commit_tx_() when the context is gone: ask the tx table.
CommitRequestOnTxTable ==
    /\ ~alive[Root]
    /\ answers' = answers \cup
            (IF outcome[Root] = "commit" THEN {"committed"} ELSE {"killed"})
    /\ UNCHANGED <<phaseVars, versionVars, lifeVars, requested, gtsWaiting,
                   msgs, faults>>

\* Fault: a waiting participant does not repeat its response.
TimeoutDownOnly(p) ==
    /\ alive[p] /\ upstream[p] >= PREPARE
    /\ IF Busy(p) THEN UNCHANGED <<logging, logVersion>>
       ELSE SubmitLog(p, downstream[p], upstream[p], prepareVersion[p])
    /\ Send(NoMsg, RetransmitDown(p, upstream[p], collected[p]))
    /\ UNCHANGED <<upstream, collected, versionVars, lifeVars, rootVars, faults>>

\* ObPartTransCtx::handle_timeout() with the committer's handle_timeout()
Timeout(p) ==
    /\ alive[p]
    /\ \/ /\ downstream[p] = REDO_COMPLETE /\ upstream[p] < PREPARE /\ ~Busy(p)
          /\ EnterPrepare(p, NoMsg)
          /\ requested' = (requested \/ IsRoot(p))
       \/ /\ upstream[p] >= PREPARE
          /\ IF Busy(p) THEN UNCHANGED <<logging, logVersion>>
             ELSE SubmitLog(p, downstream[p], upstream[p], prepareVersion[p])
          /\ Send(NoMsg, RetransmitDown(p, upstream[p], collected[p])
                  \cup RetransmitUp(p, downstream[p], upstream[p], collected[p]))
          /\ UNCHANGED <<upstream, collected, prepareVersion, forceAbort, requested>>
    /\ UNCHANGED <<commitVersion, alive, downstream, outcome, gtsWaiting,
                   answers, faults>>

\* gts_elapse_callback()
GtsElapsed ==
    /\ alive[Root] /\ gtsWaiting
    /\ logging[Root] = NONE
    /\ EnterPreCommit(Root, prepareVersion[Root], NoMsg)
    /\ UNCHANGED <<prepareVersion, alive, forceAbort, outcome, requested,
                   answers, faults>>

\* Fault: a prepared participant may still be expired or killed.
LocalAbortPrepared(p) ==
    /\ alive[p] /\ downstream[p] \in {INIT, PREPARE} /\ ~Busy(p)
    /\ CompensateAbort(p)
    /\ UNCHANGED <<versionVars, alive, downstream, outcome, rootVars, msgs, faults>>

\* do_local_tx_end_(ABORT_TX) for an expired, killed or rolled back transaction
\* and for one whose data is incomplete on a new leader
LocalAbort(p) ==
    /\ alive[p] /\ downstream[p] = INIT /\ ~Busy(p)
    /\ \/ /\ CompensateAbort(p)
          /\ UNCHANGED <<alive, downstream, outcome, answers>>
       \/ /\ upstream[p] # ABORT
          /\ ExitAborted(p)
          /\ forceAbort' = [forceAbort EXCEPT ![p] = TRUE]
          /\ UNCHANGED <<upstream, collected, logVersion>>
    /\ UNCHANGED <<versionVars, requested, gtsWaiting, msgs, faults>>

\* Fault: replay forgets a prepare log that is still in the log.
RecoveredStatesLossy(p) ==
    IF downstream[p] \in {PREPARE, PRE_COMMIT} THEN {INIT, PREPARE}
    ELSE {downstream[p]}

\* The states a log stream can come back with: those its log proves, and the
\* unlogged PRE_COMMIT when a checkpoint of the context has caught it.
RecoveredStates(p) ==
    (IF downstream[p] = PRE_COMMIT THEN {PREPARE, PRE_COMMIT} ELSE {downstream[p]})
    \cup (IF logging[p] # NONE THEN {logging[p]} ELSE {})

\* A new leader with context state d: the replay_*_log() functions,
\* recover_tx_ctx_table_info() and switch_to_leader()
RecoverFrom(p, d) ==
    /\ downstream' = [downstream EXCEPT ![p] = d]
    /\ upstream' = [upstream EXCEPT ![p] = d]
    /\ alive' = [alive EXCEPT ![p] = d \notin {ABORT, CLEAR}]
    /\ outcome' = [outcome EXCEPT ![p] =
            IF d = COMMIT THEN "commit" ELSE IF d = ABORT THEN "abort" ELSE @]
    /\ IF d >= PREPARE
       THEN \E v \in {logVersion[p], prepareVersion[p]} :
                prepareVersion' = [prepareVersion EXCEPT ![p] = v]
       ELSE prepareVersion' = [prepareVersion EXCEPT ![p] = 0]
    /\ commitVersion' = IF d <= PREPARE THEN [commitVersion EXCEPT ![p] = 0]
                        ELSE commitVersion
    /\ requested' = (requested /\ ~IsRoot(p))

\* A context that has logged nothing but redo: it may not be there at all
\* (switch_to_follower_forcedly() leaves, or a replay finds no log), it may be
\* complete because a graceful switch wrote an active info log, or it is marked
\* for a delayed abort.
Failover(p) ==
    /\ alive[p]
    /\ faults < MaxFaults
    /\ faults' = faults + 1
    /\ \/ \E d \in RecoveredStates(p) :
            /\ RecoverFrom(p, d)
            /\ \/ d # INIT /\ forceAbort' = [forceAbort EXCEPT ![p] = FALSE]
               \/ /\ d = INIT /\ upstream[p] = INIT /\ UNCHANGED forceAbort
               \/ /\ d = INIT /\ forceAbort' = [forceAbort EXCEPT ![p] = TRUE]
            /\ logging' = [logging EXCEPT ![p] = NONE]
            /\ UNCHANGED answers
       \/ /\ downstream[p] = INIT /\ logging[p] = NONE
          /\ ExitAborted(p)
          /\ UNCHANGED <<upstream, versionVars, forceAbort, requested>>
    /\ collected' = [collected EXCEPT ![p] = {}]
    /\ gtsWaiting' = IF IsRoot(p) THEN FALSE ELSE gtsWaiting
    /\ UNCHANGED <<logVersion, msgs>>

-----------------------------------------------------------------------------
(* The specification *)

Init ==
    /\ alive = [p \in Participants |-> TRUE]
    /\ upstream = [p \in Participants |-> INIT]
    /\ downstream = [p \in Participants |-> INIT]
    /\ collected = [p \in Participants |-> {}]
    /\ logging = [p \in Participants |-> NONE]
    /\ forceAbort = [p \in Participants |-> FALSE]
    /\ requested = FALSE
    /\ gtsWaiting = FALSE
    /\ prepareVersion = [p \in Participants |-> 0]
    /\ logVersion = [p \in Participants |-> 0]
    /\ commitVersion = [p \in Participants |-> 0]
    /\ msgs = {}
    /\ answers = {}
    /\ outcome = [p \in Participants |-> "none"]
    /\ faults = 0

Next ==
    \/ CommitRequest
    \/ CommitRequestOnTxTable
    \/ GtsElapsed
    \/ \E m \in msgs : Receive(m) \/ Lose(m)
    \/ \E p \in Participants :
            \/ LogSynced(p) \/ CommitInfoSynced(p) \/ LogFailed(p)
            \/ Timeout(p) \/ LocalAbort(p) \/ Failover(p)

Spec == Init /\ [][Next]_vars

-----------------------------------------------------------------------------
(* Properties *)

\* Type correctness of the context's fields, the network and the history.
TypeOK ==
    /\ alive \in [Participants -> BOOLEAN]
    /\ upstream \in [Participants -> TxState]
    /\ downstream \in [Participants -> TxState]
    /\ collected \in [Participants -> SUBSET Participants]
    /\ logging \in [Participants -> StateLog \cup {NONE}]
    /\ forceAbort \in [Participants -> BOOLEAN]
    /\ requested \in BOOLEAN
    /\ gtsWaiting \in BOOLEAN
    /\ prepareVersion \in [Participants -> Version]
    /\ logVersion \in [Participants -> Version]
    /\ commitVersion \in [Participants -> Version]
    /\ msgs \subseteq Message
    /\ answers \subseteq {"committed", "killed"}
    /\ outcome \in [Participants -> {"none", "commit", "abort"}]
    /\ faults \in 0 .. MaxFaults

\* Atomicity: no log stream applies the commit of a transaction that another
\* one aborts (on_commit() and on_abort() at different participants), whatever
\* messages are lost, repeated or late and whichever leaders change.
Atomicity ==
    \A p, q \in Participants : ~(outcome[p] = "commit" /\ outcome[q] = "abort")

\* The scheduler is told the truth (post_tx_commit_resp_() and the return codes
\* of commit()): once it has heard "committed" every participant has committed
\* or holds a prepared context that can do nothing else, and once it has heard
\* "killed" no participant commits.
ClientTruth ==
    /\ "committed" \in answers =>
            /\ "killed" \notin answers
            /\ \A p \in Participants :
                 \/ outcome[p] = "commit"
                 \/ alive[p] /\ downstream[p] \in {PREPARE, PRE_COMMIT}
    /\ "killed" \in answers => \A p \in Participants : outcome[p] # "commit"

\* Presumed abort is sound: a coordinator whose context is gone answers every
\* late message with an abort (handle_orphan_2pc_resp()), so it may forget a
\* committed transaction only when every participant has committed it.
ForgetSafe ==
    ~alive[Root] /\ outcome[Root] = "commit" =>
        \A p \in Participants : outcome[p] = "commit"

\* A log callback always finds the state it was submitted in: the branches of
\* apply_prepare_log(), apply_commit_log(), apply_abort_log() and
\* apply_clear_log() that end in ob_abort() are unreachable, though requests,
\* responses and timeouts are handled while the log is in flight.
ApplyNeverPanics ==
    \A p \in Participants :
        /\ logging[p] = PREPARE =>
            downstream[p] \in {INIT, REDO_COMPLETE} /\ upstream[p] = PREPARE
        /\ logging[p] = COMMIT =>
            downstream[p] \in {PREPARE, PRE_COMMIT} /\ upstream[p] = COMMIT
        /\ logging[p] = ABORT => downstream[p] \in {INIT, REDO_COMPLETE, PREPARE}
        /\ logging[p] = CLEAR =>
            downstream[p] \in {COMMIT, ABORT} /\ upstream[p] = CLEAR

\* The state and message pairs for which a handler logs "invalid 2pc state",
\* "protocol error" or "handle orphan request, ignore it" and drops the message.
ProtocolError(m) ==
    LET up == upstream[m.to]
        down == downstream[m.to] IN
    IF m.kind = "REQ"
    THEN CASE m.phase \in {PRE_COMMIT, COMMIT} -> down \in {INIT, REDO_COMPLETE, ABORT}
           [] m.phase = ABORT -> down = PRE_COMMIT
           [] m.phase = CLEAR -> down \in {REDO_COMPLETE, PREPARE, PRE_COMMIT}
           [] OTHER -> FALSE
    ELSE CASE m.phase \in {PRE_COMMIT, COMMIT} -> up \in {INIT, REDO_COMPLETE, ABORT}
           [] m.phase = ABORT -> up = PRE_COMMIT
           [] OTHER -> FALSE

\* No message in the network, however old, is one its receiver would reject as
\* a protocol error: the error branches of the request and response handlers
\* are unreachable even with repeated and reordered messages.
NoProtocolError == \A m \in msgs : alive[m.to] => ~ProtocolError(m)

\* Participants that commit do so at one version, and it is not below the
\* prepare version any of them has promised to readers (do_commit(),
\* on_pre_commit()), also when a new leader rebuilt its version from the log.
VersionAgreement ==
    \A p, q \in Participants :
        outcome[p] = "commit" /\ outcome[q] = "commit" =>
            /\ commitVersion[p] = commitVersion[q]
            /\ commitVersion[p] >= prepareVersion[q]

\* "the parent node waits for the node's 2pc state response before responsing
\* its 2pc state to his parent node": an internal participant says it is
\* prepared only after each of its downstreams has said so.  To be checked with
\* Retain = TRUE, where msgs holds everything ever sent.
ParentWaits ==
    \A p \in Participants \ {Root} :
        (\E m \in msgs : m.kind = "RESP" /\ m.phase = PREPARE /\ m.from = p) =>
            \A q \in Downstream(p) :
                \E m \in msgs : m.kind = "RESP" /\ m.phase = PREPARE /\ m.from = q

\* A participant's decision is final and its durable progress is never undone:
\* a log stream that has ended the transaction one way never ends it the other
\* way, and one that has prepared (it has promised to obey the coordinator)
\* never falls back to a state in which it could abort on its own, not even in
\* a leader change.
DurableSteps ==
    [][\A p \in Participants :
        /\ outcome[p] # "none" => outcome'[p] = outcome[p]
        /\ downstream[p] >= PREPARE => downstream'[p] >= PREPARE]_vars

-----------------------------------------------------------------------------
(* The abstract specification it implements *)

\* What p has durably done with the transaction.
RmState(p) ==
    IF outcome[p] = "commit" THEN "committed"
    ELSE IF outcome[p] = "abort" THEN "aborted"
    ELSE IF downstream[p] >= PREPARE THEN "prepared" ELSE "working"

AC == INSTANCE AtomicCommit WITH
        rm <- [p \in Participants |-> RmState(p)],
        told <- answers

\* Every behaviour of the committer is one of the abstract atomic commitment:
\* in particular nobody commits until all have prepared, and no answer is given
\* before it is inevitable.
ImplementsAtomicCommit == AC!Spec

-----------------------------------------------------------------------------
(* Liveness *)

ReceiveTo(p, phase) == \E m \in msgs : m.to = p /\ m.phase = phase /\ Receive(m)

\* Timeout(p) resubmits a log it still needs, and is not refused.
Resubmit(p) == Timeout(p) /\ logging'[p] # logging[p]

\* ObTransTimer calls handle_timeout() again and again until the context is
\* gone, and it expires an idle transaction; the election gives the log stream
\* a leader whose logs are eventually accepted, so submissions and
\* synchronisations do not fail for ever; the RPC layer delivers what it does
\* not lose; gts advances.
Fairness ==
    /\ WF_vars(GtsElapsed)
    /\ \A p \in Participants :
        /\ \A phase \in Phase : WF_vars(ReceiveTo(p, phase))
        /\ SF_vars(LogSynced(p))
        /\ WF_vars(Timeout(p))
        /\ WF_vars(Resubmit(p))
        /\ WF_vars(LocalAbort(p))

FairSpec == Spec /\ Fairness

\* Every context ends: whatever is lost and whoever is replaced, no participant
\* waits for ever for another one, and none keeps its locks for ever.
Termination == <>(\A p \in Participants : ~alive[p])

=============================================================================
