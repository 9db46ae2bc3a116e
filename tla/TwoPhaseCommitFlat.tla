------------------------- MODULE TwoPhaseCommitFlat -------------------------
(***************************************************************************)
(* FlatInv is inductive for a flat transaction (every participant is a     *)
(* direct downstream of the root), whatever the number of participants.    *)
(* From it follow the truth of the scheduler's answers and the absence of  *)
(* protocol errors, and the committer is shown to implement AtomicCommit.  *)
(* (Atomicity and ForgetSafe are proved for every tree, in                 *)
(* TwoPhaseCommitTree.)                                                    *)
(*                                                                         *)
(* The argument uses the actions only through the lemmas of                *)
(* TwoPhaseCommitSteps, collected in StepFacts.                            *)
(***************************************************************************)
EXTENDS TwoPhaseCommitSteps

USE DEF INIT, REDO_COMPLETE, PREPARE, PRE_COMMIT, COMMIT, ABORT, CLEAR, NONE

-----------------------------------------------------------------------------
(* The shape of a flat transaction *)

\* The root has all the others below it.
LEMMA FlatTree ==
    ASSUME Flat
    PROVE  /\ Downstream(Root) = Participants \ {Root}
           /\ \A p \in Participants \ {Root} : Downstream(p) = {}
BY TreeAssumption DEF Flat, Downstream

\* Only the root receives responses, and only the root sends requests.
LEMMA RespToRoot ==
    ASSUME LocalInv, Flat, NEW m \in msgs, m.kind = "RESP"
    PROVE  m.to = Root /\ m.from \in Participants \ {Root}
BY MessageFields DEF LocalInv, FollowTree, Flat

LEMMA ReqFromRoot ==
    ASSUME LocalInv', Flat, NEW m \in msgs', m.kind = "REQ"
    PROVE  m.from = Root
<1>1. m.to \in Participants
    BY MessageFields DEF LocalInv, TypeOK, Message
<1>. QED
    BY <1>1 DEF LocalInv, FollowTree, Flat

LEMMA RootAck ==
    ASSUME StepFacts
    PROVE  AckStep(Root)
BY TreeAssumption DEF StepFacts

-----------------------------------------------------------------------------
(* A commit and an abort exclude each other *)

LEMMA DoomedNotLocked ==
    ASSUME LocalInv, NEW x \in Participants, Doomed(x)
    PROVE  ~Locked(x)
<1>0. CtxOK(x)
    BY DEF LocalInv
<1>1. CASE alive[x]
    BY <1>0, <1>1 DEF CtxOK, LifeOK, ForceOK, Doomed, Locked
<1>2. CASE ~alive[x]
    BY <1>0, <1>2 DEF CtxOK, LifeOK, Doomed, Locked
<1>. QED
    BY <1>1, <1>2

LEMMA DoomedNotLockedNext ==
    ASSUME LocalInv', NEW x \in Participants, Doomed(x)'
    PROVE  ~Locked(x)'
<1>0. CtxOK(x)'
    BY DEF LocalInv
<1>1. CASE alive'[x]
    BY <1>0, <1>1 DEF CtxOK, LifeOK, ForceOK, Doomed, Locked
<1>2. CASE ~alive'[x]
    BY <1>0, <1>2 DEF CtxOK, LifeOK, Doomed, Locked
<1>. QED
    BY <1>1, <1>2

LEMMA Exclusive ==
    ASSUME LocalInv, GlobalInv, CommitSeen
    PROVE  ~CanAbort /\ ~AbortSeen
BY DoomedNotLocked DEF GlobalInv, AllLocked, CanAbort

\* The doomed stay doomed, and so stays a commit of all.
LEMMA DoomedStable ==
    ASSUME StepFacts, NEW x \in Participants, Doomed(x)
    PROVE  Doomed(x)'
<1>0. CtxStep(x) /\ Final(x) /\ ~SaidPrepared(x)
    BY DEF StepFacts, Doomed, SaidPrepared
<1>1. upstream'[Root] = PREPARE => x \notin collected'[Root]
    BY <1>0, RootAck DEF AckStep, Doomed
<1>2. \A m \in msgs' : m.kind = "RESP" /\ m.phase = PREPARE => m.from # x
    <2>1. \A m \in msgs' \ msgs : m.kind = "RESP" /\ m.phase = PREPARE => m.from # x
        BY <1>0 DEF StepFacts, AllBacked, Backed, Doomed
    <2>. QED
        BY <2>1 DEF Doomed
<1>3. alive'[x] => forceAbort'[x]
    BY <1>0 DEF CtxStep, Doomed
<1>4. ~alive'[x] => outcome'[x] = "abort"
    BY <1>0 DEF CtxStep, Doomed, Final
<1>. QED
    BY <1>1, <1>2, <1>3, <1>4 DEF Doomed

LEMMA FateStable ==
    ASSUME StepFacts
    PROVE  /\ CanAbort => CanAbort'
           /\ AllCommitted => AllCommitted'
<1>1. CanAbort => CanAbort'
    BY DoomedStable DEF CanAbort
<1>2. AllCommitted => AllCommitted'
    BY DEF AllCommitted, StepFacts, Final
<1>. QED
    BY <1>1, <1>2

-----------------------------------------------------------------------------
(* The conjuncts of GlobalInv, one by one *)

\* The first evidence of an abort comes from somebody who gives up before it
\* has said that it is prepared.
LEMMA AbortStep ==
    ASSUME LocalInv, GlobalInv, LocalInv', StepFacts, AbortSeen'
    PROVE  CanAbort'
<1>1. CASE CanAbort
    BY <1>1, FateStable
<1>2. CASE ~CanAbort
    <2>0. ~AbortSeen
        BY <1>2 DEF GlobalInv
    <2>1. PICK q \in Participants : AbortMark(q)'
        BY <2>0, Names DEF AbortSeen, AbortMark, StepFacts, AnswerStep
    <2>2. GivesUp(q)
        <3>1. CtxStep(q) /\ ~AbortMark(q)
            BY <2>0, MarksSeen DEF StepFacts
        <3>2. ~(HeardAbort /\ outcome[q] = "none")
            BY <1>2 DEF HeardAbort, GlobalInv, PresumedAbortOK, AllCommitted
        <3>. QED
            BY <2>1, <3>1, <3>2 DEF CtxStep
    <2>3. ~SaidPrepared(q) /\ (upstream[Root] = PREPARE => q \notin collected[Root])
        BY <2>2 DEF GivesUp, SaidPrepared, GlobalInv, PreparedOK
    <2>4. upstream'[Root] = PREPARE => q \notin collected'[Root]
        BY <2>3, RootAck DEF AckStep
    <2>5. alive'[q] => downstream'[q] = INIT
        BY <2>2 DEF GivesUp, LocalInv, CtxOK, ForceOK
    <2>6. \A m \in msgs' : m.kind = "RESP" /\ m.phase = PREPARE => m.from # q
        <3>1. \A m \in msgs' \ msgs : m.kind = "RESP" /\ m.phase = PREPARE => m.from # q
            BY <2>5 DEF StepFacts, AllBacked, Backed
        <3>. QED
            BY <2>3, <3>1 DEF SaidPrepared
    <2>7. Doomed(q)'
        BY <2>2, <2>4, <2>6 DEF Doomed, GivesUp
    <2>. QED
        BY <2>7 DEF CanAbort
<1>. QED
    BY <1>1, <1>2

\* The first evidence of a commit is the root's, with every response at hand.
LEMMA FirstCommit ==
    ASSUME LocalInv, GlobalInv, StepFacts, CommitSeen', ~CommitSeen
    PROVE  Decides
<1>1. CommitShown
    <2>1. CASE \E m \in msgs' : m.phase \in {PRE_COMMIT, COMMIT}
        BY <2>1 DEF CommitSeen, StepFacts, AllBacked, Backed
    <2>2. CASE "committed" \in answers'
        BY <2>2 DEF CommitSeen, StepFacts, AnswerStep
    <2>. QED
        BY <2>1, <2>2 DEF CommitSeen, CommitShown, CommitMark
<1>2. PICK q \in Participants : CommitMark(q)'
    BY <1>1 DEF CommitShown
<1>3. CtxStep(q) /\ ~CommitMark(q) /\ ~HeardCommit
    BY MarksSeen DEF StepFacts, HeardCommit, CommitSeen
<1>. QED
    BY <1>2, <1>3 DEF CtxStep

LEMMA CommitStep ==
    ASSUME Flat, LocalInv, GlobalInv, LocalInv', StepFacts, CommitSeen'
    PROVE  AllLocked'
<1>1. ASSUME ~AbortSeen, NEW q \in Participants, Locked(q)
      PROVE  Locked(q)'
    <2>1. upstream[q] # ABORT /\ CtxStep(q)
        BY <1>1 DEF AbortSeen, StepFacts
    <2>. QED
        BY <1>1, <2>1 DEF CtxStep
<1>2. CASE CommitSeen
    <2>1. ~AbortSeen /\ AllLocked
        BY <1>2, Exclusive DEF GlobalInv
    <2>. QED
        BY <1>1, <2>1 DEF AllLocked
<1>3. CASE ~CommitSeen
    <2>0. Decides
        BY <1>3, FirstCommit
    <2>1. ~AbortSeen
        <3>1. ~Doomed(Root)
            BY <2>0, Names DEF Decides, Doomed, LocalInv, CtxOK, ForceOK
        <3>2. \A x \in Participants \ {Root} : ~Doomed(x)
            BY <2>0, FlatTree DEF Decides, Doomed, SaidPrepared
        <3>. QED
            BY <3>1, <3>2 DEF GlobalInv, CanAbort
    <2>2. ASSUME NEW q \in Participants \ {Root}
          PROVE  Locked(q)'
        <3>1. downstream[q] >= PREPARE
            BY <2>0, FlatTree DEF Decides, SaidPrepared, GlobalInv, PreparedOK
        <3>2. outcome[q] # "abort"
            BY <2>1 DEF AbortSeen
        <3>3. Locked(q)
            BY <3>1, <3>2, Names DEF Locked, LocalInv, CtxOK, LifeOK
        <3>. QED
            BY <1>1, <2>1, <3>3
    <2>3. Locked(Root)'
        BY <2>0 DEF Decides, Locked
    <2>. QED
        BY <2>2, <2>3 DEF AllLocked
<1>. QED
    BY <1>2, <1>3

LEMMA PreparedStep ==
    ASSUME LocalInv, GlobalInv, LocalInv', StepFacts
    PROVE  PreparedOK'
<1>0. /\ \A m \in msgs' : m.from \in Participants
      /\ collected'[Root] \subseteq Participants
    BY TreeAssumption, MessageFields DEF LocalInv, TypeOK, Message
<1>1. \A q \in Participants : SaidPrepared(q) => downstream'[q] >= PREPARE
    BY DEF SaidPrepared, GlobalInv, PreparedOK, StepFacts, Final
<1>2. ASSUME NEW m \in msgs', m.kind = "RESP", m.phase = PREPARE
      PROVE  downstream'[m.from] >= PREPARE
    <2>1. CASE m \in msgs
        BY <1>0, <1>1, <1>2, <2>1 DEF SaidPrepared
    <2>2. CASE m \notin msgs
        BY <1>2, <2>2 DEF StepFacts, AllBacked, Backed
    <2>. QED
        BY <2>1, <2>2
<1>3. ASSUME upstream'[Root] = PREPARE, NEW q \in collected'[Root]
      PROVE  downstream'[q] >= PREPARE
    BY <1>0, <1>1, <1>3, RootAck DEF StepFacts, AckStep, GlobalInv, PreparedOK, Final
<1>. QED
    BY <1>2, <1>3 DEF PreparedOK

LEMMA EndedStep ==
    ASSUME Flat, LocalInv, GlobalInv, LocalInv', StepFacts
    PROVE  EndedOK'
<1>0. /\ \A m \in msgs' : m.from \in Participants /\ m.to \in Participants
      /\ collected'[Root] \subseteq Participants /\ Root \in Participants
    BY TreeAssumption, MessageFields DEF LocalInv, TypeOK, Message
<1>1. \A q \in Participants : outcome[q] # "none" => outcome'[q] # "none"
    BY DEF StepFacts, Final
<1>2. \A q \in Participants : SaidEnded(q) => outcome[q] # "none"
    BY DEF SaidEnded, GlobalInv, EndedOK
<1>3. upstream'[Root] = CLEAR => \A q \in Participants : outcome'[q] # "none"
    <2>1. CASE upstream[Root] = CLEAR
        BY <1>1, <2>1 DEF GlobalInv, EndedOK
    <2>2. CASE Finishes
        BY <1>1, <1>2, <2>2, FlatTree DEF Finishes, GlobalInv, EndedOK
    <2>. QED
        BY <1>0, <2>1, <2>2 DEF StepFacts, CtxStep
<1>4. ASSUME upstream'[Root] \in {COMMIT, ABORT}, ~forceAbort'[Root],
             NEW q \in collected'[Root]
      PROVE  outcome'[q] # "none"
    BY <1>0, <1>1, <1>2, <1>4, RootAck DEF AckStep, GlobalInv, EndedOK
<1>5. ASSUME NEW m \in msgs'
      PROVE  /\ m.kind = "RESP" /\ m.phase \in {COMMIT, ABORT, CLEAR} =>
                    outcome'[m.from] # "none"
             /\ m.kind = "REQ" /\ m.phase = CLEAR => outcome'[m.to] # "none"
    <2>1. CASE m \in msgs
        BY <1>0, <1>1, <2>1 DEF GlobalInv, EndedOK
    <2>2. CASE m \notin msgs
        <3>1. Backed(m) /\ (m.kind = "REQ" => m.from = Root)
            BY <2>2, ReqFromRoot DEF StepFacts, AllBacked
        <3>. QED
            BY <1>0, <1>1, <1>2, <1>3, <3>1 DEF Backed, EndBacked
    <2>. QED
        BY <2>1, <2>2
<1>. QED
    BY <1>3, <1>4, <1>5 DEF EndedOK

\* Abort messages, and the end of a context, have a reason.
LEMMA PresumedAbortStep ==
    ASSUME Flat, LocalInv, GlobalInv, LocalInv', StepFacts,
           AbortSeen' => CanAbort', EndedOK'
    PROVE  PresumedAbortOK'
<1>1. CASE CanAbort \/ AllCommitted
    BY <1>1, FateStable DEF PresumedAbortOK
<1>2. CASE ~(CanAbort \/ AllCommitted)
    <2>0. /\ ~AbortSeen /\ ~HeardAbort /\ ~HeardClear
          /\ \A q \in Participants :
                upstream[q] # CLEAR /\ (outcome[q] = "commit" => alive[q])
        BY <1>2 DEF GlobalInv, PresumedAbortOK, HeardAbort, HeardClear
    <2>1. \A q \in Participants : alive[q]
        BY <2>0, Names DEF AbortSeen, LocalInv, CtxOK, LifeOK
    <2>2. ASSUME NEW q \in Participants, upstream'[q] = CLEAR
          PROVE  CanAbort' \/ AllCommitted'
        <3>1. q = Root
            BY <2>0, <2>2 DEF StepFacts, CtxStep
        <3>2. \A x \in Participants : outcome'[x] # "none"
            BY <2>2, <3>1 DEF EndedOK
        <3>3. AllCommitted' \/ \E x \in Participants : outcome'[x] = "abort"
            BY <3>2 DEF AllCommitted, LocalInv, TypeOK
        <3>. QED
            BY <3>3 DEF AbortSeen
    <2>3. ASSUME NEW q \in Participants, ~alive'[q], outcome'[q] = "commit"
          PROVE  FALSE
        BY <2>0, <2>1, <2>3 DEF StepFacts, CtxStep
    <2>4. ASSUME NEW m \in msgs', m.phase \in {ABORT, CLEAR}
          PROVE  CanAbort' \/ AllCommitted'
        <3>1. m \notin msgs
            BY <2>0, <2>4 DEF HeardAbort, HeardClear
        <3>2. CASE m.phase = ABORT
            <4>1. m.from \in Participants /\ AbortMark(m.from)'
                BY <2>1, <2>4, <3>1, <3>2 DEF StepFacts, AllBacked, Backed
            <4>. QED
                BY <4>1, MarksSeenNext
        <3>3. CASE m.phase = CLEAR
            <4>1. upstream'[Root] = CLEAR
                BY <2>1, <2>4, <3>1, <3>3, ReqFromRoot DEF StepFacts, AllBacked, Backed
            <4>. QED
                BY <2>2, <4>1, TreeAssumption
        <3>. QED
            BY <2>4, <3>2, <3>3
    <2>. QED
        BY <2>2, <2>3, <2>4 DEF PresumedAbortOK
<1>. QED
    BY <1>1, <1>2

-----------------------------------------------------------------------------
(* The theorems *)

LEMMA FlatInduction ==
    ASSUME Flat, FlatInv, [Next]_vars
    PROVE  FlatInv'
<1>0. LocalInv /\ GlobalInv /\ LocalInv'
    BY LocalInduction DEF FlatInv
<1>1. CASE Next
    <2>0. StepFacts
        BY <1>0, <1>1, NextFacts
    <2>1. (CommitSeen' => AllLocked') /\ (AbortSeen' => CanAbort')
        BY <1>0, <2>0, CommitStep, AbortStep
    <2>2. PreparedOK' /\ EndedOK'
        BY <1>0, <2>0, PreparedStep, EndedStep
    <2>3. PresumedAbortOK'
        BY <1>0, <2>0, <2>1, <2>2, PresumedAbortStep
    <2>. QED
        BY <1>0, <2>1, <2>2, <2>3 DEF FlatInv, GlobalInv
<1>2. CASE UNCHANGED vars
    <2>1. GlobalInv'
        BY <1>0, <1>2
        DEF vars, phaseVars, lifeVars, rootVars, GlobalInv, CommitSeen, AllLocked,
            Locked, AbortSeen, CanAbort, Doomed, PreparedOK, EndedOK,
            PresumedAbortOK, AllCommitted
    <2>. QED
        BY <1>0, <2>1 DEF FlatInv
<1>. QED
    BY <1>1, <1>2

\* The invariant of a flat transaction, for any number of participants, any
\* number of leader changes and any loss, repetition and reordering.
THEOREM FlatCorrect ==
    ASSUME Flat
    PROVE  Spec => []FlatInv
<1>1. Init => GlobalInv
    BY TreeAssumption
    DEF Init, GlobalInv, CommitSeen, AbortSeen, PreparedOK, EndedOK, PresumedAbortOK
<1>2. FlatInv /\ [Next]_vars => FlatInv'
    BY FlatInduction
<1>. QED
    BY <1>1, <1>2, LocalCorrect, PTL DEF Spec, FlatInv

\* What the invariant says to the outside.
LEMMA FlatInvTruth ==
    ASSUME FlatInv, Flat
    PROVE  ClientTruth
<1>0. LocalInv /\ GlobalInv
    BY DEF FlatInv
<1>1. /\ CommitSeen => ~AbortSeen /\ AllLocked
      /\ \A q \in Participants : outcome[q] = "commit" => CommitSeen
      /\ \A q \in Participants : outcome[q] = "abort" => AbortSeen
    BY <1>0, Exclusive DEF GlobalInv, CommitSeen, AbortSeen
<1>2. "committed" \in answers => CommitSeen
    BY DEF CommitSeen
<1>3. "killed" \in answers => AbortSeen
    BY DEF AbortSeen
<1>4. ASSUME NEW q \in Participants, Locked(q)
      PROVE  outcome[q] = "commit" \/ (alive[q] /\ downstream[q] \in {PREPARE, PRE_COMMIT})
    BY <1>0, <1>4, Names DEF Locked, LocalInv, CtxOK, LifeOK
<1>. QED
    BY <1>1, <1>2, <1>3, <1>4 DEF ClientTruth, AllLocked

LEMMA FlatInvNoError ==
    ASSUME FlatInv, Flat, NEW m \in msgs, alive[m.to]
    PROVE  ~ProtocolError(m)
<1> DEFINE p == m.to
<1>0. LocalInv /\ GlobalInv /\ p \in Participants /\ CtxOK(p)
    BY MessageFields DEF FlatInv, LocalInv
<1>1. /\ m.kind \in {"REQ", "RESP"} /\ m.phase \in Phase
      /\ downstream[p] \in TxState /\ upstream[p] \in TxState
      /\ outcome[p] \in {"none", "commit", "abort"}
    BY <1>0, Names
<1>2. m.phase \in {PRE_COMMIT, COMMIT} => Locked(p) /\ upstream[p] # ABORT
    <2>1. m.phase \in {PRE_COMMIT, COMMIT} => CommitSeen
        BY DEF CommitSeen
    <2>2. CommitSeen => Locked(p) /\ ~AbortSeen
        BY <1>0, Exclusive DEF GlobalInv, AllLocked
    <2>. QED
        BY <1>0, <2>1, <2>2 DEF AbortSeen
<1>3. m.phase = ABORT => downstream[p] # PRE_COMMIT /\ upstream[p] # PRE_COMMIT
    <2>1. m.phase = ABORT => CanAbort \/ outcome[p] = "commit"
        BY <1>0 DEF GlobalInv, PresumedAbortOK, AllCommitted
    <2>2. downstream[p] = PRE_COMMIT \/ upstream[p] = PRE_COMMIT => ~CanAbort
        BY <1>0, Exclusive DEF CommitSeen
    <2>3. outcome[p] = "commit" => downstream[p] = COMMIT /\ upstream[p] # PRE_COMMIT
        BY <1>0 DEF CtxOK, LifeOK, PhaseOK
    <2>. QED
        BY <2>1, <2>2, <2>3
<1>4. m.kind = "REQ" /\ m.phase = CLEAR => outcome[p] # "none"
    BY <1>0 DEF GlobalInv, EndedOK
<1> HIDE DEF p
<1>5. CASE m.kind = "REQ"
    <2>1. m.phase \in {PRE_COMMIT, COMMIT} =>
                downstream[p] \notin {INIT, REDO_COMPLETE, ABORT}
        BY <1>0, <1>2 DEF Locked, CtxOK, LifeOK
    <2>2. m.phase = CLEAR => downstream[p] \notin {REDO_COMPLETE, PREPARE, PRE_COMMIT}
        BY <1>0, <1>1, <1>4, <1>5 DEF CtxOK, LifeOK
    <2>. QED
        BY <1>1, <1>3, <1>5, <2>1, <2>2 DEF ProtocolError, Phase, p
<1>6. CASE m.kind = "RESP"
    <2>1. m.phase \in {PRE_COMMIT, COMMIT} =>
                upstream[p] \notin {INIT, REDO_COMPLETE, ABORT}
        BY <1>0, <1>1, <1>2 DEF Locked, CtxOK, LifeOK, PhaseOK, p
    <2>. QED
        BY <1>1, <1>3, <1>6, <2>1 DEF ProtocolError, Phase, p
<1>. QED
    BY <1>1, <1>5, <1>6

\* The scheduler is never misinformed: an answer given before the log of the
\* phase is durable can not be overturned by a leader change.
THEOREM ClientTruthHolds ==
    ASSUME Flat
    PROVE  Spec => []ClientTruth
<1>1. FlatInv => ClientTruth
    BY FlatInvTruth
<1>. QED
    BY <1>1, FlatCorrect, PTL

\* No handler ever rejects a message as a protocol error.
THEOREM NoProtocolErrorHolds ==
    ASSUME Flat
    PROVE  Spec => []NoProtocolError
<1>1. FlatInv => NoProtocolError
    BY FlatInvNoError DEF NoProtocolError
<1>. QED
    BY <1>1, FlatCorrect, PTL

-----------------------------------------------------------------------------
(* The refinement *)

rmBar == [p \in Participants |-> RmState(p)]

\* The abstract states, read off the invariant.
LEMMA Abstraction ==
    ASSUME LocalInv, NEW q \in Participants
    PROVE  /\ rmBar[q] = "committed" <=> outcome[q] = "commit"
           /\ rmBar[q] = "aborted" <=> outcome[q] = "abort"
           /\ rmBar[q] = "prepared" <=> outcome[q] = "none" /\ downstream[q] >= PREPARE
           /\ rmBar[q] = "working" <=> outcome[q] = "none" /\ downstream[q] < PREPARE
           /\ rmBar[q] \in {"committed", "aborted", "prepared", "working"}
           /\ Locked(q) <=> rmBar[q] \in {"prepared", "committed"}
<1>1. /\ outcome[q] \in {"none", "commit", "abort"} /\ downstream[q] \in TxState
      /\ CtxOK(q)
    BY Names DEF LocalInv
<1>2. CASE outcome[q] = "none"
    BY <1>1, <1>2 DEF rmBar, RmState, Locked, CtxOK, LifeOK, TxState
<1>3. CASE outcome[q] = "commit"
    BY <1>3 DEF rmBar, RmState, Locked
<1>4. CASE outcome[q] = "abort"
    BY <1>1, <1>4 DEF rmBar, RmState, Locked, CtxOK, LifeOK
<1>. QED
    BY <1>1, <1>2, <1>3, <1>4

LEMMA AbstractionNext ==
    ASSUME LocalInv', NEW q \in Participants
    PROVE  /\ rmBar'[q] = "committed" <=> outcome'[q] = "commit"
           /\ rmBar'[q] = "aborted" <=> outcome'[q] = "abort"
           /\ rmBar'[q] = "prepared" <=> outcome'[q] = "none" /\ downstream'[q] >= PREPARE
           /\ rmBar'[q] = "working" <=> outcome'[q] = "none" /\ downstream'[q] < PREPARE
           /\ rmBar'[q] \in {"committed", "aborted", "prepared", "working"}
           /\ Locked(q)' <=> rmBar'[q] \in {"prepared", "committed"}
<1>1. /\ outcome'[q] \in {"none", "commit", "abort"} /\ downstream'[q] \in TxState
      /\ CtxOK(q)'
    BY DEF LocalInv, TypeOK
<1>2. CASE outcome'[q] = "none"
    BY <1>1, <1>2 DEF rmBar, RmState, Locked, CtxOK, LifeOK, TxState
<1>3. CASE outcome'[q] = "commit"
    BY <1>3 DEF rmBar, RmState, Locked
<1>4. CASE outcome'[q] = "abort"
    BY <1>1, <1>4 DEF rmBar, RmState, Locked, CtxOK, LifeOK
<1>. QED
    BY <1>1, <1>2, <1>3, <1>4

\* A participant commits only after there was evidence of a commit.
LEMMA CommitsLate ==
    ASSUME LocalInv, GlobalInv, LocalInv', StepFacts, NEW p \in Participants,
           Moves(p), outcome[p] # "commit", outcome'[p] = "commit"
    PROVE  CommitSeen
<1>1. SUFFICES ASSUME ~CommitSeen PROVE FALSE
    OBVIOUS
<1>2. Decides
    <2>1. CommitSeen'
        BY DEF CommitSeen
    <2>. QED
        BY <1>1, <2>1, FirstCommit
<1>3. downstream'[Root] = PRE_COMMIT /\ downstream[Root] # PRE_COMMIT
    BY <1>1, <1>2, TreeAssumption DEF Decides, CommitSeen
<1>4. p = Root
    BY <1>3, TreeAssumption DEF Moves
<1>5. CtxOK(Root)'
    BY TreeAssumption DEF LocalInv
<1>. QED
    BY <1>3, <1>4, <1>5 DEF CtxOK, LifeOK

\* Every step is a step of the abstract specification, or none.
LEMMA StepSimulation ==
    ASSUME Flat, FlatInv, FlatInv', Next
    PROVE  [AC!Next]_(AC!vars)
<1>0. LocalInv /\ GlobalInv /\ LocalInv' /\ GlobalInv' /\ StepFacts
    BY NextFacts DEF FlatInv
<1>1. PICK p \in Participants : Moves(p)
    BY <1>0, NextMoves
<1>2. \A q \in Participants \ {p} : rmBar'[q] = rmBar[q]
    BY <1>1 DEF Moves, rmBar, RmState
<1>3. rmBar' = [rmBar EXCEPT ![p] = rmBar'[p]]
    BY <1>2 DEF rmBar
<1>4. /\ CommitSeen => AllLocked /\ ~AbortSeen
      /\ CommitSeen' => AllLocked' /\ ~AbortSeen'
    <2>1. CommitSeen' => ~AbortSeen'
        <3>1. ASSUME NEW x \in Participants, Doomed(x)' PROVE ~Locked(x)'
            BY <1>0, <3>1, DoomedNotLockedNext
        <3>. QED
            BY <1>0, <3>1 DEF GlobalInv, AllLocked, CanAbort
    <2>. QED
        BY <1>0, <2>1, Exclusive DEF GlobalInv
<1>5. AllLocked => AC!CanCommit
    BY <1>0, Abstraction DEF AllLocked, AC!CanCommit, rmBar
<1>6. CASE UNCHANGED <<rmBar, answers>>
    BY <1>6 DEF AC!vars, rmBar
<1>7. CASE UNCHANGED rmBar /\ answers' = answers \cup {"committed"}
    <2>1. CommitSeen'
        BY <1>7 DEF CommitSeen
    <2>2. AllLocked /\ "killed" \notin answers
        BY <1>0, <1>4, <1>7, <2>1, Abstraction, AbstractionNext DEF AllLocked, AbortSeen
    <2>3. AC!TellCommitted
        BY <1>5, <1>7, <2>2 DEF AC!TellCommitted, rmBar
    <2>. QED
        BY <2>3 DEF AC!Next
<1>8. ASSUME AbortSeen' PROVE AC!NoneCommitted /\ "committed" \notin answers
    <2>1. ~CommitSeen' 
        BY <1>4, <1>8
    <2>2. \A q \in Participants : outcome[q] # "commit"
        BY <1>0, <2>1 DEF CommitSeen, StepFacts, Final
    <2>3. "committed" \notin answers
        BY <1>1, <2>1 DEF CommitSeen, Moves
    <2>. QED
        BY <1>0, <2>2, <2>3, Abstraction DEF AC!NoneCommitted, rmBar
<1>9. CASE UNCHANGED rmBar /\ answers' = answers \cup {"killed"}
    <2>1. AbortSeen'
        BY <1>9 DEF AbortSeen
    <2>2. AC!TellKilled
        BY <1>8, <1>9, <2>1 DEF AC!TellKilled, rmBar
    <2>. QED
        BY <2>2 DEF AC!Next
<1>10. CASE rmBar'[p] # rmBar[p]
    <2>1. UNCHANGED answers \/ (outcome'[p] = "abort" /\ answers' = answers \cup {"killed"})
        BY <1>1, <1>10 DEF Moves, rmBar, RmState
    <2>2. Final(p)
        BY <1>0 DEF StepFacts
    <2>3. CASE outcome'[p] = "commit"
        <3>1. CommitSeen /\ Locked(p) /\ rmBar[p] = "prepared" /\ rmBar'[p] = "committed"
            BY <1>0, <1>1, <1>4, <1>10, <2>3, CommitsLate, Abstraction, AbstractionNext
            DEF AllLocked
        <3>2. "killed" \notin answers /\ AC!CanCommit
            BY <1>4, <1>5, <3>1 DEF AbortSeen
        <3>3. UNCHANGED answers
            BY <2>1, <2>3
        <3>4. AC!Commit(p)
            BY <1>3, <3>1, <3>2, <3>3 DEF AC!Commit, rmBar
        <3>. QED
            BY <3>4 DEF AC!Next
    <2>4. CASE outcome'[p] = "abort"
        <3>1. rmBar'[p] = "aborted" /\ rmBar[p] \in {"working", "prepared"}
            BY <1>0, <1>10, <2>2, <2>4, Abstraction, AbstractionNext DEF Final
        <3>2. AbortSeen'
            BY <2>4 DEF AbortSeen
        <3>3. answers' \in {answers, answers \cup {"killed"}}
            BY <2>1
        <3>4. AC!Abort(p)
            BY <1>3, <1>8, <3>1, <3>2, <3>3 DEF AC!Abort, rmBar
        <3>. QED
            BY <3>4 DEF AC!Next
    <2>5. CASE outcome'[p] = "none"
        <3>1. outcome[p] = "none"
            BY <2>2, <2>5 DEF Final
        <3>2. downstream[p] \in Int /\ downstream'[p] \in Int
            BY <1>0 DEF LocalInv, TypeOK, TxState
        <3>3. rmBar[p] = "working" /\ rmBar'[p] = "prepared"
            BY <1>0, <1>10, <2>2, <2>5, <3>1, <3>2, Abstraction, AbstractionNext DEF Final
        <3>4. AC!Prepare(p)
            BY <1>3, <2>1, <2>5, <3>3 DEF AC!Prepare, rmBar
        <3>. QED
            BY <3>4 DEF AC!Next
    <2>. QED
        BY <1>0, <2>3, <2>4, <2>5 DEF LocalInv, TypeOK
<1>11. UNCHANGED rmBar \/ rmBar'[p] # rmBar[p]
    BY <1>3 DEF rmBar
<1>12. CASE UNCHANGED rmBar
    <2>1. CASE outcome'[p] = "abort" /\ answers' = answers \cup {"killed"}
        BY <1>9, <1>12, <2>1
    <2>. QED
        BY <1>1, <1>6, <1>7, <1>9, <1>12, <2>1 DEF Moves
<1>. QED
    BY <1>10, <1>11, <1>12

\* A flat two-phase commit implements the abstract atomic commitment: nobody
\* commits before all have prepared, nobody aborts after a commit or after the
\* scheduler has heard of one, and every answer is inevitable when it is given.
THEOREM Implementation ==
    ASSUME Flat
    PROVE  Spec => ImplementsAtomicCommit
<1>1. Init => AC!Init
    BY DEF Init, AC!Init, RmState
<1>2. FlatInv /\ FlatInv' /\ [Next]_vars => [AC!Next]_(AC!vars)
    <2>1. CASE UNCHANGED vars
        BY <2>1 DEF vars, phaseVars, lifeVars, rootVars, AC!vars, RmState
    <2>. QED
        BY <2>1, StepSimulation
<1>. QED
    BY <1>1, <1>2, FlatCorrect, PTL DEF Spec, ImplementsAtomicCommit, AC!Spec

=============================================================================
