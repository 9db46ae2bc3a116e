------------------------- MODULE TwoPhaseCommitTree -------------------------
(***************************************************************************)
(* TreeInv is inductive for every tree of participants, of any depth: from *)
(* it follow atomicity and the soundness of presumed abort.                *)
(*                                                                         *)
(* The root may enter PRE_COMMIT above a participant that has aborted; it  *)
(* is the pre-commit responses that nobody can give for a subtree in which *)
(* somebody has.                                                           *)
(***************************************************************************)
EXTENDS TwoPhaseCommitSteps

USE DEF INIT, REDO_COMPLETE, PREPARE, PRE_COMMIT, COMMIT, ABORT, CLEAR, NONE

-----------------------------------------------------------------------------
(* Trees *)

LEMMA UnderSelf ==
    ASSUME NEW a
    PROVE  Under(a, a)
BY DEF Under

LEMMA UnderNext ==
    ASSUME NEW a, NEW q \in Participants \ {Root}, Under(a, Upstream[q])
    PROVE  Under(a, q)
BY DEF Under

\* Who is below a is at or below one of its downstreams.
LEMMA UnderChild ==
    ASSUME NEW a \in Participants, NEW q \in Participants, Under(a, q), q # a
    PROVE  \E c \in Downstream(a) : Under(c, q)
<1> DEFINE S == {x \in Participants : x = a \/ \E c \in Downstream(a) : Under(c, x)}
<1>1. S \in SUBSET Participants /\ a \in S
    OBVIOUS
<1>2. ASSUME NEW x \in Participants \ {Root}, Upstream[x] \in S
      PROVE  x \in S
    <2>1. CASE Upstream[x] = a
        <3>1. x \in Downstream(a)
            BY <2>1 DEF Downstream
        <3>. QED
            BY <3>1, UnderSelf
    <2>2. CASE Upstream[x] # a
        <3>1. PICK c \in Downstream(a) : Under(c, Upstream[x])
            BY <1>2, <2>2
        <3>. QED
            BY <3>1, UnderNext
    <2>. QED
        BY <2>1, <2>2
<1>3. q \in S
    <2> HIDE DEF S
    <2>. QED
        BY <1>1, <1>2 DEF Under
<1>. QED
    BY <1>3

LEMMA UnderRoot ==
    ASSUME Tree, NEW q \in Participants, q # Root
    PROVE  \E c \in Downstream(Root) : Under(c, q)
BY UnderChild, TreeAssumption DEF Tree

LEMMA ChildNames ==
    ASSUME NEW a
    PROVE  Downstream(a) \subseteq Participants
BY DEF Downstream

-----------------------------------------------------------------------------
(* A commit and an abort exclude each other *)

LEMMA SpoilsNotLocked ==
    ASSUME LocalInv, NEW x \in Participants,
           alive[x] => forceAbort[x], ~alive[x] => outcome[x] = "abort"
    PROVE  ~Locked(x) /\ downstream[x] # PRE_COMMIT
<1>0. CtxOK(x)
    BY DEF LocalInv
<1>1. CASE alive[x]
    BY <1>0, <1>1 DEF CtxOK, LifeOK, ForceOK, Locked
<1>2. CASE ~alive[x]
    BY <1>0, <1>2 DEF CtxOK, LifeOK, Locked
<1>. QED
    BY <1>1, <1>2

LEMMA SpoilsNotLockedNext ==
    ASSUME LocalInv', NEW x \in Participants,
           alive'[x] => forceAbort'[x], ~alive'[x] => outcome'[x] = "abort"
    PROVE  ~Locked(x)' /\ downstream'[x] # PRE_COMMIT
<1>0. CtxOK(x)'
    BY DEF LocalInv
<1>1. CASE alive'[x]
    BY <1>0, <1>1 DEF CtxOK, LifeOK, ForceOK, Locked
<1>2. CASE ~alive'[x]
    BY <1>0, <1>2 DEF CtxOK, LifeOK, Locked
<1>. QED
    BY <1>1, <1>2

LEMMA DecidedExcludes ==
    ASSUME TreeInv, Decided
    PROVE  AllLocked /\ ~Spoilt /\ ~AbortSeen
BY SpoilsNotLocked DEF TreeInv, AllLocked, Spoilt, Spoils

LEMMA MarkDecided ==
    ASSUME NEW q \in Participants, DecidedMark(q)
    PROVE  Decided
BY DEF DecidedMark, Decided

LEMMA LockedPrepared ==
    ASSUME LocalInv, NEW q \in Participants, Locked(q)
    PROVE  downstream[q] >= PREPARE
BY DEF Locked, LocalInv, CtxOK, LifeOK

-----------------------------------------------------------------------------
(* Responses *)

\* A new pre-commit response comes from a participant in PRE_COMMIT whose
\* downstreams have all given theirs, or after the decision.
LEMMA NewReady ==
    ASSUME LocalInv, LocalInv', StepFacts, NEW a \in Participants, Ready(a)'
    PROVE  Ready(a) \/ ReadyBacked(a)
<1>1. CASE \E m \in msgs' : m.kind = "RESP" /\ m.phase = PRE_COMMIT /\ m.from = a
    <2>1. PICK m \in msgs' : m.kind = "RESP" /\ m.phase = PRE_COMMIT /\ m.from = a
        BY <1>1
    <2>2. CASE m \in msgs
        BY <2>1, <2>2 DEF Ready
    <2>3. CASE m \notin msgs
        <3>1. Backed(m)
            BY <2>1, <2>3 DEF StepFacts, AllBacked
        <3>. QED
            BY <2>1, <3>1 DEF Backed
    <2>. QED
        BY <2>2, <2>3
<1>2. CASE /\ a # Root /\ upstream'[Upstream[a]] = PRE_COMMIT
           /\ a \in collected'[Upstream[a]]
    <2>1. AckStep(Upstream[a])
        BY <1>2, TreeAssumption DEF StepFacts
    <2>. QED
        BY <1>2, <2>1 DEF AckStep, Ready, SaidReady
<1>. QED
    BY <1>1, <1>2 DEF Ready

\* A new response of the last phase comes after an abort, after the end, or
\* from a participant that has committed and whose downstreams have all
\* given theirs.
LEMMA NewOver ==
    ASSUME LocalInv, LocalInv', StepFacts, NEW a \in Participants, Over(a)'
    PROVE  Over(a) \/ EndBacked(a) \/ AbortMark(a)' \/ ~alive[a]
<1>1. CASE \E m \in msgs' :
                m.kind = "RESP" /\ m.phase \in {COMMIT, ABORT, CLEAR} /\ m.from = a
    <2>1. PICK m \in msgs' :
                m.kind = "RESP" /\ m.phase \in {COMMIT, ABORT, CLEAR} /\ m.from = a
        BY <1>1
    <2>2. CASE m \in msgs
        BY <2>1, <2>2 DEF Over
    <2>3. CASE m \notin msgs
        <3>1. Backed(m)
            BY <2>1, <2>3 DEF StepFacts, AllBacked
        <3>. QED
            BY <2>1, <3>1 DEF Backed
    <2>. QED
        BY <2>2, <2>3
<1>2. CASE /\ a # Root /\ upstream'[Upstream[a]] = COMMIT
           /\ a \in collected'[Upstream[a]]
    <2>1. AckStep(Upstream[a])
        BY <1>2, TreeAssumption DEF StepFacts
    <2>. QED
        BY <1>2, <2>1 DEF AckStep, Over, SaidEnded
<1>. QED
    BY <1>1, <1>2 DEF Over

\* Nobody above x becomes ready if x has given up, or has not prepared.
LEMMA NotReadyAbove ==
    ASSUME TreeInv, LocalInv', StepFacts, NEW x \in Participants, ~Locked(x),
           \A b \in Participants : Under(b, x) => ~Ready(b),
           downstream'[x] # PRE_COMMIT,
           NEW a \in Participants, Under(a, x)
    PROVE  ~Ready(a)'
<1>1. SUFFICES ASSUME ReadyBacked(a) PROVE FALSE
    BY NewReady DEF TreeInv
<1>2. ~Decided
    BY DecidedExcludes DEF AllLocked
<1>3. downstream'[a] = PRE_COMMIT /\ \A c \in Downstream(a) : Ready(c)
    BY <1>1, <1>2, MarkDecided DEF ReadyBacked
<1>4. PICK c \in Downstream(a) : Under(c, x)
    BY <1>3, UnderChild
<1>. QED
    BY <1>3, <1>4, ChildNames

-----------------------------------------------------------------------------
(* What stays *)

LEMMA SpoilsStable ==
    ASSUME TreeInv, LocalInv', StepFacts, NEW x \in Participants, Spoils(x)
    PROVE  Spoils(x)'
<1>0. LocalInv /\ CtxStep(x) /\ Final(x)
    BY DEF StepFacts, TreeInv
<1>1. (alive'[x] => forceAbort'[x]) /\ (~alive'[x] => outcome'[x] = "abort")
    BY <1>0 DEF CtxStep, Spoils, Final
<1>2. ~Locked(x) /\ downstream'[x] # PRE_COMMIT
    BY <1>0, <1>1, SpoilsNotLocked, SpoilsNotLockedNext DEF Spoils
<1>3. \A a \in Participants : Under(a, x) => ~Ready(a)'
    BY <1>2, NotReadyAbove DEF Spoils
<1>. QED
    BY <1>1, <1>3 DEF Spoils

LEMMA TreeFateStable ==
    ASSUME TreeInv, LocalInv', StepFacts
    PROVE  /\ Spoilt => Spoilt'
           /\ AllCommitted => AllCommitted'
           /\ \A q \in Participants :
                /\ outcome[q] = "commit" => outcome'[q] = "commit"
                /\ downstream[q] >= PREPARE => downstream'[q] >= PREPARE
<1>1. Spoilt => Spoilt'
    BY SpoilsStable DEF Spoilt
<1>2. \A q \in Participants :
        /\ outcome[q] = "commit" => outcome'[q] = "commit"
        /\ downstream[q] >= PREPARE => downstream'[q] >= PREPARE
    BY DEF StepFacts, Final
<1>. QED
    BY <1>1, <1>2 DEF AllCommitted

-----------------------------------------------------------------------------
(* The conjuncts of TreeInv, one by one *)

\* The first evidence of an abort comes from somebody who gives up before it
\* has prepared.
LEMMA TreeAbortStep ==
    ASSUME TreeInv, LocalInv', StepFacts, AbortSeen'
    PROVE  Spoilt'
<1>0. LocalInv
    BY DEF TreeInv
<1>1. CASE Spoilt
    BY <1>1, TreeFateStable
<1>2. CASE ~Spoilt
    <2>0. ~AbortSeen
        BY <1>2 DEF TreeInv
    <2>1. PICK q \in Participants : AbortMark(q)'
        BY <1>0, <2>0, Names DEF AbortSeen, AbortMark, StepFacts, AnswerStep
    <2>2. GivesUp(q)
        <3>1. CtxStep(q) /\ ~AbortMark(q)
            BY <2>0, MarksSeen DEF StepFacts
        <3>2. ~(HeardAbort /\ outcome[q] = "none")
            BY <1>2 DEF HeardAbort, TreeInv, ForgottenOK, AllCommitted
        <3>. QED
            BY <2>1, <3>1, <3>2 DEF CtxStep
    <2>3. /\ downstream[q] = INIT
          /\ (alive'[q] => forceAbort'[q]) /\ (~alive'[q] => outcome'[q] = "abort")
        BY <2>2 DEF GivesUp
    <2>4. ~Locked(q) /\ downstream'[q] # PRE_COMMIT
        BY <1>0, <2>3, LockedPrepared, SpoilsNotLockedNext
    <2>5. \A a \in Participants : Under(a, q) => ~Ready(a)
        BY <2>3 DEF TreeInv, ReadyOK
    <2>6. \A a \in Participants : Under(a, q) => ~Ready(a)'
        BY <2>4, <2>5, NotReadyAbove
    <2>. QED
        BY <2>3, <2>6 DEF Spoils, Spoilt
<1>. QED
    BY <1>1, <1>2

\* The first evidence of a commit is the root's, with every pre-commit response
\* at hand.
LEMMA FirstDecided ==
    ASSUME TreeInv, StepFacts, Decided', ~Decided
    PROVE  Resolves
<1>1. PICK q \in Participants : DecidedMark(q)'
    <2>1. CASE \E m \in msgs' : m.phase = COMMIT
        <3>1. PICK m \in msgs' : m.phase = COMMIT
            BY <2>1
        <3>2. Backed(m)
            BY <3>1 DEF Decided, StepFacts, AllBacked
        <3>. QED
            BY <3>1, <3>2 DEF Backed
    <2>. QED
        BY <2>1 DEF Decided, DecidedMark
<1>2. CtxStep(q) /\ ~DecidedMark(q) /\ ~HeardDecided
    BY MarkDecided DEF StepFacts, HeardDecided, Decided
<1>. QED
    BY <1>1, <1>2 DEF CtxStep

LEMMA DecidedStep ==
    ASSUME Tree, TreeInv, LocalInv', StepFacts, Decided'
    PROVE  AllLocked'
<1>0. LocalInv
    BY DEF TreeInv
<1>1. AllLocked /\ ~AbortSeen
    <2>1. CASE Decided
        BY <2>1, DecidedExcludes
    <2>2. CASE ~Decided
        <3>0. Resolves
            BY <2>2, FirstDecided
        <3>1. Root \in Participants /\ downstream[Root] = PRE_COMMIT
            BY <1>0, <3>0, Names
            DEF Resolves, LocalInv, CtxOK, LifeOK, PhaseOK, TypeOK, TxState
        <3>2. ~Spoils(Root)
            BY <1>0, <3>1, SpoilsNotLocked DEF Spoils
        <3>3. ASSUME NEW x \in Participants \ {Root}
              PROVE  ~Spoils(x) /\ downstream[x] >= PREPARE
            <4>1. PICK c \in Downstream(Root) : Under(c, x)
                BY UnderRoot
            <4>2. c \in Participants /\ Ready(c)
                BY <3>0, <4>1, ChildNames DEF Resolves
            <4>. QED
                BY <4>1, <4>2 DEF Spoils, TreeInv, ReadyOK
        <3>4. ~AbortSeen
            BY <3>2, <3>3 DEF TreeInv, Spoilt
        <3>5. ASSUME NEW x \in Participants
              PROVE  Locked(x)
            <4>1. downstream[x] >= PREPARE /\ outcome[x] # "abort"
                BY <3>1, <3>3, <3>4 DEF AbortSeen
            <4>. QED
                BY <1>0, <4>1, Names DEF Locked, LocalInv, CtxOK, LifeOK
        <3>. QED
            BY <3>4, <3>5 DEF AllLocked
    <2>. QED
        BY <2>1, <2>2
<1>2. ASSUME NEW q \in Participants
      PROVE  Locked(q)'
    <2>1. upstream[q] # ABORT /\ CtxStep(q) /\ Locked(q)
        BY <1>1 DEF AbortSeen, StepFacts, AllLocked
    <2>. QED
        BY <2>1 DEF CtxStep
<1>. QED
    BY <1>2 DEF AllLocked

LEMMA ReadyStep ==
    ASSUME TreeInv, LocalInv', StepFacts
    PROVE  ReadyOK'
<1>0. LocalInv
    BY DEF TreeInv
<1>1. SUFFICES ASSUME NEW a \in Participants, NEW q \in Participants,
                      Ready(a)', Under(a, q)
               PROVE  downstream'[q] >= PREPARE
    BY DEF ReadyOK, Under
<1>2. CASE Ready(a)
    BY <1>1, <1>2, TreeFateStable DEF TreeInv, ReadyOK
<1>3. CASE Decided
    <2>1. Locked(q)
        BY <1>3, DecidedExcludes DEF AllLocked
    <2>. QED
        BY <1>0, <2>1, LockedPrepared, TreeFateStable
<1>4. CASE downstream'[a] = PRE_COMMIT /\ \A c \in Downstream(a) : Ready(c)
    <2>1. CASE q = a
        BY <1>4, <2>1
    <2>2. CASE q # a
        <3>1. PICK c \in Downstream(a) : Under(c, q)
            BY <1>1, <2>2, UnderChild
        <3>2. downstream[q] >= PREPARE
            BY <1>4, <3>1, ChildNames DEF TreeInv, ReadyOK
        <3>. QED
            BY <3>2, TreeFateStable
    <2>. QED
        BY <2>1, <2>2
<1>. QED
    BY <1>0, <1>1, <1>2, <1>3, <1>4, NewReady, MarkDecided DEF ReadyBacked

\* A context that is gone has aborted, or all have committed.
LEMMA GoneFate ==
    ASSUME TreeInv, NEW q \in Participants, ~alive[q]
    PROVE  Spoilt \/ AllCommitted
<1>1. outcome[q] \in {"commit", "abort"}
    BY Names DEF TreeInv, LocalInv, CtxOK, LifeOK
<1>. QED
    BY <1>1 DEF TreeInv, AbortSeen, ForgottenOK

LEMMA OverStep ==
    ASSUME TreeInv, LocalInv', StepFacts
    PROVE  OverOK'
<1>0. LocalInv
    BY DEF TreeInv
<1>1. SUFFICES ASSUME ~Spoilt', NEW a \in Participants, NEW q \in Participants,
                      Over(a)', Under(a, q)
               PROVE  outcome'[q] = "commit"
    BY DEF OverOK, Under
<1>2. ~Spoilt /\ ~AbortSeen'
    BY <1>1, TreeFateStable, TreeAbortStep
<1>3. CASE Over(a)
    BY <1>1, <1>2, <1>3, TreeFateStable DEF TreeInv, OverOK
<1>4. CASE AllCommitted
    BY <1>4, TreeFateStable DEF AllCommitted
<1>5. CASE EndBacked(a)
    <2>1. CASE upstream[a] = CLEAR
        BY <1>2, <1>4, <2>1 DEF TreeInv, ForgottenOK
    <2>2. CASE \A c \in Downstream(a) : Over(c)
        <3>1. CASE q = a
            BY <1>5, <3>1 DEF EndBacked
        <3>2. CASE q # a
            <4>1. PICK c \in Downstream(a) : Under(c, q)
                BY <1>1, <3>2, UnderChild
            <4>2. outcome[q] = "commit"
                BY <1>2, <2>2, <4>1, ChildNames DEF TreeInv, OverOK
            <4>. QED
                BY <4>2, TreeFateStable
        <3>. QED
            BY <3>1, <3>2
    <2>. QED
        BY <1>5, <2>1, <2>2 DEF EndBacked
<1>6. CASE AbortMark(a)'
    BY <1>2, <1>6, MarksSeenNext
<1>7. CASE ~alive[a]
    BY <1>2, <1>4, <1>7, GoneFate
<1>. QED
    BY <1>0, <1>1, <1>3, <1>5, <1>6, <1>7, NewOver

\* Abort messages, and the end of a context, have a reason.
LEMMA ForgottenStep ==
    ASSUME Tree, TreeInv, LocalInv', StepFacts
    PROVE  ForgottenOK'
<1>0. LocalInv /\ Root \in Participants
    BY TreeAssumption DEF TreeInv
<1>1. CASE Spoilt \/ AllCommitted
    BY <1>1, TreeFateStable DEF ForgottenOK
<1>2. CASE ~(Spoilt \/ AllCommitted)
    <2>0. /\ ~AbortSeen /\ ~HeardAbort /\ ~HeardClear
          /\ \A q \in Participants : upstream[q] # CLEAR /\ alive[q]
        BY <1>2, GoneFate DEF TreeInv, ForgottenOK, HeardAbort, HeardClear
    <2>1. AbortSeen' => Spoilt'
        BY TreeAbortStep
    <2>2. ASSUME NEW q \in Participants, upstream'[q] = CLEAR
          PROVE  Spoilt' \/ AllCommitted'
        <3>1. q = Root /\ Finishes
            BY <2>0, <2>2 DEF StepFacts, CtxStep
        <3>2. upstream[Root] = COMMIT
            BY <1>0, <2>0, <3>1 DEF Finishes, AbortSeen
        <3>3. \A c \in Downstream(Root) : Over(c)
            BY <1>0, <3>1, <3>2, CountedReady DEF Finishes, SaidEnded, Over
        <3>4. ASSUME NEW x \in Participants \ {Root}
              PROVE  outcome'[x] = "commit"
            <4>1. PICK c \in Downstream(Root) : Under(c, x)
                BY UnderRoot
            <4>2. outcome[x] = "commit"
                BY <1>2, <3>3, <4>1, ChildNames DEF TreeInv, OverOK
            <4>. QED
                BY <4>2, TreeFateStable
        <3>5. outcome'[Root] = "commit" \/ outcome'[Root] = "abort"
            BY <1>0, <3>1 DEF Finishes, LocalInv, TypeOK
        <3>. QED
            BY <1>0, <2>1, <3>4, <3>5 DEF AbortSeen, AllCommitted
    <2>3. ASSUME NEW q \in Participants, ~alive'[q], outcome'[q] = "commit"
          PROVE  FALSE
        BY <2>0, <2>3 DEF StepFacts, CtxStep
    <2>4. ASSUME NEW m \in msgs', m.phase \in {ABORT, CLEAR}
          PROVE  Spoilt' \/ AllCommitted'
        <3>1. Backed(m)
            BY <2>0, <2>4 DEF HeardAbort, HeardClear, StepFacts, AllBacked
        <3>2. CASE m.phase = ABORT
            <4>1. m.from \in Participants /\ AbortMark(m.from)'
                BY <2>0, <3>1, <3>2 DEF Backed
            <4>. QED
                BY <2>1, <4>1, MarksSeenNext
        <3>3. CASE m.phase = CLEAR
            <4>1. m.from \in Participants /\ upstream'[m.from] = CLEAR
                BY <2>0, <3>1, <3>3 DEF Backed
            <4>. QED
                BY <2>2, <4>1
        <3>. QED
            BY <2>4, <3>2, <3>3
    <2>. QED
        BY <2>2, <2>3, <2>4 DEF ForgottenOK
<1>. QED
    BY <1>1, <1>2

-----------------------------------------------------------------------------
(* The theorems *)

LEMMA TreeInduction ==
    ASSUME Tree, TreeInv, [Next]_vars
    PROVE  TreeInv'
<1>0. LocalInv /\ LocalInv'
    BY LocalInduction DEF TreeInv
<1>1. CASE Next
    <2>0. StepFacts
        BY <1>0, <1>1, NextFacts
    <2>. QED
        BY <1>0, <2>0, DecidedStep, TreeAbortStep, ReadyStep, OverStep, ForgottenStep
        DEF TreeInv
<1>2. CASE UNCHANGED vars
    <2>1. /\ UNCHANGED <<alive, upstream, downstream, collected, forceAbort, outcome>>
          /\ UNCHANGED <<msgs, answers>>
        BY <1>2 DEF vars, phaseVars, lifeVars, rootVars
    <2>2. \A a : (Ready(a)' <=> Ready(a)) /\ (Over(a)' <=> Over(a))
        BY <2>1 DEF Ready, Over
    <2>3. Spoilt' <=> Spoilt
        BY <2>1, <2>2 DEF Spoilt, Spoils, Under
    <2>. QED
        BY <1>0, <2>1, <2>2, <2>3
        DEF TreeInv, Decided, AllLocked, Locked, AbortSeen, ReadyOK, OverOK,
            ForgottenOK, AllCommitted, Under
<1>. QED
    BY <1>1, <1>2

\* The invariant of any tree of participants.
THEOREM TreeCorrect ==
    ASSUME Tree
    PROVE  Spec => []TreeInv
<1>1. Init => Decided = FALSE /\ AbortSeen = FALSE /\ ReadyOK /\ OverOK /\ ForgottenOK
    <2>1. SUFFICES ASSUME Init
                   PROVE  ~Decided /\ ~AbortSeen /\ ReadyOK /\ OverOK /\ ForgottenOK
        OBVIOUS
    <2>2. ~Decided /\ ~AbortSeen /\ ForgottenOK
        BY <2>1 DEF Init, Decided, AbortSeen, ForgottenOK
    <2>3. \A a \in Participants : ~Ready(a) /\ ~Over(a)
        BY <2>1, TreeAssumption DEF Init, Ready, Over
    <2>. QED
        BY <2>2, <2>3 DEF ReadyOK, OverOK
<1>2. TreeInv /\ [Next]_vars => TreeInv'
    BY TreeInduction
<1>3. Init /\ LocalInv => TreeInv
    BY <1>1 DEF TreeInv
<1>. QED
    BY <1>2, <1>3, LocalCorrect, PTL DEF Spec

\* No participant commits what another one aborts: for any tree, any number of
\* leader changes, and any loss, repetition and reordering.
THEOREM AtomicityHolds ==
    ASSUME Tree
    PROVE  Spec => []Atomicity
<1>1. TreeInv => Atomicity
    <2>1. ASSUME TreeInv, NEW p \in Participants, outcome[p] = "commit"
          PROVE  ~AbortSeen
        BY <2>1, DecidedExcludes DEF Decided
    <2>. QED
        BY <2>1 DEF Atomicity, AbortSeen
<1>. QED
    BY <1>1, TreeCorrect, PTL

\* A coordinator that has forgotten a commit has no participant left that a
\* presumed abort could reach, at any depth.
THEOREM ForgetSafeHolds ==
    ASSUME Tree
    PROVE  Spec => []ForgetSafe
<1>1. TreeInv => ForgetSafe
    <2>1. SUFFICES ASSUME TreeInv, ~alive[Root], outcome[Root] = "commit"
                   PROVE  AllCommitted
        BY DEF ForgetSafe, AllCommitted
    <2>2. ~Spoilt
        BY <2>1, DecidedExcludes, TreeAssumption DEF Decided
    <2>. QED
        BY <2>1, <2>2, TreeAssumption DEF TreeInv, ForgottenOK
<1>. QED
    BY <1>1, TreeCorrect, PTL

=============================================================================
