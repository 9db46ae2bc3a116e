--------------------------- MODULE DeadlockRounds ---------------------------
(* The deadlock detector under the timing that ob_lcl_parameters.h is made   *)
(* for: the clocks agree, the waits do not change by themselves, and a phase *)
(* is long enough for Rounds rounds.  In a round every node pushes its state *)
(* once, in any order, and what was pushed is received before the round      *)
(* ends.  The steps are those of DeadlockDetector; a thread that is past a   *)
(* lock, and the collect-info messages, go before any other step.            *)
EXTENDS DeadlockDetector

CONSTANTS
    Rounds,     \* the rounds of a phase
    Starts      \* the block lists and counters to start from: <<block, lclv>>;
                \* lclv_ is never reset, so a node may bring one along

ASSUME RoundsAssumption ==
    /\ Rounds \in Nat \ {0}
    /\ Starts \subseteq [Det -> SUBSET Key] \X [Det -> Nat]

VARIABLES round, pushed

rvars == <<vars, round, pushed>>

RoundsInit ==
    /\ \E s \in Starts : block = s[1] /\ lclv = s[2]
    /\ Registered
    /\ round = 1 /\ pushed = {}

\* No thread is between two locks.
Idle ==
    /\ \A d \in Det : snap[d] = NONE
    /\ \A s \in Server : InCache(s) = {}
    /\ hand = {} /\ starting = {} /\ collects = {}

\* The timer of node d runs, once in a round.
Push(d) ==
    /\ Idle
    /\ d \notin pushed
    /\ TakeSnapshot(d)
    /\ pushed' = pushed \cup {d}
    /\ UNCHANGED round

\* What a thread or a message has begun goes on.
Act ==
    /\ \/ \E d \in Det : Broadcast(d) \/ StartCollect(d)
       \/ \E s \in Server : Flush(s)
       \/ \E h \in hand : Apply(h)
       \/ Idle /\ \E m \in net : Receive(m)
       \/ \E c \in collects : ReceiveCollect(c)
    /\ UNCHANGED <<round, pushed>>

\* Every push of the round has arrived; after the last round of a phase the
\* clocks enter the next one.
EndRound ==
    /\ Idle
    /\ net = {}
    /\ pushed = alive
    /\ pushed' = {}
    /\ IF round < Rounds
       THEN /\ round' = round + 1
            /\ UNCHANGED phase
       ELSE /\ \A s \in Server : phase[s] < MaxPhase
            /\ round' = 1
            /\ phase' = [s \in Server |-> phase[s] + 1]
    /\ UNCHANGED <<alive, used, nodeVars, lclVars, starting, collects, waited,
                   victims>>

RoundsNext == (\E d \in Det : Push(d)) \/ Act \/ EndRound

RoundsSpec == RoundsInit /\ [][RoundsNext]_rvars /\ WF_rvars(RoundsNext)

\* Some nodes wait for one another in a cycle.
Deadlocked ==
    \E S \in SUBSET alive \ {{}} :
        \A d \in S : \E e \in S : KeyOf[e] \in block[d]

\* Every deadlock is broken for good in the periods of the run: a label that
\* came into a cycle from outside and hid it is gone in a later period
\* (update_lcl_period_if_necessary_with_lock_()).
DeadlocksBroken == <>[](~Deadlocked)

\* The last round of a period is over.
PeriodOver ==
    /\ \A s \in Server : phase[s] % 2 = 1
    /\ round = Rounds /\ pushed = alive
    /\ Idle /\ net = {}

\* A deadlock that is still there at the end of a period was found by one of its
\* nodes in that period: its labels get round the cycle, and no label from
\* outside the cycles keeps them from it.  MIN_CYCLY_SIZE_SUPPORTED
\* (ob_lcl_parameters.h:27) sizes PHASE_TIME by the hops of a cycle.
FoundEveryPeriod ==
    PeriodOver /\ Deadlocked =>
        \E d \in Det : \A s \in Server : collected[d] = phase[s] \div 2

=============================================================================
