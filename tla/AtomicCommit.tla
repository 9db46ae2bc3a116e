---------------------------- MODULE AtomicCommit ----------------------------
(***************************************************************************)
(* What the two-phase committer promises, without messages, logs or        *)
(* leaders: the participants of one transaction end the same way, and the  *)
(* scheduler is told the truth about it.                                   *)
(***************************************************************************)
CONSTANT Participants

VARIABLES
    rm,     \* what each participant has durably done with the transaction
    told    \* the answers given to the scheduler

vars == <<rm, told>>

Answers == {"committed", "killed"}

\* Nobody can abort on its own any more.
CanCommit == \A p \in Participants : rm[p] \in {"prepared", "committed"}
NoneCommitted == \A p \in Participants : rm[p] # "committed"

Init ==
    /\ rm = [p \in Participants |-> "working"]
    /\ told = {}

Prepare(p) ==
    /\ rm[p] = "working"
    /\ rm' = [rm EXCEPT ![p] = "prepared"]
    /\ UNCHANGED told

Commit(p) ==
    /\ rm[p] = "prepared" /\ CanCommit /\ "killed" \notin told
    /\ rm' = [rm EXCEPT ![p] = "committed"]
    /\ UNCHANGED told

\* A participant may tell the scheduler in the same step.
Abort(p) ==
    /\ rm[p] \in {"working", "prepared"} /\ NoneCommitted
    /\ "committed" \notin told
    /\ rm' = [rm EXCEPT ![p] = "aborted"]
    /\ told' \in {told, told \cup {"killed"}}

TellCommitted ==
    /\ CanCommit /\ "killed" \notin told
    /\ told' = told \cup {"committed"}
    /\ UNCHANGED rm

TellKilled ==
    /\ NoneCommitted /\ "committed" \notin told
    /\ told' = told \cup {"killed"}
    /\ UNCHANGED rm

Next ==
    \/ \E p \in Participants : Prepare(p) \/ Commit(p) \/ Abort(p)
    \/ TellCommitted
    \/ TellKilled

Spec == Init /\ [][Next]_vars

-----------------------------------------------------------------------------

TypeOK ==
    /\ rm \in [Participants -> {"working", "prepared", "committed", "aborted"}]
    /\ told \subseteq Answers

\* No participant commits what another one aborts: the consistency clause of
\* atomic commitment.
Consistent ==
    \A p, q \in Participants : ~(rm[p] = "committed" /\ rm[q] = "aborted")

\* The scheduler never hears both answers, hears "committed" only of a
\* transaction nobody aborts, and "killed" only of one nobody commits.
ToldTruth ==
    /\ told # Answers
    /\ "committed" \in told => \A p \in Participants : rm[p] # "aborted"
    /\ "killed" \in told => NoneCommitted
=============================================================================
