-------------------------- MODULE DeadlockDetector --------------------------
(* The LCL deadlock detector of src/share/deadlock: one node (ObLCLNode) for *)
(* each registered key, its block list, its counter lclv_ and its public     *)
(* label; the LCL messages that spread both along the waits, in the LCLP     *)
(* phases the counters and in the LCLS phases the labels; the collect-info   *)
(* message that a node sends round the cycle when its own label comes back,  *)
(* and the victim it decides on.                                             *)
(*                                                                           *)
(* A label is (priority, address, id): the node that owns it stands for it.  *)
(* A key may be registered again after it was unregistered: the new node has *)
(* a new id.  A thread that has left a node's lock and not yet acted on what *)
(* it read is a state of its own: snap (the timer), hand (a message past its *)
(* phase check) and starting (a cycle found, no message sent yet).           *)
EXTENDS Integers, Sequences, FiniteSets

CONSTANTS
    Det,            \* node ids, in the order of creation on a server
    Key, Server,    \* what is registered, and where
    KeyOf, HomeOf,  \* [Det -> Key] and [Key -> Server]
    Priority,       \* [Det -> Nat], a small one is killed first
    AutoActivate,   \* nodes with auto_activate_when_detected_
    Failing,        \* nodes whose detect_callback_ may fail
    Countdown,      \* values of count_down_allow_detect at registration
    Waits,          \* the waits <<node, key>> that may be formed
    FirstPhase, MaxPhase,   \* bound: phases of the clocks
    MaxLclv         \* bound: counters

ASSUME DetectorAssumption ==
    /\ Det \subseteq Nat
    /\ KeyOf \in [Det -> Key]
    /\ HomeOf \in [Key -> Server]
    /\ Priority \in [Det -> Nat]
    /\ AutoActivate \subseteq Det /\ Failing \subseteq Det
    /\ Countdown \subseteq Nat
    /\ Waits \subseteq Det \X Key
    /\ FirstPhase \in Nat /\ MaxPhase \in Nat /\ MaxLclv \in Nat
    /\ FirstPhase >= 2 /\ FirstPhase % 2 = 0

VARIABLES
    alive,      \* the nodes in detector_map_
    used,       \* ids handed out (logic_id_)
    block,      \* block_list_
    lclv,       \* lclv_
    public,     \* public_label_
    period,     \* lcl_period_
    collected,  \* last_send_collect_info_period_
    hold,       \* count_down_allow_detect_
    phase,      \* a server's clock / PHASE_TIME
    snap,       \* what a timer thread has read and not yet sent
    cache,      \* lcl_msg_map_ of each server's sender thread
    net,        \* LCL messages sent
    hand,       \* LCL messages in a handler, after the phase check
    starting,   \* nodes that have found a cycle, before they send
    collects,   \* collect-info messages sent
    waited,     \* history: the waits that were ever in a block list
    victims     \* history: the cycles whose first node was killed

nodeVars == <<block, lclv, public, period, collected, hold>>
lclVars == <<snap, cache, net, hand>>
vars == <<alive, used, nodeVars, phase, lclVars, starting, collects, waited,
          victims>>

NONE == [none |-> TRUE]
Home(d) == HomeOf[KeyOf[d]]
Message == [dest : Key, lclv : Nat, label : Det, phase : Nat]
Snapshot == [block : SUBSET Key, lclv : Nat, label : Det]
Collect == [dest : Key, path : Seq(Det)]

\* Fault: labels of one priority are less than one another.
LabelNotAbove(d, e) == Priority[d] <= Priority[e]

\* ObLCLLabel::operator<(): priority, then address, then id; the numbers in Det
\* are in the order of address and id
LabelLess(d, e) ==
    \/ Priority[d] < Priority[e]
    \/ Priority[d] = Priority[e] /\ d < e

\* A new node; nothing is on its way.
Fresh ==
    /\ public = [d \in Det |-> d]
    /\ period = [d \in Det |-> 0]
    /\ collected = [d \in Det |-> 0]
    /\ hold = [d \in Det |-> 0]
    /\ phase = [s \in Server |-> FirstPhase]
    /\ snap = [d \in Det |-> NONE]
    /\ cache = [s \in Server |-> [k \in Key |-> NONE]]
    /\ net = {} /\ hand = {} /\ starting = {} /\ collects = {}
    /\ victims = {}

Init ==
    /\ Fresh
    /\ alive = {} /\ used = {} /\ waited = {}
    /\ block = [d \in Det |-> {}]
    /\ lclv = [d \in Det |-> 0]

\* The states in which every node is registered and waits as block says.
Registered ==
    /\ Fresh
    /\ alive = Det /\ used = Det
    /\ waited = {w \in Det \X Key : w[2] \in block[w[1]]}

-----------------------------------------------------------------------------
(* What the users of a node do: register_key() ... replace_block_list()      *)

\* register_key() with InnerFactory::create(); the key is not in the map.
Register(d) ==
    /\ d \notin used
    /\ \A e \in alive : KeyOf[e] # KeyOf[d]
    /\ \A e \in Det : e < d /\ Home(e) = Home(d) => e \in used
    /\ alive' = alive \cup {d}
    /\ used' = used \cup {d}
    /\ \E c \in Countdown : hold' = [hold EXCEPT ![d] = c]
    /\ UNCHANGED <<block, lclv, public, period, collected, phase, lclVars,
                   starting, collects, waited, victims>>

\* unregister_key_(), called by the user or when timeout_ts_ has passed; a
\* thread that holds a reference goes on with the node.
Unregister(d) ==
    /\ d \in alive
    /\ alive' = alive \ {d}
    /\ UNCHANGED <<used, nodeVars, phase, lclVars, starting, collects, waited,
                   victims>>

\* Fault: the count goes below zero.
DecCountDownAlways(d) ==
    /\ d \in alive
    /\ hold' = [hold EXCEPT ![d] = @ - 1]
    /\ UNCHANGED <<alive, used, block, lclv, public, period, collected, phase,
                   lclVars, starting, collects, waited, victims>>

\* dec_count_down_allow_detect()
DecCountDown(d) ==
    /\ d \in alive
    /\ hold[d] > 0
    /\ hold' = [hold EXCEPT ![d] = @ - 1]
    /\ UNCHANGED <<alive, used, block, lclv, public, period, collected, phase,
                   lclVars, starting, collects, waited, victims>>

\* The block list of d becomes S.
BlockOn(d, S) ==
    /\ d \in alive
    /\ block' = [block EXCEPT ![d] = S]
    /\ waited' = waited \cup {<<d, k>> : k \in S}
    /\ UNCHANGED <<alive, used, lclv, public, period, collected, hold, phase,
                   lclVars, starting, collects, victims>>

\* block_(); OB_ENTRY_EXIST when the wait is there already
Block(d, k) ==
    /\ <<d, k>> \in Waits
    /\ k \notin block[d]
    /\ BlockOn(d, block[d] \cup {k})

\* activate_(); OB_ENTRY_NOT_EXIST when it is not there
Activate(d, k) ==
    /\ k \in block[d]
    /\ BlockOn(d, block[d] \ {k})

\* activate_all()
ActivateAll(d) == BlockOn(d, {})

\* replace_block_list()
ReplaceBlockList(d, S) ==
    /\ \A k \in S : <<d, k>> \in Waits
    /\ BlockOn(d, S)

-----------------------------------------------------------------------------
(* The LCL messages                                                          *)

\* A server's clock enters the next phase; the clocks of two servers differ.
Tick(s) ==
    /\ phase[s] < MaxPhase
    /\ phase' = [phase EXCEPT ![s] = @ + 1]
    /\ UNCHANGED <<alive, used, nodeVars, lclVars, starting, collects, waited,
                   victims>>

\* The period has changed since lcl_period_ was set.
NewPeriod(d) == phase[Home(d)] \div 2 > period[d]
PeriodNow(d) == IF NewPeriod(d) THEN phase[Home(d)] \div 2 ELSE period[d]

\* A new period takes the public label back to the private one; lclv_ is kept.
LabelNow(d) == IF NewPeriod(d) THEN d ELSE public[d]

\* update_lcl_period_if_necessary_with_lock_()
UpdatePeriod(d) ==
    /\ period' = [period EXCEPT ![d] = PeriodNow(d)]
    /\ public' = [public EXCEPT ![d] = LabelNow(d)]

\* PushStateTask::runTimerTask() up to get_state_snapshot_(); a cancelled task
\* does nothing.
TakeSnapshot(d) ==
    /\ d \in alive
    /\ snap[d] = NONE
    /\ UpdatePeriod(d)
    /\ snap' = [snap EXCEPT ![d] = [block |-> block[d], lclv |-> lclv[d],
                                    label |-> LabelNow(d)]]
    /\ UNCHANGED <<alive, used, block, lclv, collected, hold, phase, cache,
                   net, hand, starting, collects, waited, victims>>

\* ObLCLMessage::merge(): send_ts_ stays that of the first message
Merge(old, new) ==
    IF \/ old.lclv < new.lclv
       \/ old.lclv = new.lclv /\ LabelLess(new.label, old.label)
    THEN [new EXCEPT !.phase = old.phase]
    ELSE old

\* broadcast_() and cache_msg(): a message for each key waited for, stamped
\* with the clock of this moment and merged with one that still waits.
Cached(d, s) ==
    [k \in Key |->
        LET m == [dest |-> k, lclv |-> s.lclv, label |-> s.label,
                  phase |-> phase[Home(d)]]
            old == cache[Home(d)][k] IN
        IF k \notin s.block THEN old
        ELSE IF old = NONE THEN m ELSE Merge(old, m)]

\* push_state_to_downstreams_with_lock_() after the lock
Broadcast(d) ==
    /\ snap[d] # NONE
    /\ snap' = [snap EXCEPT ![d] = NONE]
    /\ cache' = IF hold[d] # 0 THEN cache
                ELSE [cache EXCEPT ![Home(d)] = Cached(d, snap[d])]
    /\ UNCHANGED <<alive, used, nodeVars, phase, net, hand, starting, collects,
                   waited, victims>>

\* ObLCLBatchSenderThread::run1(): what is cached is posted.  A message can be
\* lost: nothing makes Receive happen.
InCache(s) == {cache[s][k] : k \in Key} \ {NONE}
Flush(s) ==
    /\ InCache(s) # {}
    /\ net' = net \cup InCache(s)
    /\ cache' = [cache EXCEPT ![s] = [k \in Key |-> NONE]]
    /\ UNCHANGED <<alive, used, nodeVars, phase, snap, hand, starting, collects,
                   waited, victims>>

\* process_lcl_message() up to the lock: a message is used in the phase in
\* which it was sent.  When the key is not in the map it is dropped.
Receive(m) ==
    /\ m \in net
    /\ net' = net \ {m}
    /\ \/ /\ \A d \in alive : KeyOf[d] # m.dest
          /\ UNCHANGED <<period, public, hand>>
       \/ \E d \in alive :
            /\ KeyOf[d] = m.dest
            /\ UpdatePeriod(d)
            /\ hand' = IF m.phase = phase[Home(d)]
                       THEN hand \cup {[node |-> d, msg |-> m]} ELSE hand
    /\ UNCHANGED <<alive, used, block, lclv, collected, hold, phase, snap,
                   cache, starting, collects, waited, victims>>

\* Fault: the counter is taken over, not counted up.
ApplyLCLPNoCount(d, m) ==
    /\ lclv' = [lclv EXCEPT ![d] = IF m.lclv > @ THEN m.lclv ELSE @]
    /\ UNCHANGED <<public, collected, starting>>

\* process_msg_as_lclp_msg_()
ApplyLCLP(d, m) ==
    /\ m.lclv + 1 <= MaxLclv
    /\ lclv' = [lclv EXCEPT ![d] = IF m.lclv + 1 > @ THEN m.lclv + 1 ELSE @]
    /\ UNCHANGED <<public, collected, starting>>

\* Fault: the label is compared with the public one.
DetectsPublic(d, m) == m.lclv >= lclv[d] /\ m.label = public[d]

\* Fault: the label of the last node of this key is taken for the own one.
DetectsKey(d, m) == m.lclv >= lclv[d] /\ KeyOf[m.label] = KeyOf[d]

\* process_msg_as_lcls_msg_(): the own label has come round
Detects(d, m) == m.lclv >= lclv[d] /\ m.label = d

ApplyLCLS(d, m) ==
    /\ lclv' = [lclv EXCEPT ![d] = IF m.lclv >= @ THEN m.lclv ELSE @]
    /\ IF Detects(d, m) /\ collected[d] # period[d]
       THEN /\ collected' = [collected EXCEPT ![d] = period[d]]
            /\ starting' = starting \cup {d}
       ELSE UNCHANGED <<collected, starting>>
    /\ public' = [public EXCEPT ![d] =
                    IF /\ m.lclv >= lclv[d]
                       /\ ~Detects(d, m)
                       /\ LabelLess(m.label, @)
                    THEN m.label ELSE @]

\* process_lcl_message() with the lock: the phase is the one checked before
Apply(h) ==
    /\ h \in hand
    /\ hand' = hand \ {h}
    /\ IF h.msg.phase % 2 = 0 THEN ApplyLCLP(h.node, h.msg)
       ELSE ApplyLCLS(h.node, h.msg)
    /\ UNCHANGED <<alive, used, block, period, hold, phase, snap, cache, net,
                   collects, waited, victims>>

-----------------------------------------------------------------------------
(* The collect-info messages                                                 *)

\* append_report_info_to_msg_() and broadcast_with_lock_()
Forward(d, path) ==
    {[dest |-> k, path |-> Append(path, d)] : k \in block[d]}

\* The end of process_lcl_message() when detected_flag is set:
\* process_collect_info_message() of an empty message.
StartCollect(d) ==
    /\ d \in starting
    /\ starting' = starting \ {d}
    /\ collects' = collects \cup Forward(d, <<>>)
    /\ UNCHANGED <<alive, used, nodeVars, phase, lclVars, waited, victims>>

\* if_self_has_lowest_priority_(): of several with the lowest one, the first.
\* The priorities are below the greatest one, which never counts as lowest.
HasLowestPriority(path) ==
    \A i \in 1..Len(path) : Priority[path[1]] <= Priority[path[i]]

\* auto_activate_when_detected_: the wait for the next node of the cycle ends
NextOnCycle(path) == KeyOf[IF Len(path) = 1 THEN path[1] ELSE path[2]]

\* check_and_process_completely_collected_msg_with_lock_(): the message is
\* back at the node that sent it.
Complete(d, path) ==
    \/ /\ HasLowestPriority(path)
       /\ victims' = victims \cup {[node |-> d, path |-> path]}
       /\ block' = IF d \notin AutoActivate THEN block
                   ELSE [block EXCEPT ![d] = @ \ {NextOnCycle(path)}]
    \/ /\ HasLowestPriority(path) => d \in Failing
       /\ UNCHANGED <<victims, block>>

\* Fault: the node that has the key now is taken for the one that sent it.
IsBackAtKey(d, path) == KeyOf[path[1]] = KeyOf[d]

\* The message is back where it was sent, and at the same node.
IsBack(d, path) == path[1] = d

OnPath(d, path) == \E i \in 1..Len(path) : path[i] = d

\* process_collect_info_message(): complete, or in a loop that the first node
\* is not on, or on its way.
ReceiveCollect(c) ==
    /\ c \in collects
    /\ \/ /\ \A d \in alive : KeyOf[d] # c.dest
          /\ collects' = collects \ {c}
          /\ UNCHANGED <<victims, block>>
       \/ \E d \in alive :
            /\ KeyOf[d] = c.dest
            /\ \/ /\ IsBack(d, c.path)
                  /\ Complete(d, c.path)
                  /\ collects' = collects \ {c}
               \/ /\ ~IsBack(d, c.path)
                  /\ UNCHANGED <<victims, block>>
                  /\ collects' = (collects \ {c})
                        \cup (IF OnPath(d, c.path) THEN {}
                              ELSE Forward(d, c.path))
    /\ UNCHANGED <<alive, used, lclv, public, period, collected, hold, phase,
                   lclVars, starting, waited>>

-----------------------------------------------------------------------------
User(d) ==
    \/ Register(d) \/ Unregister(d) \/ DecCountDown(d) \/ ActivateAll(d)
    \/ \E k \in Key : Block(d, k) \/ Activate(d, k)
    \/ \E S \in SUBSET Key : ReplaceBlockList(d, S)

Detect ==
    \/ \E d \in Det : TakeSnapshot(d) \/ Broadcast(d) \/ StartCollect(d)
    \/ \E s \in Server : Tick(s) \/ Flush(s)
    \/ \E m \in net : Receive(m)
    \/ \E h \in hand : Apply(h)
    \/ \E c \in collects : ReceiveCollect(c)

Next == Detect \/ \E d \in Det : User(d)

Spec == Init /\ [][Next]_vars

-----------------------------------------------------------------------------
(* Properties                                                                *)

TypeOK ==
    /\ alive \subseteq used /\ used \subseteq Det
    /\ block \in [Det -> SUBSET Key]
    /\ lclv \in [Det -> Nat]
    /\ public \in [Det -> Det]
    /\ period \in [Det -> Nat] /\ collected \in [Det -> Nat]
    /\ hold \in [Det -> Nat]
    /\ phase \in [Server -> Nat]
    /\ snap \in [Det -> Snapshot \cup {NONE}]
    /\ cache \in [Server -> [Key -> Message \cup {NONE}]]
    /\ net \subseteq Message
    /\ hand \subseteq [node : Det, msg : Message]
    /\ starting \subseteq Det
    /\ collects \subseteq Collect
    /\ waited \subseteq Det \X Key
    /\ victims \subseteq [node : Det, path : Seq(Det)]

\* The label of x can have come to d: d is x, or waits that led from x to
\* nodes with greater labels only have led to d.
Closed(x, S) ==
    \A e \in Det :
        /\ LabelLess(x, e)
        /\ \E c \in S \cup {x} : <<c, KeyOf[e]>> \in waited
        => e \in S
Carries(x, d) == d = x \/ \A S \in SUBSET Det : Closed(x, S) => d \in S

\* x has waited on a cycle on which it has the least label.
LeastOnCycle(x) == \E c \in Det : Carries(x, c) /\ <<c, KeyOf[x]>> \in waited

\* A node starts to collect only if it was on a cycle of waits in which its
\* label is the least, however late, merged or stale the LCL messages are
\* that told it so.
CollectorLeastOnCycle == \A d \in Det : collected[d] # 0 => LeastOnCycle(d)

\* The path is a cycle of waits without repetition.
IsCycle(path) ==
    /\ Len(path) > 0
    /\ \A i, j \in 1..Len(path) : path[i] = path[j] => i = j
    /\ \A i \in 1..Len(path) :
        <<path[i], KeyOf[path[IF i = Len(path) THEN 1 ELSE i + 1]]>> \in waited

\* A node that is killed has itself found a cycle, it has gone round a cycle of
\* waits and nobody on it has a lower priority: the detect callback is never
\* run on a node that took over the key of the one that collected, nor on one
\* in front of a cycle.
VictimOnCycle ==
    \A v \in victims :
        /\ v.path[1] = v.node
        /\ collected[v.node] # 0
        /\ IsCycle(v.path)
        /\ HasLowestPriority(v.path)

\* "In a cycle only one node detects the deadlock"
\* (unittest/share/deadlock/test_deadlock.cpp:356).
OneVictim == \A v, w \in victims : v.node = w.node

=============================================================================
