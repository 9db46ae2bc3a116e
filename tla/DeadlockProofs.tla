--------------------------- MODULE DeadlockProofs ---------------------------
(* Proofs about DeadlockDetector: its types, that only nodes on cycles of    *)
(* waits collect and are killed, and that a cycle has one victim.            *)
EXTENDS DeadlockDetector, TLAPS

-----------------------------------------------------------------------------
(* Types                                                                     *)

\* What a thread merges into the cache is a message again.
LEMMA CachedType ==
    ASSUME TypeOK, NEW d \in Det, NEW s \in Snapshot
    PROVE  Cached(d, s) \in [Key -> Message \cup {NONE}]
<1>1. Home(d) \in Server
    BY DetectorAssumption DEF Home
<1>2. ASSUME NEW k \in Key
      PROVE  Cached(d, s)[k] \in Message \cup {NONE}
    <2> DEFINE m == [dest |-> k, lclv |-> s.lclv, label |-> s.label,
                     phase |-> phase[Home(d)]]
               old == cache[Home(d)][k]
    <2>1. m \in Message
        BY <1>1 DEF TypeOK, Message, Snapshot
    <2>2. old \in Message \cup {NONE}
        BY <1>1 DEF TypeOK
    <2>3. ASSUME old \in Message
          PROVE  Merge(old, m) \in Message
        BY <2>1, <2>3 DEF Merge, Message
    <2>4. Cached(d, s)[k] = IF k \notin s.block THEN old
                            ELSE IF old = NONE THEN m ELSE Merge(old, m)
        BY DEF Cached
    <2> QED
        BY <2>1, <2>2, <2>3, <2>4
<1> QED
    BY <1>2 DEF Cached

\* What is cached at a server are messages.
LEMMA InCacheType ==
    ASSUME TypeOK, NEW s \in Server
    PROVE  InCache(s) \subseteq Message
    BY DEF TypeOK, InCache

\* What a node sends on are collect-info messages.
LEMMA ForwardType ==
    ASSUME TypeOK, NEW d \in Det, NEW p \in Seq(Det)
    PROVE  Forward(d, p) \subseteq Collect
<1>1. Append(p, d) \in Seq(Det)
    OBVIOUS
<1>2. block[d] \subseteq Key
    BY DEF TypeOK
<1>3. ASSUME NEW k \in Key
      PROVE  [dest |-> k, path |-> Append(p, d)] \in Collect
    BY <1>1 DEF Collect
<1> QED
    BY <1>2, <1>3 DEF Forward

\* The steps of the users keep the types.
LEMMA UserType ==
    ASSUME TypeOK, NEW d \in Det, User(d)
    PROVE  TypeOK'
<1>1. CASE Register(d)
    <2>1. hold' \in [Det -> Nat]
        BY <1>1, DetectorAssumption DEF Register, TypeOK
    <2> QED
        BY <1>1, <2>1 DEF Register, TypeOK, lclVars
<1>2. CASE Unregister(d)
    BY <1>2 DEF Unregister, TypeOK, nodeVars, lclVars
<1>3. CASE DecCountDown(d)
    BY <1>3 DEF DecCountDown, TypeOK, lclVars
<1>4. ASSUME NEW S \in SUBSET Key, BlockOn(d, S)
      PROVE  TypeOK'
    <2>1. waited' \subseteq Det \X Key
        BY <1>4 DEF BlockOn, TypeOK
    <2>2. block' \in [Det -> SUBSET Key]
        BY <1>4 DEF BlockOn, TypeOK
    <2> QED
        BY <1>4, <2>1, <2>2 DEF BlockOn, TypeOK, lclVars
<1>5. CASE ActivateAll(d)
    BY <1>4, <1>5 DEF ActivateAll
<1>6. ASSUME NEW k \in Key, Block(d, k) \/ Activate(d, k)
      PROVE  TypeOK'
    <2>1. block[d] \cup {k} \in SUBSET Key /\ block[d] \ {k} \in SUBSET Key
        BY DEF TypeOK
    <2> QED
        BY <1>4, <1>6, <2>1 DEF Block, Activate
<1>7. ASSUME NEW S \in SUBSET Key, ReplaceBlockList(d, S)
      PROVE  TypeOK'
    BY <1>4, <1>7 DEF ReplaceBlockList
<1> QED
    BY <1>1, <1>2, <1>3, <1>5, <1>6, <1>7 DEF User

\* A new period keeps the types of what it sets.
LEMMA UpdatePeriodType ==
    ASSUME TypeOK, NEW d \in Det, UpdatePeriod(d)
    PROVE  /\ period' \in [Det -> Nat]
           /\ public' \in [Det -> Det]
           /\ PeriodNow(d) \in Nat
           /\ LabelNow(d) \in Det
<1>1. phase[Home(d)] \in Nat
    BY DetectorAssumption DEF TypeOK, Home
<1>2. PeriodNow(d) \in Nat /\ LabelNow(d) \in Det
    BY <1>1 DEF PeriodNow, LabelNow, TypeOK
<1> QED
    BY <1>2 DEF UpdatePeriod, TypeOK

\* The steps of the detector keep the types.
LEMMA DetectType ==
    ASSUME TypeOK, Detect
    PROVE  TypeOK'
<1>1. ASSUME NEW d \in Det, TakeSnapshot(d)
      PROVE  TypeOK'
    <2>1. UpdatePeriod(d)
        BY <1>1 DEF TakeSnapshot
    <2>2. [block |-> block[d], lclv |-> lclv[d], label |-> LabelNow(d)]
            \in Snapshot
        BY <2>1, UpdatePeriodType DEF TypeOK, Snapshot
    <2>3. snap' \in [Det -> Snapshot \cup {NONE}]
        BY <1>1, <2>2 DEF TakeSnapshot, TypeOK
    <2> QED
        BY <1>1, <2>1, <2>3, UpdatePeriodType DEF TakeSnapshot, TypeOK
<1>2. ASSUME NEW d \in Det, Broadcast(d)
      PROVE  TypeOK'
    <2>1. snap[d] \in Snapshot
        BY <1>2 DEF Broadcast, TypeOK
    <2>2. Cached(d, snap[d]) \in [Key -> Message \cup {NONE}]
        BY <2>1, CachedType
    <2>3. cache' \in [Server -> [Key -> Message \cup {NONE}]]
        BY <1>2, <2>2 DEF Broadcast, TypeOK
    <2>4. snap' \in [Det -> Snapshot \cup {NONE}]
        BY <1>2 DEF Broadcast, TypeOK
    <2> QED
        BY <1>2, <2>3, <2>4 DEF Broadcast, TypeOK, nodeVars
<1>3. ASSUME NEW d \in Det, StartCollect(d)
      PROVE  TypeOK'
    <2>0. <<>> \in Seq(Det)
        OBVIOUS
    <2>1. Forward(d, <<>>) \subseteq Collect
        BY <2>0, ForwardType
    <2> QED
        BY <1>3, <2>1 DEF StartCollect, TypeOK, nodeVars, lclVars
<1>4. ASSUME NEW s \in Server, Tick(s)
      PROVE  TypeOK'
    BY <1>4 DEF Tick, TypeOK, nodeVars, lclVars
<1>5. ASSUME NEW s \in Server, Flush(s)
      PROVE  TypeOK'
    <2>1. net' \subseteq Message
        BY <1>5, InCacheType DEF Flush, TypeOK
    <2>2. cache' \in [Server -> [Key -> Message \cup {NONE}]]
        BY <1>5 DEF Flush, TypeOK
    <2> QED
        BY <1>5, <2>1, <2>2 DEF Flush, TypeOK, nodeVars
<1>6. ASSUME NEW m \in net, Receive(m)
      PROVE  TypeOK'
    <2>0. m \in Message
        BY DEF TypeOK
    <2> DEFINE Goal == /\ period' \in [Det -> Nat]
                       /\ public' \in [Det -> Det]
                       /\ hand' \subseteq [node : Det, msg : Message]
    <2>1. Goal
        <3>1. CASE UNCHANGED <<period, public, hand>>
            BY <3>1 DEF TypeOK
        <3>2. ASSUME NEW d \in alive, UpdatePeriod(d),
                     hand' = IF m.phase = phase[Home(d)]
                             THEN hand \cup {[node |-> d, msg |-> m]}
                             ELSE hand
              PROVE  Goal
            <4>1. d \in Det
                BY DEF TypeOK
            <4>2. [node |-> d, msg |-> m] \in [node : Det, msg : Message]
                BY <2>0, <4>1
            <4>3. hand \subseteq [node : Det, msg : Message]
                BY DEF TypeOK
            <4>4. hand' \subseteq [node : Det, msg : Message]
                BY <3>2, <4>2, <4>3
            <4> QED
                BY <3>2, <4>1, <4>4, UpdatePeriodType
        <3> QED
            BY <1>6, <3>1, <3>2 DEF Receive
    <2> QED
        BY <1>6, <2>1 DEF Receive, TypeOK
<1>7. ASSUME NEW h \in hand, Apply(h)
      PROVE  TypeOK'
    <2>1. h.node \in Det /\ h.msg \in Message
        BY DEF TypeOK
    <2>2. h.msg.lclv \in Nat /\ h.msg.label \in Det
        BY <2>1 DEF Message
    <2>3. CASE ApplyLCLP(h.node, h.msg)
        BY <1>7, <2>1, <2>2, <2>3 DEF Apply, ApplyLCLP, TypeOK
    <2>4. CASE ApplyLCLS(h.node, h.msg)
        <3>1. /\ lclv' \in [Det -> Nat] /\ public' \in [Det -> Det]
              /\ collected' \in [Det -> Nat] /\ starting' \subseteq Det
            BY <2>1, <2>2, <2>4 DEF ApplyLCLS, TypeOK
        <3> QED
            BY <1>7, <3>1 DEF Apply, TypeOK
    <2> QED
        BY <1>7, <2>3, <2>4 DEF Apply
<1>8. ASSUME NEW c \in collects, ReceiveCollect(c)
      PROVE  TypeOK'
    <2>0. c.path \in Seq(Det)
        BY DEF TypeOK, Collect
    <2> DEFINE Goal == /\ collects' \subseteq Collect
                       /\ block' \in [Det -> SUBSET Key]
                       /\ victims' \subseteq [node : Det, path : Seq(Det)]
    <2>1. Goal
        <3>1. CASE collects' = collects \ {c} /\ UNCHANGED <<victims, block>>
            BY <3>1 DEF TypeOK
        <3>2. ASSUME NEW d \in alive, Complete(d, c.path),
                     collects' = collects \ {c}
              PROVE  Goal
            <4>1. d \in Det
                BY DEF TypeOK
            <4>2. [node |-> d, path |-> c.path]
                    \in [node : Det, path : Seq(Det)]
                BY <2>0, <4>1
            <4>3. victims' \subseteq [node : Det, path : Seq(Det)]
                BY <3>2, <4>2 DEF Complete, TypeOK
            <4>4. block' \in [Det -> SUBSET Key]
                <5>1. block \in [Det -> SUBSET Key]
                    BY DEF TypeOK
                <5>2. \/ block' = block
                      \/ block' = [block EXCEPT ![d] = @ \ {NextOnCycle(c.path)}]
                    BY <3>2 DEF Complete
                <5>3. block[d] \ {NextOnCycle(c.path)} \in SUBSET Key
                    BY <4>1, <5>1
                <5> QED
                    BY <4>1, <5>1, <5>2, <5>3
            <4>5. collects' \subseteq Collect
                BY <3>2 DEF TypeOK
            <4> QED
                BY <4>3, <4>4, <4>5
        <3>3. ASSUME NEW d \in alive, UNCHANGED <<victims, block>>,
                     collects' = (collects \ {c})
                        \cup (IF OnPath(d, c.path) THEN {}
                              ELSE Forward(d, c.path))
              PROVE  Goal
            <4>1. Forward(d, c.path) \subseteq Collect
                BY <2>0, ForwardType DEF TypeOK
            <4> QED
                BY <3>3, <4>1 DEF TypeOK
        <3> QED
            BY <1>8, <3>1, <3>2, <3>3 DEF ReceiveCollect
    <2> QED
        BY <1>8, <2>1 DEF ReceiveCollect, TypeOK, lclVars
<1> QED
    BY <1>1, <1>2, <1>3, <1>4, <1>5, <1>6, <1>7, <1>8 DEF Detect

\* Every state of the detector has the types of TypeOK.
THEOREM DetectorTypes == Spec => []TypeOK
<1>1. Init => TypeOK
    BY DetectorAssumption DEF Init, Fresh, TypeOK
<1>2. TypeOK /\ [Next]_vars => TypeOK'
    <2>1. CASE UNCHANGED vars
        BY <2>1 DEF vars, nodeVars, lclVars, TypeOK
    <2> QED
        BY <2>1, DetectType, UserType DEF Next
<1> QED
    BY <1>1, <1>2, PTL DEF Spec

-----------------------------------------------------------------------------
(* The inductive invariant.  Everything is about the waits that ever were,   *)
(* which only grow.  A label is where waits have carried it; a message is on *)
(* a wait of a node that carries its label; a collect-info message has       *)
(* followed waits from the node that sent it, and is on one of the last.     *)

\* The label of m was carried to a node that has waited for m.dest.
Told(m) == \E c \in Det : Carries(m.label, c) /\ <<c, m.dest>> \in waited

\* The waits, the public labels and what a timer thread has read
NodeInv ==
    \A d \in Det :
        /\ \A k \in block[d] : <<d, k>> \in waited
        /\ Carries(public[d], d)
        /\ snap[d] # NONE =>
            /\ Carries(snap[d].label, d)
            /\ \A k \in snap[d].block : <<d, k>> \in waited

\* The LCL messages, from the cache to the handler
MessageInv ==
    /\ \A s \in Server, k \in Key :
        cache[s][k] # NONE => cache[s][k].dest = k /\ Told(cache[s][k])
    /\ \A m \in net : Told(m)
    /\ \A h \in hand : /\ Told(h.msg)
                       /\ KeyOf[h.node] = h.msg.dest
                       /\ period[h.node] # 0

\* The nodes that have found a cycle
CollectorInv ==
    /\ CollectorLeastOnCycle
    /\ \A d \in starting : collected[d] # 0

\* Each node of the path has waited for the next.
IsPath(path) ==
    /\ Len(path) > 0
    /\ \A i, j \in 1..Len(path) : path[i] = path[j] => i = j
    /\ \A i \in 1..(Len(path) - 1) : <<path[i], KeyOf[path[i + 1]]>> \in waited

\* The collect-info messages and the victims
PathInv ==
    /\ \A c \in collects :
        /\ IsPath(c.path)
        /\ <<c.path[Len(c.path)], c.dest>> \in waited
        /\ collected[c.path[1]] # 0
    /\ VictimOnCycle

PhaseInv == \A s \in Server : phase[s] >= FirstPhase

Inv == TypeOK /\ NodeInv /\ MessageInv /\ CollectorInv /\ PathInv /\ PhaseInv

-----------------------------------------------------------------------------
(* Labels and waits                                                          *)

\* Labels are ordered.
LEMMA LabelOrder ==
    /\ \A x, y, z \in Det : LabelLess(x, y) /\ LabelLess(y, z)
                            => LabelLess(x, z)
    /\ \A x \in Det : ~LabelLess(x, x)
    BY DetectorAssumption DEF LabelLess

\* A label that has come to another node is less than the label of that node.
LEMMA CarriedIsLess ==
    ASSUME NEW x \in Det, NEW d \in Det, Carries(x, d)
    PROVE  x = d \/ LabelLess(x, d)
<1> DEFINE S == {e \in Det : LabelLess(x, e)}
<1>1. Closed(x, S)
    BY DEF Closed
<1>2. S \in SUBSET Det
    OBVIOUS
<1>3. d = x \/ d \in S
    BY <1>1, <1>2 DEF Carries
<1> QED
    BY <1>3

\* A wait for a node with a greater label carries the label on.
LEMMA CarriedOn ==
    ASSUME NEW x \in Det, NEW c \in Det, NEW d \in Det,
           Carries(x, c), <<c, KeyOf[d]>> \in waited, LabelLess(x, d)
    PROVE  Carries(x, d)
<1>1. ASSUME NEW S \in SUBSET Det, Closed(x, S)
      PROVE  d \in S
    <2>1. c \in S \cup {x}
        BY <1>1 DEF Carries
    <2> QED
        BY <1>1, <2>1 DEF Closed
<1> QED
    BY <1>1 DEF Carries

\* Every node carries its own label.
LEMMA CarriesOwn == \A d \in Det : Carries(d, d)
    BY DEF Carries

\* More waits carry the labels further.
LEMMA WaitsGrow ==
    ASSUME waited \subseteq waited'
    PROVE  /\ \A x, d \in Det : Carries(x, d) => Carries(x, d)'
           /\ \A m \in Message : Told(m) => Told(m)'
           /\ \A x \in Det : LeastOnCycle(x) => LeastOnCycle(x)'
           /\ \A p : IsPath(p) => IsPath(p)'
           /\ \A p : IsCycle(p) => IsCycle(p)'
<1>1. \A x \in Det, S \in SUBSET Det : Closed(x, S)' => Closed(x, S)
    BY DEF Closed
<1>2. \A x, d \in Det : Carries(x, d) => Carries(x, d)'
    BY <1>1 DEF Carries
<1>3. \A m \in Message : Told(m) => Told(m)'
    BY <1>2 DEF Told, Message
<1>4. \A x \in Det : LeastOnCycle(x) => LeastOnCycle(x)'
    BY <1>2 DEF LeastOnCycle
<1>5. \A p : IsPath(p) => IsPath(p)'
    BY DEF IsPath
<1>6. \A p : IsCycle(p) => IsCycle(p)'
    BY DEF IsCycle
<1> QED
    BY <1>2, <1>3, <1>4, <1>5, <1>6

-----------------------------------------------------------------------------
(* The parts of the invariant hold on as long as what they are about stays   *)
(* and the waits grow.                                                       *)

\* Nodes that keep their label and their snapshot carry what they carried.
LEMMA NodeFrame ==
    ASSUME Inv, waited \subseteq waited', UNCHANGED <<public, snap>>,
           \A d \in Det : \A k \in block'[d] : <<d, k>> \in waited'
    PROVE  NodeInv'
<1> SUFFICES ASSUME NEW d \in Det
             PROVE  /\ Carries(public[d], d)'
                    /\ snap[d] # NONE =>
                        /\ Carries(snap[d].label, d)'
                        /\ \A k \in snap[d].block : <<d, k>> \in waited'
    BY DEF NodeInv
<1>1. public[d] \in Det /\ Carries(public[d], d)
    BY DEF Inv, TypeOK, NodeInv
<1>2. Carries(public[d], d)'
    BY <1>1, WaitsGrow
<1>3. ASSUME snap[d] # NONE
      PROVE  /\ Carries(snap[d].label, d)'
             /\ \A k \in snap[d].block : <<d, k>> \in waited'
    <2>1. snap[d].label \in Det
        BY <1>3 DEF Inv, TypeOK, Snapshot
    <2>2. /\ Carries(snap[d].label, d)
          /\ \A k \in snap[d].block : <<d, k>> \in waited
        BY <1>3 DEF Inv, NodeInv
    <2> QED
        BY <2>1, <2>2, WaitsGrow
<1> QED
    BY <1>2, <1>3

\* Messages that stay where they are were told along waits.
LEMMA MessageFrame ==
    ASSUME Inv, waited \subseteq waited', UNCHANGED <<cache, net, hand, period>>
    PROVE  MessageInv'
<1>1. ASSUME NEW s \in Server, NEW k \in Key, cache[s][k] # NONE
      PROVE  cache[s][k].dest = k /\ Told(cache[s][k])'
    <2>1. cache[s][k] \in Message
        BY <1>1 DEF Inv, TypeOK
    <2>2. cache[s][k].dest = k /\ Told(cache[s][k])
        BY <1>1 DEF Inv, MessageInv
    <2>3. \A m \in Message : Told(m) => Told(m)'
        BY WaitsGrow
    <2> QED
        BY <2>1, <2>2, <2>3
<1>2. \A m \in net : Told(m)'
    BY WaitsGrow DEF Inv, TypeOK, MessageInv
<1>3. ASSUME NEW h \in hand
      PROVE  Told(h.msg)' /\ KeyOf[h.node] = h.msg.dest /\ period[h.node] # 0
    <2>1. h.msg \in Message
        BY DEF Inv, TypeOK
    <2> QED
        BY <2>1, WaitsGrow DEF Inv, MessageInv
<1> QED
    BY <1>1, <1>2, <1>3 DEF MessageInv

\* Nodes that have found a cycle stay on one.
LEMMA CollectorFrame ==
    ASSUME Inv, waited \subseteq waited', UNCHANGED <<collected, starting>>
    PROVE  CollectorInv'
    BY WaitsGrow DEF Inv, CollectorInv, CollectorLeastOnCycle

\* The victims stay on cycles.
LEMMA VictimFrame ==
    ASSUME Inv, waited \subseteq waited',
           \A d \in Det : collected[d] # 0 => collected'[d] # 0
    PROVE  \A v \in victims : /\ v.path[1] = v.node
                              /\ collected'[v.node] # 0
                              /\ IsCycle(v.path)'
                              /\ HasLowestPriority(v.path)
<1> SUFFICES ASSUME NEW v \in victims
             PROVE  /\ v.path[1] = v.node
                    /\ collected'[v.node] # 0
                    /\ IsCycle(v.path)'
                    /\ HasLowestPriority(v.path)
    OBVIOUS
<1>1. v.node \in Det
    BY DEF Inv, TypeOK
<1>2. /\ v.path[1] = v.node /\ collected[v.node] # 0
      /\ IsCycle(v.path) /\ HasLowestPriority(v.path)
    BY DEF Inv, PathInv, VictimOnCycle
<1>3. IsCycle(v.path)'
    BY <1>2, WaitsGrow
<1> QED
    BY <1>1, <1>2, <1>3

\* A collect-info message stays on its path.
LEMMA CollectFrame ==
    ASSUME Inv, waited \subseteq waited',
           \A d \in Det : collected[d] # 0 => collected'[d] # 0
    PROVE  \A c \in collects :
                /\ IsPath(c.path)'
                /\ <<c.path[Len(c.path)], c.dest>> \in waited'
                /\ collected'[c.path[1]] # 0
<1> SUFFICES ASSUME NEW c \in collects
             PROVE  /\ IsPath(c.path)'
                    /\ <<c.path[Len(c.path)], c.dest>> \in waited'
                    /\ collected'[c.path[1]] # 0
    OBVIOUS
<1>1. /\ IsPath(c.path) /\ <<c.path[Len(c.path)], c.dest>> \in waited
      /\ collected[c.path[1]] # 0
    BY DEF Inv, PathInv
<1>2. c.path \in Seq(Det)
    BY DEF Inv, TypeOK, Collect
<1>3. c.path[1] \in Det
    BY <1>1, <1>2 DEF IsPath
<1>4. IsPath(c.path)'
    BY <1>1, WaitsGrow
<1> QED
    BY <1>1, <1>3, <1>4

\* Collect-info messages and victims that stay keep their paths.
LEMMA PathFrame ==
    ASSUME Inv, waited \subseteq waited', UNCHANGED <<collects, victims>>,
           \A d \in Det : collected[d] # 0 => collected'[d] # 0
    PROVE  PathInv'
    BY VictimFrame, CollectFrame DEF PathInv, VictimOnCycle

-----------------------------------------------------------------------------
(* The steps                                                                 *)

\* No step of a user disturbs more than the waits.
LEMMA UserKeeps ==
    ASSUME Inv, NEW d \in Det, User(d)
    PROVE  Inv'
<1>1. TypeOK'
    BY UserType DEF Inv
<1> DEFINE Goal ==
        /\ waited \subseteq waited'
        /\ \A e \in Det : \A k \in block'[e] : <<e, k>> \in waited'
        /\ UNCHANGED <<public, snap, cache, net, hand, period, collected,
                       starting, collects, victims, phase>>
<1>2. Goal
    <2>0. \A e \in Det : \A k \in block[e] : <<e, k>> \in waited
        BY DEF Inv, NodeInv
    <2>1. CASE Register(d) \/ Unregister(d) \/ DecCountDown(d)
        BY <2>0, <2>1
        DEF Register, Unregister, DecCountDown, nodeVars, lclVars
    <2>2. ASSUME NEW S, BlockOn(d, S)
          PROVE  Goal
        <3>1. block' = [block EXCEPT ![d] = S]
            BY <2>2 DEF BlockOn
        <3>2. waited' = waited \cup {<<d, k>> : k \in S}
            BY <2>2 DEF BlockOn
        <3>3. \A e \in Det : \A k \in block'[e] : <<e, k>> \in waited'
            BY <2>0, <3>1, <3>2 DEF Inv, TypeOK
        <3> QED
            BY <2>2, <3>2, <3>3 DEF BlockOn, lclVars
    <2>3. CASE \/ ActivateAll(d)
               \/ \E k \in Key : Block(d, k) \/ Activate(d, k)
               \/ \E S \in SUBSET Key : ReplaceBlockList(d, S)
        BY <2>2, <2>3 DEF ActivateAll, Block, Activate, ReplaceBlockList
    <2> QED
        BY <2>1, <2>3 DEF User
<1>3. NodeInv' /\ MessageInv' /\ CollectorInv' /\ PathInv'
    BY <1>2, NodeFrame, MessageFrame, CollectorFrame, PathFrame
<1>4. PhaseInv'
    BY <1>2 DEF Inv, PhaseInv
<1> QED
    BY <1>1, <1>3, <1>4 DEF Inv

\* After a new period the node carries its public label.
LEMMA UpdatePeriodKeeps ==
    ASSUME Inv, NEW d \in Det, UpdatePeriod(d), UNCHANGED waited
    PROVE  /\ \A e \in Det : Carries(public'[e], e)
           /\ Carries(LabelNow(d), d)
           /\ \A e \in Det : period[e] # 0 => period'[e] # 0
           /\ period'[d] # 0
<1>1. phase[Home(d)] \in Nat /\ phase[Home(d)] >= 2
    BY DetectorAssumption DEF Inv, TypeOK, PhaseInv, Home
<1>2. phase[Home(d)] \div 2 > 0
    BY <1>1
<1>3. Carries(LabelNow(d), d)
    BY CarriesOwn DEF LabelNow, Inv, NodeInv
<1>4. \A e \in Det : Carries(public'[e], e)
    BY <1>3 DEF UpdatePeriod, Inv, NodeInv, TypeOK
<1>5. PeriodNow(d) # 0
    <2>1. period[d] \in Nat
        BY DEF Inv, TypeOK
    <2> QED
        BY <1>1, <1>2, <2>1 DEF PeriodNow, NewPeriod
<1> QED
    BY <1>3, <1>4, <1>5 DEF UpdatePeriod, Inv, TypeOK

\* The timer reads the label that the node carries.
LEMMA TakeSnapshotKeeps ==
    ASSUME Inv, NEW d \in Det, TakeSnapshot(d), TypeOK'
    PROVE  Inv'
<1> DEFINE s == [block |-> block[d], lclv |-> lclv[d], label |-> LabelNow(d)]
<1>1. UpdatePeriod(d) /\ UNCHANGED waited
    BY DEF TakeSnapshot
<1>2. /\ \A e \in Det : Carries(public'[e], e)
      /\ Carries(LabelNow(d), d)
      /\ \A e \in Det : period[e] # 0 => period'[e] # 0
    BY <1>1, UpdatePeriodKeeps
<1>3. snap' = [snap EXCEPT ![d] = s]
    BY DEF TakeSnapshot
<1>4. ASSUME NEW e \in Det, snap'[e] # NONE
      PROVE  /\ Carries(snap'[e].label, e)
             /\ \A k \in snap'[e].block : <<e, k>> \in waited
    <2>1. CASE e = d
        <3>1. snap'[e] = s
            BY <1>3, <2>1 DEF Inv, TypeOK
        <3> QED
            BY <1>2, <2>1, <3>1 DEF Inv, NodeInv
    <2>2. CASE e # d
        <3>1. snap'[e] = snap[e]
            BY <1>3, <2>2 DEF Inv, TypeOK
        <3> QED
            BY <1>4, <3>1 DEF Inv, NodeInv
    <2> QED
        BY <2>1, <2>2
<1>5. \A x, e \in Det : Carries(x, e) => Carries(x, e)'
    BY <1>1, WaitsGrow
<1>6. NodeInv'
    <2> SUFFICES ASSUME NEW e \in Det
                 PROVE  /\ \A k \in block'[e] : <<e, k>> \in waited'
                        /\ Carries(public[e], e)'
                        /\ snap'[e] # NONE =>
                            /\ Carries(snap[e].label, e)'
                            /\ \A k \in snap'[e].block : <<e, k>> \in waited'
        BY DEF NodeInv
    <2>1. public'[e] \in Det
        BY DEF TypeOK
    <2>2. Carries(public[e], e)'
        BY <1>2, <1>1, <2>1 DEF Carries, Closed
    <2>3. ASSUME snap'[e] # NONE
          PROVE  Carries(snap[e].label, e)'
        BY <1>1, <1>4, <2>3 DEF Carries, Closed
    <2>4. \A k \in block'[e] : <<e, k>> \in waited'
        BY <1>1 DEF TakeSnapshot, Inv, NodeInv
    <2> QED
        BY <1>1, <1>4, <2>2, <2>3, <2>4
<1>7. MessageInv'
    <2>1. \A h \in hand : h.node \in Det
        BY DEF Inv, TypeOK
    <2>2. UNCHANGED <<cache, net, hand, waited>>
        BY DEF TakeSnapshot
    <2>3. \A m : Told(m) <=> Told(m)'
        BY <2>2 DEF Told, Carries, Closed
    <2> QED
        BY <1>2, <2>1, <2>2, <2>3 DEF Inv, MessageInv
<1>8. CollectorInv' /\ PathInv'
    BY CollectorFrame, PathFrame DEF TakeSnapshot
<1>9. PhaseInv'
    BY DEF TakeSnapshot, Inv, PhaseInv
<1> QED
    BY <1>6, <1>7, <1>8, <1>9 DEF Inv

\* What the timer read is told along the waits that it read, merged or not.
LEMMA BroadcastKeeps ==
    ASSUME Inv, NEW d \in Det, Broadcast(d), TypeOK'
    PROVE  Inv'
<1> DEFINE t == snap[d]
<1>0. /\ t \in Snapshot /\ Carries(t.label, d)
      /\ \A k \in t.block : <<d, k>> \in waited
    BY DEF Broadcast, Inv, TypeOK, NodeInv
<1>1. UNCHANGED <<waited, public, block, net, hand, period, collected, starting,
                  collects, victims, phase>>
    BY DEF Broadcast, nodeVars
<1>2. \A e \in Det : snap'[e] = NONE \/ snap'[e] = snap[e]
    BY DEF Broadcast, Inv, TypeOK
<1>3. NodeInv'
    BY <1>1, <1>2 DEF Inv, NodeInv, Carries, Closed
<1>4. ASSUME NEW s \in Server, NEW k \in Key, cache'[s][k] # NONE
      PROVE  cache'[s][k].dest = k /\ Told(cache'[s][k])
    <2>1. CASE cache'[s][k] = cache[s][k]
        BY <1>4, <2>1 DEF Inv, MessageInv
    <2>2. CASE cache'[s][k] # cache[s][k]
        <3> DEFINE m == [dest |-> k, lclv |-> t.lclv, label |-> t.label,
                         phase |-> phase[Home(d)]]
                   old == cache[s][k]
        <3>1. s = Home(d) /\ cache'[s] = Cached(d, t)
            BY <2>2 DEF Broadcast, Inv, TypeOK
        <3>2. Cached(d, t)[k] = IF k \notin t.block THEN old
                                ELSE IF old = NONE THEN m ELSE Merge(old, m)
            BY <3>1 DEF Cached
        <3>3. k \in t.block
            BY <2>2, <3>1, <3>2
        <3>4. Told(m)
            BY <1>0, <3>3 DEF Told
        <3>5. m \in Message /\ old \in Message \cup {NONE}
            BY <1>0, <3>1 DEF Inv, TypeOK, Message, Snapshot
        <3>6. CASE old = NONE
            BY <3>1, <3>2, <3>3, <3>4, <3>6
        <3>7. CASE old # NONE
            <4> DEFINE n == [m EXCEPT !.phase = old.phase]
            <4>1. cache'[s][k] = n
                BY <2>2, <3>1, <3>2, <3>3, <3>7 DEF Merge
            <4>2. n.dest = m.dest /\ n.label = m.label
                OBVIOUS
            <4>3. Told(n)
                BY <3>4, <4>2 DEF Told
            <4> QED
                BY <4>1, <4>2, <4>3
        <3> QED
            BY <3>6, <3>7
    <2> QED
        BY <2>1, <2>2
<1>5. MessageInv'
    <2>1. \A s \in Server, k \in Key : cache'[s][k] # NONE =>
              cache'[s][k].dest = k /\ Told(cache[s][k])'
        BY <1>1, <1>4 DEF Told, Carries, Closed
    <2>2. \A m : Told(m) <=> Told(m)'
        BY <1>1 DEF Told, Carries, Closed
    <2> QED
        BY <1>1, <2>1, <2>2 DEF Inv, MessageInv
<1>6. CollectorInv' /\ PathInv'
    BY <1>1, CollectorFrame, PathFrame
<1>7. PhaseInv'
    BY <1>1 DEF Inv, PhaseInv
<1> QED
    BY <1>3, <1>5, <1>6, <1>7 DEF Inv

\* Posting the cache tells nothing new.
LEMMA FlushKeeps ==
    ASSUME Inv, NEW s \in Server, Flush(s), TypeOK'
    PROVE  Inv'
<1>1. UNCHANGED <<waited, public, block, snap, hand, period, collected,
                  starting, collects, victims, phase>>
    BY DEF Flush, nodeVars
<1>2. \A m : Told(m) <=> Told(m)'
    BY <1>1 DEF Told, Carries, Closed
<1>3. \A m \in InCache(s) : Told(m)
    BY DEF InCache, Inv, MessageInv
<1>4. \A m \in net' : Told(m)'
    BY <1>2, <1>3 DEF Flush, Inv, MessageInv
<1>5. ASSUME NEW r \in Server, NEW k \in Key, cache'[r][k] # NONE
      PROVE  cache'[r][k].dest = k /\ Told(cache[r][k])'
    <2>1. cache'[r][k] = cache[r][k]
        BY <1>5 DEF Flush, Inv, TypeOK
    <2>2. cache[r][k].dest = k /\ Told(cache[r][k])
        BY <1>5, <2>1 DEF Inv, MessageInv
    <2> QED
        BY <1>1, <2>1, <2>2 DEF Told, Carries, Closed
<1>6. MessageInv'
    BY <1>1, <1>2, <1>4, <1>5 DEF Inv, MessageInv
<1>7. NodeInv'
    BY <1>1, NodeFrame DEF Inv, NodeInv
<1>8. CollectorInv' /\ PathInv'
    BY <1>1, CollectorFrame, PathFrame
<1>9. PhaseInv'
    BY <1>1 DEF Inv, PhaseInv
<1> QED
    BY <1>6, <1>7, <1>8, <1>9 DEF Inv

\* The clocks are in nothing but the phases.
LEMMA TickKeeps ==
    ASSUME Inv, NEW s \in Server, Tick(s), TypeOK'
    PROVE  Inv'
<1>1. UNCHANGED <<waited, public, block, snap, cache, net, hand, period,
                  collected, starting, collects, victims>>
    BY DEF Tick, nodeVars, lclVars
<1>2. NodeInv'
    BY <1>1, NodeFrame DEF Inv, NodeInv
<1>3. MessageInv' /\ CollectorInv' /\ PathInv'
    BY <1>1, MessageFrame, CollectorFrame, PathFrame
<1>4. PhaseInv'
    BY DetectorAssumption DEF Tick, Inv, TypeOK, PhaseInv
<1> QED
    BY <1>2, <1>3, <1>4 DEF Inv

\* A message comes to the handler of the node that has its key, in a period.
LEMMA ReceiveKeeps ==
    ASSUME Inv, NEW m \in net, Receive(m), TypeOK'
    PROVE  Inv'
<1>1. UNCHANGED <<waited, block, snap, cache, collected, starting, collects,
                  victims, phase>> /\ net' = net \ {m}
    BY DEF Receive
<1>2. \A n : Told(n) <=> Told(n)'
    BY <1>1 DEF Told, Carries, Closed
<1> DEFINE Goal == NodeInv' /\ MessageInv'
<1>3. ASSUME UNCHANGED <<period, public, hand>>
      PROVE  Goal
    <2>1. NodeInv'
        BY <1>1, <1>3, NodeFrame DEF Inv, NodeInv
    <2>2. MessageInv'
        BY <1>1, <1>2, <1>3 DEF Inv, MessageInv, Told, Carries, Closed
    <2> QED
        BY <2>1, <2>2
<1>4. ASSUME NEW d \in alive, KeyOf[d] = m.dest, UpdatePeriod(d),
             hand' = IF m.phase = phase[Home(d)]
                     THEN hand \cup {[node |-> d, msg |-> m]} ELSE hand
      PROVE  Goal
    <2>1. d \in Det /\ m \in Message
        BY DEF Inv, TypeOK
    <2>2. /\ \A e \in Det : Carries(public'[e], e)
          /\ \A e \in Det : period[e] # 0 => period'[e] # 0
          /\ period'[d] # 0
        BY <1>1, <1>4, <2>1, UpdatePeriodKeeps
    <2>3. NodeInv'
        BY <1>1, <2>2 DEF Inv, NodeInv, Carries, Closed
    <2>4. Told(m)
        BY DEF Inv, MessageInv
    <2>5. ASSUME NEW h \in hand'
          PROVE  Told(h.msg)' /\ KeyOf[h.node] = h.msg.dest
                 /\ period'[h.node] # 0
        <3>1. CASE h \in hand
            BY <1>2, <2>2, <3>1 DEF Inv, TypeOK, MessageInv
        <3>2. CASE h = [node |-> d, msg |-> m]
            BY <1>2, <1>4, <2>2, <2>4, <3>2
        <3> QED
            BY <1>4, <2>5, <3>1, <3>2
    <2>6. \A n \in net' : Told(n)'
        BY <1>1, <1>2 DEF Inv, MessageInv
    <2>7. \A s \in Server, k \in Key : cache'[s][k] # NONE =>
              cache'[s][k].dest = k /\ Told(cache[s][k])'
        BY <1>1 DEF Inv, MessageInv, Told, Carries, Closed
    <2> QED
        BY <2>3, <2>5, <2>6, <2>7 DEF MessageInv
<1>5. Goal
    BY <1>3, <1>4 DEF Receive
<1>6. CollectorInv' /\ PathInv'
    BY <1>1, CollectorFrame, PathFrame
<1>7. PhaseInv'
    BY <1>1 DEF Inv, PhaseInv
<1> QED
    BY <1>5, <1>6, <1>7 DEF Inv

\* What a message says is taken over: a counter, a label that was carried to
\* this node, or its own label, which has come round a cycle.
LEMMA ApplyKeeps ==
    ASSUME Inv, NEW h \in hand, Apply(h), TypeOK'
    PROVE  Inv'
<1> DEFINE d == h.node
           m == h.msg
<1>1. UNCHANGED <<waited, block, snap, cache, net, period, collects, victims,
                  phase>> /\ hand' = hand \ {h}
    BY DEF Apply
<1>2. /\ d \in Det /\ m \in Message /\ m.label \in Det /\ Told(m)
      /\ KeyOf[d] = m.dest /\ period[d] # 0
    BY DEF Inv, TypeOK, MessageInv, Message
<1>3. MessageInv'
    <2>1. \A n : Told(n) <=> Told(n)'
        BY <1>1 DEF Told, Carries, Closed
    <2>2. \A s \in Server, k \in Key : cache'[s][k] # NONE =>
              cache'[s][k].dest = k /\ Told(cache[s][k])'
        BY <1>1 DEF Inv, MessageInv, Told, Carries, Closed
    <2> QED
        BY <1>1, <2>1, <2>2 DEF Inv, MessageInv
<1> DEFINE Goal == /\ \A e \in Det : Carries(public'[e], e)
                   /\ \A e \in Det : collected'[e] # 0 => LeastOnCycle(e)
                   /\ \A e \in starting' : collected'[e] # 0
                   /\ \A e \in Det : collected[e] # 0 => collected'[e] # 0
<1>4. ASSUME ApplyLCLP(d, m)
      PROVE  Goal
    BY <1>4 DEF ApplyLCLP, Inv, NodeInv, CollectorInv, CollectorLeastOnCycle
<1>5. ASSUME ApplyLCLS(d, m)
      PROVE  Goal
    <2>1. \A e \in Det : Carries(public[e], e)
        BY DEF Inv, NodeInv
    <2>2. ASSUME LabelLess(m.label, public[d])
          PROVE  Carries(m.label, d)
        <3>1. public[d] \in Det
            BY <1>2 DEF Inv, TypeOK
        <3>2. public[d] = d \/ LabelLess(public[d], d)
            BY <1>2, <2>1, <3>1, CarriedIsLess
        <3>3. LabelLess(m.label, d)
            BY <1>2, <2>2, <3>1, <3>2, LabelOrder
        <3>4. PICK c \in Det : Carries(m.label, c) /\ <<c, m.dest>> \in waited
            BY <1>2 DEF Told
        <3> QED
            BY <1>2, <3>3, <3>4, CarriedOn
    <2>3. \A e \in Det : \/ public'[e] = public[e]
                         \/ /\ e = d /\ public'[e] = m.label
                            /\ LabelLess(m.label, public[d])
        BY <1>5 DEF ApplyLCLS, Inv, TypeOK
    <2>4. \A e \in Det : Carries(public'[e], e)
        BY <2>1, <2>2, <2>3
    <2>5. \A e \in Det : collected[e] # 0 => LeastOnCycle(e)
        BY DEF Inv, CollectorInv, CollectorLeastOnCycle
    <2>6. CASE Detects(d, m) /\ collected[d] # period[d]
        <3>1. /\ collected' = [collected EXCEPT ![d] = period[d]]
              /\ starting' = starting \cup {d}
            BY <1>5, <2>6 DEF ApplyLCLS
        <3>2. m.label = d
            BY <2>6 DEF Detects
        <3>3. LeastOnCycle(d)
            BY <1>2, <3>2 DEF Told, LeastOnCycle
        <3>4. collected \in [Det -> Nat] /\ starting \subseteq Det
            BY DEF Inv, TypeOK
        <3>5. \A e \in starting : collected[e] # 0
            BY DEF Inv, CollectorInv
        <3>6. \A e \in Det : \/ collected'[e] = collected[e]
                             \/ e = d /\ collected'[e] = period[d]
            BY <3>1, <3>4
        <3>7. collected'[d] = period[d]
            BY <1>2, <3>1, <3>4
        <3> QED
            BY <1>2, <2>4, <2>5, <3>1, <3>3, <3>4, <3>5, <3>6, <3>7
    <2>7. CASE ~(Detects(d, m) /\ collected[d] # period[d])
        <3>1. UNCHANGED <<collected, starting>>
            BY <1>5, <2>7 DEF ApplyLCLS
        <3> QED
            BY <2>4, <2>5, <3>1 DEF Inv, CollectorInv
    <2> QED
        BY <2>6, <2>7
<1>6. Goal
    BY <1>4, <1>5 DEF Apply
<1>7. NodeInv'
    BY <1>1, <1>6 DEF Inv, NodeInv, Carries, Closed
<1>8. CollectorInv'
    BY <1>1, <1>6
    DEF CollectorInv, CollectorLeastOnCycle, LeastOnCycle, Carries, Closed
<1>9. PathInv'
    BY <1>1, <1>6, PathFrame
<1>10. PhaseInv'
    BY <1>1 DEF Inv, PhaseInv
<1> QED
    BY <1>3, <1>7, <1>8, <1>9, <1>10 DEF Inv

\* A message that a node sends on has followed its path one wait further.
LEMMA ForwardKeeps ==
    ASSUME Inv, NEW d \in Det, NEW p \in Seq(Det), ~OnPath(d, p),
           Len(p) > 0 => /\ IsPath(p) /\ <<p[Len(p)], KeyOf[d]>> \in waited
                         /\ collected[p[1]] # 0,
           Len(p) = 0 => collected[d] # 0,
           NEW c \in Forward(d, p)
    PROVE  /\ IsPath(c.path)
           /\ <<c.path[Len(c.path)], c.dest>> \in waited
           /\ collected[c.path[1]] # 0
<1> DEFINE q == Append(p, d)
<1>1. c.path = q /\ c.dest \in block[d]
    BY DEF Forward
<1>2. /\ Len(q) = Len(p) + 1 /\ Len(p) \in Nat
      /\ \A i \in 1..Len(p) : q[i] = p[i]
      /\ q[Len(q)] = d
    OBVIOUS
<1>3. <<d, c.dest>> \in waited
    BY <1>1 DEF Inv, NodeInv
<1>4. \A i \in 1..Len(p) : p[i] # d
    BY DEF OnPath
<1>5. \A i, j \in 1..Len(q) : q[i] = q[j] => i = j
    <2> SUFFICES ASSUME NEW i \in 1..Len(q), NEW j \in 1..Len(q), q[i] = q[j]
                 PROVE  i = j
        OBVIOUS
    <2>1. CASE i = Len(q)
        BY <1>2, <1>4, <2>1
    <2>2. CASE j = Len(q)
        BY <1>2, <1>4, <2>2
    <2>3. CASE i # Len(q) /\ j # Len(q)
        <3>1. i \in 1..Len(p) /\ j \in 1..Len(p) /\ Len(p) > 0
            BY <1>2, <2>3
        <3> QED
            BY <1>2, <3>1 DEF IsPath
    <2> QED
        BY <2>1, <2>2, <2>3
<1>6. \A i \in 1..(Len(q) - 1) : <<q[i], KeyOf[q[i + 1]]>> \in waited
    <2> SUFFICES ASSUME NEW i \in 1..(Len(q) - 1)
                 PROVE  <<q[i], KeyOf[q[i + 1]]>> \in waited
        OBVIOUS
    <2>1. i \in 1..Len(p) /\ Len(p) > 0
        BY <1>2
    <2>2. CASE i = Len(p)
        BY <1>2, <2>1, <2>2
    <2>3. CASE i # Len(p)
        <3>1. i \in 1..(Len(p) - 1) /\ i + 1 \in 1..Len(p)
            BY <1>2, <2>1, <2>3
        <3>2. q[i] = p[i] /\ q[i + 1] = p[i + 1]
            BY <1>2, <2>1, <3>1
        <3> QED
            BY <2>1, <3>1, <3>2 DEF IsPath
    <2> QED
        BY <2>2, <2>3
<1>7. IsPath(q)
    BY <1>2, <1>5, <1>6 DEF IsPath
<1>8. collected[q[1]] # 0
    <2>1. CASE Len(p) = 0
        BY <1>2, <2>1
    <2>2. CASE Len(p) > 0
        BY <1>2, <2>2
    <2> QED
        BY <1>2, <2>1, <2>2
<1> QED
    BY <1>1, <1>2, <1>3, <1>7, <1>8

\* A node that has found a cycle sends an empty message along its waits.
LEMMA StartCollectKeeps ==
    ASSUME Inv, NEW d \in Det, StartCollect(d), TypeOK'
    PROVE  Inv'
<1>1. UNCHANGED <<waited, block, public, snap, cache, net, hand, period,
                  collected, victims, phase>>
    BY DEF StartCollect, nodeVars, lclVars
<1>2. NodeInv'
    BY <1>1, NodeFrame DEF Inv, NodeInv
<1>3. MessageInv'
    BY <1>1, MessageFrame
<1>4. CollectorInv'
    BY <1>1
    DEF StartCollect, Inv, CollectorInv, CollectorLeastOnCycle, LeastOnCycle,
        Carries, Closed
<1>5. collected[d] # 0
    BY DEF StartCollect, Inv, CollectorInv
<1>6. <<>> \in Seq(Det) /\ Len(<<>>) = 0 /\ ~OnPath(d, <<>>)
    BY DEF OnPath
<1>7. \A c \in Forward(d, <<>>) :
        /\ IsPath(c.path) /\ <<c.path[Len(c.path)], c.dest>> \in waited
        /\ collected[c.path[1]] # 0
    <2> DEFINE p == <<>>
    <2>1. p \in Seq(Det) /\ ~(Len(p) > 0) /\ ~OnPath(d, p)
        BY <1>6
    <2> HIDE DEF p
    <2> SUFFICES ASSUME NEW c \in Forward(d, p)
                 PROVE  /\ IsPath(c.path)
                        /\ <<c.path[Len(c.path)], c.dest>> \in waited
                        /\ collected[c.path[1]] # 0
        BY DEF p
    <2> QED
        BY <1>5, <2>1, ForwardKeeps
<1>8. PathInv'
    <2>1. collects' = collects \cup Forward(d, <<>>)
        BY DEF StartCollect
    <2>2. \A c \in collects' :
            /\ IsPath(c.path) /\ <<c.path[Len(c.path)], c.dest>> \in waited
            /\ collected[c.path[1]] # 0
        BY <1>7, <2>1 DEF Inv, PathInv
    <2>3. VictimOnCycle'
        BY <1>1, VictimFrame DEF VictimOnCycle
    <2> QED
        BY <1>1, <2>2, <2>3 DEF PathInv, IsPath
<1>9. PhaseInv'
    BY <1>1 DEF Inv, PhaseInv
<1> QED
    BY <1>2, <1>3, <1>4, <1>8, <1>9 DEF Inv

\* A message that is back has gone round a cycle; another goes on.
LEMMA ReceiveCollectKeeps ==
    ASSUME Inv, NEW c \in collects, ReceiveCollect(c), TypeOK'
    PROVE  Inv'
<1>1. UNCHANGED <<waited, public, snap, cache, net, hand, period, collected,
                  starting, phase>>
    BY DEF ReceiveCollect, lclVars
<1>2. /\ c.path \in Seq(Det) /\ IsPath(c.path)
      /\ <<c.path[Len(c.path)], c.dest>> \in waited
      /\ collected[c.path[1]] # 0
    BY DEF Inv, TypeOK, Collect, PathInv
<1> DEFINE GoodPath(e) == /\ IsPath(e.path)
                          /\ <<e.path[Len(e.path)], e.dest>> \in waited
                          /\ collected[e.path[1]] # 0
           GoodVictim(v) == /\ v.path[1] = v.node
                            /\ collected[v.node] # 0
                            /\ IsCycle(v.path)
                            /\ HasLowestPriority(v.path)
           Goal == /\ \A e \in Det : block'[e] \subseteq block[e]
                   /\ \A e \in collects' : GoodPath(e)
                   /\ \A v \in victims' : GoodVictim(v)
<1>3. /\ \A e \in collects : GoodPath(e)
      /\ \A v \in victims : GoodVictim(v)
    BY DEF Inv, PathInv, VictimOnCycle
<1>4. ASSUME collects' = collects \ {c}, UNCHANGED <<victims, block>>
      PROVE  Goal
    BY <1>3, <1>4
<1>5. ASSUME NEW d \in alive, KeyOf[d] = c.dest, IsBack(d, c.path),
             Complete(d, c.path), collects' = collects \ {c}
      PROVE  Goal
    <2>1. Len(c.path) \in Nat /\ Len(c.path) > 0 /\ c.path[1] = d
        BY <1>2, <1>5 DEF IsPath, IsBack
    <2>2. IsCycle(c.path)
        <3> SUFFICES ASSUME NEW i \in 1..Len(c.path)
                     PROVE  <<c.path[i], KeyOf[c.path[
                                IF i = Len(c.path) THEN 1 ELSE i + 1]]>>
                            \in waited
            BY <1>2, <2>1 DEF IsCycle, IsPath
        <3>1. CASE i = Len(c.path)
            BY <1>2, <1>5, <2>1, <3>1
        <3>2. CASE i # Len(c.path)
            <4>1. i \in 1..(Len(c.path) - 1)
                BY <2>1, <3>2
            <4> QED
                BY <1>2, <3>2, <4>1 DEF IsPath
        <3> QED
            BY <3>1, <3>2
    <2>3. \A e \in Det : block'[e] \subseteq block[e]
        <3>1. \/ block' = block
              \/ block' = [block EXCEPT ![d] = @ \ {NextOnCycle(c.path)}]
            BY <1>5 DEF Complete
        <3>2. block \in [Det -> SUBSET Key]
            BY DEF Inv, TypeOK
        <3> QED
            BY <3>1, <3>2
    <2>4. \A v \in victims' : GoodVictim(v)
        <3> DEFINE v0 == [node |-> d, path |-> c.path]
        <3>1. CASE HasLowestPriority(c.path) /\ victims' = victims \cup {v0}
            <4>1. GoodVictim(v0)
                BY <1>2, <2>1, <2>2, <3>1
            <4> QED
                BY <1>3, <3>1, <4>1
        <3>2. CASE victims' = victims
            BY <1>3, <3>2
        <3> QED
            BY <1>5, <3>1, <3>2 DEF Complete
    <2>5. \A e \in collects' : GoodPath(e)
        BY <1>3, <1>5
    <2> QED
        BY <2>3, <2>4, <2>5
<1>6. ASSUME NEW d \in alive, KeyOf[d] = c.dest, UNCHANGED <<victims, block>>,
             collects' = (collects \ {c})
                \cup (IF OnPath(d, c.path) THEN {} ELSE Forward(d, c.path))
      PROVE  Goal
    <2>1. d \in Det
        BY DEF Inv, TypeOK
    <2>2. Len(c.path) \in Nat /\ Len(c.path) > 0
        BY <1>2 DEF IsPath
    <2>3. ASSUME ~OnPath(d, c.path), NEW e \in Forward(d, c.path)
          PROVE  GoodPath(e)
        BY <1>2, <1>6, <2>1, <2>2, <2>3, ForwardKeeps
    <2>4. \A e \in collects' : GoodPath(e)
        BY <1>3, <1>6, <2>3
    <2> QED
        BY <1>3, <1>6, <2>4
<1>7. Goal
    BY <1>4, <1>5, <1>6 DEF ReceiveCollect
<1>8. NodeInv'
    BY <1>1, <1>7, NodeFrame DEF Inv, NodeInv
<1>9. MessageInv' /\ CollectorInv'
    BY <1>1, MessageFrame, CollectorFrame
<1>10. PathInv'
    BY <1>1, <1>7 DEF PathInv, VictimOnCycle, IsPath, IsCycle
<1>11. PhaseInv'
    BY <1>1 DEF Inv, PhaseInv
<1> QED
    BY <1>8, <1>9, <1>10, <1>11 DEF Inv

-----------------------------------------------------------------------------
(* The theorems                                                              *)

\* Labels, messages and paths have followed waits: whatever users, timers,
\* sender threads and handlers do, the inductive invariant holds.
THEOREM DetectorInvariant == Spec => []Inv
<1>1. Init => Inv
    <2> SUFFICES ASSUME Init
                 PROVE  Inv
        OBVIOUS
    <2>1. TypeOK
        BY DetectorAssumption DEF Init, Fresh, TypeOK
    <2>2. NodeInv
        BY CarriesOwn DEF Init, Fresh, NodeInv
    <2>3. MessageInv
        BY DEF Init, Fresh, MessageInv
    <2>4. CollectorInv /\ PathInv
        BY DEF Init, Fresh, CollectorInv, CollectorLeastOnCycle, PathInv,
               VictimOnCycle
    <2>5. PhaseInv
        BY DetectorAssumption DEF Init, Fresh, PhaseInv
    <2> QED
        BY <2>1, <2>2, <2>3, <2>4, <2>5 DEF Inv
<1>2. Inv /\ [Next]_vars => Inv'
    <2> SUFFICES ASSUME Inv, [Next]_vars
                 PROVE  Inv'
        OBVIOUS
    <2>1. CASE UNCHANGED vars
        <3>1. UNCHANGED <<waited, block, public, snap, cache, net, hand, period,
                          collected, starting, collects, victims, phase>>
            BY <2>1 DEF vars, nodeVars, lclVars
        <3>2. TypeOK'
            BY <2>1 DEF Inv, TypeOK, vars, nodeVars, lclVars
        <3>3. NodeInv'
            BY <3>1, NodeFrame DEF Inv, NodeInv
        <3>4. MessageInv' /\ CollectorInv' /\ PathInv'
            BY <3>1, MessageFrame, CollectorFrame, PathFrame
        <3>5. PhaseInv'
            BY <3>1 DEF Inv, PhaseInv
        <3> QED
            BY <3>2, <3>3, <3>4, <3>5 DEF Inv
    <2>2. CASE Detect
        <3>1. TypeOK'
            BY <2>2, DetectType DEF Inv
        <3> QED
            BY <2>2, <3>1, TakeSnapshotKeeps, BroadcastKeeps,
               StartCollectKeeps, TickKeeps, FlushKeeps, ReceiveKeeps,
               ApplyKeeps, ReceiveCollectKeeps
            DEF Detect
    <2>3. ASSUME NEW d \in Det, User(d)
          PROVE  Inv'
        BY <2>3, UserKeeps
    <2> QED
        BY <2>1, <2>2, <2>3 DEF Next
<1> QED
    BY <1>1, <1>2, PTL DEF Spec

\* Only a node with the least label of a cycle of waits starts to collect, for
\* any keys, servers, priorities and waits, and however late the messages are.
THEOREM DetectorCollectors == Spec => []CollectorLeastOnCycle
<1>1. Inv => CollectorLeastOnCycle
    BY DEF Inv, CollectorInv
<1> QED
    BY <1>1, DetectorInvariant, PTL

\* Whoever is killed had collected, and its message had gone round a cycle of
\* waits of which it has the lowest priority.
THEOREM DetectorVictims == Spec => []VictimOnCycle
<1>1. Inv => VictimOnCycle
    BY DEF Inv, PathInv
<1> QED
    BY <1>1, DetectorInvariant, PTL

-----------------------------------------------------------------------------
(* One victim in a cycle                                                     *)

\* A key is registered once, and its node waits for one other at most.
SingleWaits ==
    /\ \A d, e \in Det : KeyOf[d] = KeyOf[e] => d = e
    /\ \A d \in Det, k, l \in Key :
        <<d, k>> \in Waits /\ <<d, l>> \in Waits => k = l

\* The waits that may be formed lead from x to y.
Reaches(x, y) ==
    \A S \in SUBSET Det :
        /\ x \in S
        /\ \A d \in S, e \in Det : <<d, KeyOf[e]>> \in Waits => e \in S
        => y \in S

\* Two nodes that are killed are not on one cycle.
OneVictimPerCycle ==
    \A v, w \in victims :
        Reaches(v.node, w.node) /\ Reaches(w.node, v.node) => v.node = w.node

\* All nodes are on one cycle.
OneRing == \A x, y \in Det : Reaches(x, y)

\* Waits are formed as they may be.
WaitsInv == waited \subseteq Waits

\* The steps of the users form no other waits.
LEMMA WaitsKeep ==
    ASSUME Inv, WaitsInv, [Next]_vars
    PROVE  WaitsInv'
<1>1. ASSUME NEW d \in Det, NEW S, BlockOn(d, S), \A k \in S : <<d, k>> \in Waits
      PROVE  WaitsInv'
    BY <1>1 DEF BlockOn, WaitsInv
<1>2. \A d \in Det : \A k \in block[d] : <<d, k>> \in Waits
    BY DEF Inv, NodeInv, WaitsInv
<1>3. ASSUME NEW d \in Det, User(d)
      PROVE  WaitsInv'
    <2>1. CASE Register(d) \/ Unregister(d) \/ DecCountDown(d)
        BY <2>1 DEF Register, Unregister, DecCountDown, WaitsInv
    <2>2. CASE ActivateAll(d)
        BY <1>1, <2>2 DEF ActivateAll
    <2>3. ASSUME NEW k \in Key, Block(d, k)
          PROVE  WaitsInv'
        <3>1. PICK S : S = block[d] \cup {k}
            OBVIOUS
        <3>2. BlockOn(d, S) /\ \A l \in S : <<d, l>> \in Waits
            BY <1>2, <2>3, <3>1 DEF Block
        <3> QED
            BY <1>1, <3>2
    <2>4. ASSUME NEW k \in Key, Activate(d, k)
          PROVE  WaitsInv'
        <3>1. PICK S : S = block[d] \ {k}
            OBVIOUS
        <3>2. BlockOn(d, S) /\ \A l \in S : <<d, l>> \in Waits
            BY <1>2, <2>4, <3>1 DEF Activate
        <3> QED
            BY <1>1, <3>2
    <2>5. ASSUME NEW S \in SUBSET Key, ReplaceBlockList(d, S)
          PROVE  WaitsInv'
        BY <1>1, <2>5 DEF ReplaceBlockList
    <2> QED
        BY <1>3, <2>1, <2>2, <2>3, <2>4, <2>5 DEF User
<1>4. CASE Detect
    <2>1. waited' = waited
        BY <1>4 DEF Detect, TakeSnapshot, Broadcast, StartCollect, Tick, Flush,
                    Receive, Apply, ReceiveCollect
    <2> QED
        BY <2>1 DEF WaitsInv
<1>5. CASE UNCHANGED vars
    BY <1>5 DEF vars, WaitsInv
<1> QED
    BY <1>3, <1>4, <1>5 DEF Next

\* A label that has come back to its node has been carried by the whole cycle:
\* each node that it has come to has waited for another one of those.  If e had
\* not, the label would have come from y no further than to the nodes between y
\* and e, and c, which y follows, is none of them.
LEMMA RoundTheCycle ==
    ASSUME SingleWaits, TypeOK, WaitsInv,
           NEW y \in Det, LeastOnCycle(y), NEW e \in Det, Carries(y, e)
    PROVE  \E z \in Det : Carries(y, z) /\ <<e, KeyOf[z]>> \in waited
<1> SUFFICES ASSUME \A z \in Det : Carries(y, z) => <<e, KeyOf[z]>> \notin waited
             PROVE  FALSE
    OBVIOUS
<1>1. PICK c \in Det : Carries(y, c) /\ <<c, KeyOf[y]>> \in waited
    BY DEF LeastOnCycle
<1>2. c # e
    BY <1>1, CarriesOwn
<1>3. ASSUME NEW a \in Det, NEW b1 \in Det, NEW b2 \in Det,
             <<a, KeyOf[b1]>> \in waited, <<a, KeyOf[b2]>> \in waited
      PROVE  b1 = b2
    <2>1. KeyOf[b1] \in Key /\ KeyOf[b2] \in Key
        BY DetectorAssumption
    <2> QED
        BY <1>3, <2>1 DEF SingleWaits, WaitsInv
<1> DEFINE Back(T) == /\ e \in T
                      /\ \A a \in Det, b \in T :
                            b # y /\ <<a, KeyOf[b]>> \in waited => a \in T
           S == {d \in Det : \A T \in SUBSET Det : Back(T) => d \in T}
<1>4. S \in SUBSET Det /\ e \in S
    OBVIOUS
<1>5. ASSUME NEW a \in Det, NEW b \in S, b # y, <<a, KeyOf[b]>> \in waited
      PROVE  a \in S
    <2>1. ASSUME NEW T \in SUBSET Det, Back(T)
          PROVE  a \in T
        <3>1. b \in T
            BY <2>1
        <3> QED
            BY <1>5, <2>1, <3>1
    <2> QED
        BY <2>1
<1>6. Back(S)
    BY <1>4, <1>5
<1>7. ASSUME NEW x \in S, x # e, NEW b \in Det, <<x, KeyOf[b]>> \in waited
      PROVE  b \in S /\ b # y
    <2> SUFFICES ASSUME b \notin S \/ b = y
                 PROVE  FALSE
        OBVIOUS
    <2> DEFINE T == S \ {x}
    <2>1. T \in SUBSET Det /\ e \in T
        BY <1>4, <1>7
    <2>2. ASSUME NEW a \in Det, NEW b1 \in T, b1 # y, <<a, KeyOf[b1]>> \in waited
          PROVE  a \in T
        <3>1. a \in S /\ b1 \in S /\ b1 \in Det
            BY <1>4, <1>5, <2>2
        <3>2. CASE a = x
            <4>1. b1 = b
                BY <1>3, <1>7, <2>2, <3>1, <3>2
            <4> QED
                BY <2>2, <3>1, <4>1
        <3> QED
            BY <3>1, <3>2
    <2>3. Back(T)
        BY <2>1, <2>2
    <2>4. x \in T
        BY <2>1, <2>3
    <2> QED
        BY <2>4
<1> HIDE DEF S, Back
<1>8. c \notin S
    <2>1. c \in S => y # y
        BY <1>1, <1>2, <1>7
    <2> QED
        BY <2>1
<1>9. ASSUME NEW b \in Det, LabelLess(y, b), <<y, KeyOf[b]>> \in waited
      PROVE  b \in S
    <2> SUFFICES ASSUME b \notin S
                 PROVE  FALSE
        OBVIOUS
    <2> DEFINE T == {d \in Det : LabelLess(y, d) /\ d \notin S}
    <2>1. ASSUME NEW d \in Det, LabelLess(y, d),
                 NEW a \in T \cup {y}, <<a, KeyOf[d]>> \in waited
          PROVE  d \in T
        <3>1. CASE a = y
            BY <1>3, <1>9, <2>1, <3>1
        <3>2. CASE a \in T
            <4>1. d # y
                BY <2>1, LabelOrder
            <4>2. d \notin S
                BY <1>5, <2>1, <3>2, <4>1
            <4> QED
                BY <2>1, <4>2
        <3> QED
            BY <2>1, <3>1, <3>2
    <2>2. Closed(y, T) /\ T \in SUBSET Det
        BY <2>1 DEF Closed
    <2>3. e = y \/ e \in T
        BY <2>2 DEF Carries
    <2>4. CASE e = y
        <3>1. Carries(y, b)
            BY <1>9, CarriedOn, CarriesOwn
        <3> QED
            BY <1>9, <2>4, <3>1
    <2> QED
        BY <1>4, <2>3, <2>4
<1>10. Closed(y, S)
    <2>1. ASSUME NEW d \in Det, LabelLess(y, d),
                 NEW a \in S \cup {y}, <<a, KeyOf[d]>> \in waited
          PROVE  d \in S
        <3>1. CASE a = y
            BY <1>9, <2>1, <3>1
        <3>2. CASE a \in S /\ a # e
            BY <1>7, <2>1, <3>2
        <3>3. CASE a = e
            <4>1. Carries(y, d)
                BY <2>1, <3>3, CarriedOn
            <4> QED
                BY <2>1, <3>3, <4>1
        <3> QED
            BY <2>1, <3>1, <3>2, <3>3
    <2> QED
        BY <2>1 DEF Closed
<1>11. c = y
    BY <1>1, <1>4, <1>8, <1>10 DEF Carries
<1>12. Closed(y, {})
    <2>1. ASSUME NEW d \in Det, LabelLess(y, d), <<y, KeyOf[d]>> \in waited
          PROVE  FALSE
        <3>1. d = y
            BY <1>1, <1>3, <1>11, <2>1
        <3> QED
            BY <2>1, <3>1, LabelOrder
    <2> QED
        BY <2>1 DEF Closed
<1>13. e = y
    BY <1>12 DEF Carries
<1> QED
    BY <1>2, <1>11, <1>13

\* Of all nodes that a collector can reach, it has the least label.
LEMMA LeastOfAll ==
    ASSUME SingleWaits, TypeOK, WaitsInv,
           NEW y \in Det, LeastOnCycle(y), NEW x \in Det, Reaches(y, x)
    PROVE  x = y \/ LabelLess(y, x)
<1> DEFINE S == {d \in Det : Carries(y, d)}
<1>1. y \in S /\ S \in SUBSET Det
    BY CarriesOwn
<1>2. ASSUME NEW d \in S, NEW e \in Det, <<d, KeyOf[e]>> \in Waits
      PROVE  e \in S
    <2>1. PICK z \in Det : Carries(y, z) /\ <<d, KeyOf[z]>> \in waited
        BY RoundTheCycle
    <2>2. KeyOf[z] \in Key /\ KeyOf[e] \in Key /\ <<d, KeyOf[z]>> \in Waits
        BY <2>1, DetectorAssumption DEF WaitsInv
    <2>3. z = e
        BY <1>2, <2>2 DEF SingleWaits
    <2> QED
        BY <2>1, <2>3
<1>3. x \in S
    BY <1>1, <1>2 DEF Reaches
<1> QED
    BY <1>3, CarriedIsLess

\* When a node waits for one other at most, no two nodes on a cycle are killed:
\* however the threads and the messages of several periods interleave, and
\* whatever waits come and go, only the node with the least label collects.
THEOREM DetectorOneVictimPerCycle ==
    ASSUME SingleWaits
    PROVE  Spec => []OneVictimPerCycle
<1>1. Init => WaitsInv
    BY DEF Init, WaitsInv
<1>2. Inv /\ WaitsInv => OneVictimPerCycle
    <2> SUFFICES ASSUME Inv, WaitsInv, NEW v \in victims, NEW w \in victims,
                        Reaches(v.node, w.node), Reaches(w.node, v.node)
                 PROVE  v.node = w.node
        BY DEF OneVictimPerCycle
    <2>1. TypeOK /\ v.node \in Det /\ w.node \in Det
        BY DEF Inv, TypeOK
    <2>2. LeastOnCycle(v.node) /\ LeastOnCycle(w.node)
        BY <2>1 DEF Inv, PathInv, VictimOnCycle, CollectorInv, CollectorLeastOnCycle
    <2>3. \/ v.node = w.node
          \/ LabelLess(v.node, w.node) /\ LabelLess(w.node, v.node)
        BY <2>1, <2>2, LeastOfAll
    <2> QED
        BY <2>1, <2>3, LabelOrder
<1>3. Inv /\ WaitsInv /\ [Next]_vars => WaitsInv'
    BY WaitsKeep
<1> QED
    BY <1>1, <1>2, <1>3, DetectorInvariant, PTL DEF Spec

\* When all nodes wait in one ring, no more than one of them is killed.
THEOREM DetectorOneVictim ==
    ASSUME SingleWaits, OneRing
    PROVE  Spec => []OneVictim
<1>1. TypeOK /\ OneVictimPerCycle => OneVictim
    BY DEF TypeOK, OneVictimPerCycle, OneVictim, OneRing
<1> QED
    BY <1>1, DetectorTypes, DetectorOneVictimPerCycle, PTL
=============================================================================
