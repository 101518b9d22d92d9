-------------------------- MODULE SchedulerProofs ---------------------------
(***************************************************************************)
(* Proofs about Scheduler, for any finite sets of pods and nodes, any SLOs *)
(* and any number of upsets.  First what the cache and the queue keep of   *)
(* themselves, by their operations (IInv); then that snapshots are fresh   *)
(* and claims held (LedgerInv), that the whole implements SloLedger, and   *)
(* so over-commits no node; last that no pod misses a wake-up (WaitInv).   *)
(***************************************************************************)
EXTENDS Scheduler, SumProofs

-----------------------------------------------------------------------------
(* the queue *)

\* What movePodsToActiveOrBackoffQueue moves comes from unschedulableQ.
LEMMA MoveOneQueue ==
    ASSUME OneQueue, NEW P \in SUBSET unschedulableQ, movePods(P)
    PROVE  OneQueue'
  BY DEF OneQueue, movePods

\* What is moved stays in the queue.
LEMMA MoveTypes ==
    ASSUME QueueTypeOK, NEW P \in SUBSET unschedulableQ, movePods(P)
    PROVE  QueueTypeOK'
  <1>1. \A p \in Pods : retry'[p] \in SUBSET [step : {"get", "add"}, moved : BOOLEAN]
    <2> SUFFICES ASSUME NEW p \in Pods
                 PROVE  \A r \in retry[p] :
                            [r EXCEPT !.moved = TRUE] \in [step : {"get", "add"}, moved : BOOLEAN]
      BY DEF movePods
    <2>1. retry[p] \subseteq [step : {"get", "add"}, moved : BOOLEAN]
      BY DEF QueueTypeOK
    <2>2. \A r \in [step : {"get", "add"}, moved : BOOLEAN] :
              [r EXCEPT !.moved = TRUE] \in [step : {"get", "add"}, moved : BOOLEAN]
      OBVIOUS
    <2>q. QED
      BY <2>1, <2>2
  <1>2. retry' \in [Pods -> SUBSET [step : {"get", "add"}, moved : BOOLEAN]]
    BY <1>1 DEF movePods
  <1>3. Queued' \subseteq Pods /\ moved' \in BOOLEAN
    BY DEF movePods, QueueTypeOK, Queued
  <1>q. QED
    BY <1>2, <1>3 DEF QueueTypeOK

QueueOp(p) ==
    \/ Add(p) \/ Pop(p) \/ Delete(p) \/ (\E c \in BOOLEAN : Update(p, c))
    \/ flushBackoffQCompleted(p) \/ flushUnschedulableQLeftover(p)
    \/ AddUnschedulableIfNotPresent(p)
    \/ \E pending \in BOOLEAN : GetPod(p, pending)
    \/ retry' = Failed(p) /\ UNCHANGED <<activeQ, backoffQ, unschedulableQ, moved>>
    \/ UNCHANGED queueVars

\* Every operation of the queue keeps its types, and a pod in one queue at most.
LEMMA QueueOpsInv ==
    ASSUME QueueTypeOK, OneQueue, NEW p \in Pods, QueueOp(p)
    PROVE  QueueTypeOK' /\ OneQueue'
  <1>1. CASE Add(p)
    BY <1>1 DEF OneQueue, QueueTypeOK, Queued, Add
  <1>2. CASE Pop(p)
    BY <1>2 DEF OneQueue, QueueTypeOK, Queued, Pop
  <1>3. CASE Delete(p)
    BY <1>3 DEF OneQueue, QueueTypeOK, Queued, Delete
  <1>4. CASE \E c \in BOOLEAN : Update(p, c)
    BY <1>4 DEF OneQueue, QueueTypeOK, Queued, Update, queueVars
  <1>5. CASE flushBackoffQCompleted(p)
    BY <1>5 DEF OneQueue, QueueTypeOK, Queued, flushBackoffQCompleted
  <1>6. CASE flushUnschedulableQLeftover(p)
    BY <1>6, MoveOneQueue, MoveTypes DEF flushUnschedulableQLeftover
  <1>7. CASE AddUnschedulableIfNotPresent(p)
    BY <1>7 DEF OneQueue, QueueTypeOK, Queued, AddUnschedulableIfNotPresent
  <1>8. CASE \E pending \in BOOLEAN : GetPod(p, pending)
    <2>1. PICK pending \in BOOLEAN, r \in retry[p] :
              /\ r.step = "get"
              /\ retry' = [retry EXCEPT ![p] =
                     (@ \ {r}) \cup (IF pending THEN {[r EXCEPT !.step = "add"]} ELSE {})]
      BY <1>8 DEF GetPod
    <2>2. r \in [step : {"get", "add"}, moved : BOOLEAN]
      BY <2>1 DEF QueueTypeOK
    <2>3. [r EXCEPT !.step = "add"] \in [step : {"get", "add"}, moved : BOOLEAN]
      BY <2>2
    <2>q. QED
      BY <1>8, <2>1, <2>3 DEF OneQueue, QueueTypeOK, Queued, GetPod
  <1>9. CASE retry' = Failed(p) /\ UNCHANGED <<activeQ, backoffQ, unschedulableQ, moved>>
    BY <1>9 DEF OneQueue, QueueTypeOK, Queued, Failed
  <1>10. CASE UNCHANGED queueVars
    BY <1>10 DEF OneQueue, QueueTypeOK, Queued, queueVars
  <1>q. QED
    BY <1>1, <1>2, <1>3, <1>4, <1>5, <1>6, <1>7, <1>8, <1>9, <1>10 DEF QueueOp

\* So do a restart and the moves of all pods.
LEMMA QueueAllInv ==
    ASSUME QueueTypeOK, OneQueue,
           \/ AssignedPod \/ MoveAllToActiveOrBackoffQueue
           \/ \E P \in SUBSET Pods : RestartQueue(P)
           \/ UNCHANGED queueVars
    PROVE  QueueTypeOK' /\ OneQueue'
  <1>1. CASE AssignedPod
    BY <1>1, MoveOneQueue, MoveTypes DEF AssignedPod
  <1>2. CASE MoveAllToActiveOrBackoffQueue
    BY <1>2, MoveOneQueue, MoveTypes DEF MoveAllToActiveOrBackoffQueue
  <1>3. CASE \E P \in SUBSET Pods : RestartQueue(P)
    BY <1>3 DEF OneQueue, QueueTypeOK, Queued, RestartQueue
  <1>4. CASE UNCHANGED queueVars
    BY <1>4 DEF OneQueue, QueueTypeOK, Queued, queueVars
  <1>q. QED
    BY <1>1, <1>2, <1>3, <1>4

-----------------------------------------------------------------------------
(* the cache *)

NodeItems == [Nodes -> [st : {"absent", "nil", "plain", "slo"}, pods : SUBSET Pods]]

\* a pod has no state, or one on a node
States ==
    \A p \in Pods : \/ podStates[p] = NoState
                    \/ podStates[p].st # "none" /\ podStates[p].node \in Nodes

\* what is not cached holds no pod
Empties == \A n \in Nodes : nodes[n].st = "absent" => nodes[n].pods = {}

CacheInv == CacheTypeOK /\ States /\ Empties

\* addPod adds the pod to the item, which exists from then on, and changes no other item.
LEMMA AddPodFacts ==
    ASSUME NEW items \in NodeItems, NEW n \in Nodes, NEW p \in Pods
    PROVE  /\ addPod(items, n, p) \in NodeItems
           /\ addPod(items, n, p)[n].st # "absent"
           /\ addPod(items, n, p)[n].pods = items[n].pods \cup {p}
           /\ \A m \in Nodes \ {n} : addPod(items, n, p)[m] = items[m]
           /\ items[n].st # "absent" => addPod(items, n, p)[n].st = items[n].st
  BY DEF addPod, NodeItems

\* removePod takes the pod from the item and changes nothing else.
LEMMA RemovePodFacts ==
    ASSUME NEW items \in NodeItems, NEW n \in Nodes, NEW p \in Pods
    PROVE  /\ removePod(items, n, p) \in NodeItems
           /\ removePod(items, n, p)[n].pods = items[n].pods \ {p}
           /\ removePod(items, n, p)[n].st = items[n].st
           /\ \A m \in Nodes \ {n} : removePod(items, n, p)[m] = items[m]
  BY DEF removePod, NodeItems

\* Dropping a pod that has a state keeps the cache well formed, and gives the pod no other
\* state than none.
LEMMA DropInv ==
    ASSUME CacheInv, NEW p \in Pods, podStates[p] # NoState, Drop(p)
    PROVE  /\ CacheInv'
           /\ podStates' \in {podStates, [podStates EXCEPT ![p] = NoState]}
  <1> DEFINE n == podStates[p].node
  <1>1. n \in Nodes /\ nodes \in NodeItems /\ dirty \subseteq Cached(nodes)
    BY DEF CacheInv, CacheTypeOK, States, NodeItems
  <1>2. nodes' = removePod(nodes, n, p) /\ snapshot' = snapshot
    BY DEF Drop
  <1> HIDE DEF n
  <1>3. nodes' \in NodeItems /\ \A m \in Nodes : nodes'[m].st = nodes[m].st
                                               /\ nodes'[m].pods \subseteq nodes[m].pods
    BY <1>1, <1>2, RemovePodFacts
  <1>4. podStates' \in {podStates, [podStates EXCEPT ![p] = NoState]}
    BY DEF Drop, n
  <1>5. CacheTypeOK'
    <2>1. podStates' \in [Pods -> [node : Nodes \cup {NoNode},
                                   st : {"none", "assumed", "expirable", "added"}]]
      BY <1>4 DEF CacheInv, CacheTypeOK, NoState
    <2>2. dirty' \subseteq Cached(nodes)
      BY <1>1 DEF Drop, Cached, CacheInv, Empties, n
    <2>3. Cached(nodes') = Cached(nodes)
      BY <1>3 DEF Cached
    <2>4. panicked' \in BOOLEAN
      BY DEF Drop, RemovePanics
    <2>q. QED
      BY <1>2, <1>3, <2>1, <2>2, <2>3, <2>4 DEF CacheInv, CacheTypeOK, NodeItems
  <1>6. States'
    BY <1>4 DEF States, CacheInv, CacheTypeOK
  <1>7. Empties'
    BY <1>3 DEF CacheInv, Empties
  <1>q. QED
    BY <1>4, <1>5, <1>6, <1>7 DEF CacheInv

\* Every operation on pods keeps the cache well formed.
LEMMA PodOpsInv ==
    ASSUME CacheInv, NEW p \in Pods, NEW n,
           \/ n \in Nodes /\ (AssumePod(p, n) \/ AddPod(p, n))
           \/ FinishBinding(p) \/ UpdatePod(p) \/ RemovePod(p) \/ expirePod(p)
    PROVE  CacheInv'
  <1>1. nodes \in NodeItems /\ dirty \subseteq Cached(nodes)
    BY DEF CacheInv, CacheTypeOK, NodeItems
  <1>2. ASSUME n \in Nodes, NEW items \in NodeItems, nodes' = addPod(items, n, p),
               \A m \in Nodes : /\ items[m].st = nodes[m].st
                                /\ nodes[m].pods = {} => items[m].pods = {},
               NEW D \in SUBSET Cached(nodes), dirty' = dirty \cup {n} \cup D,
               panicked' \in BOOLEAN, snapshot' = snapshot,
               NEW s \in {"assumed", "added"},
               podStates' = [podStates EXCEPT ![p] = [node |-> n, st |-> s]]
        PROVE  CacheInv'
    <2>1. nodes' \in NodeItems /\ Cached(nodes) \cup {n} \subseteq Cached(nodes')
      BY <1>2, AddPodFacts DEF Cached
    <2>2. Empties'
      BY <1>2, AddPodFacts DEF CacheInv, Empties
    <2>3. dirty' \subseteq Cached(nodes')
      BY <1>1, <1>2, <2>1
    <2>4. States' /\ podStates' \in [Pods -> [node : Nodes \cup {NoNode},
                                           st : {"none", "assumed", "expirable", "added"}]]
      BY <1>2 DEF CacheInv, CacheTypeOK, States
    <2>q. QED
      BY <1>2, <2>1, <2>2, <2>3, <2>4 DEF CacheInv, CacheTypeOK, NodeItems
  <1>3. ASSUME UNCHANGED <<nodes, dirty, snapshot, panicked>>, NEW s \in {"expirable", "added"},
               podStates' = [podStates EXCEPT ![p].st = s], IsAssumedPod(p)
        PROVE  CacheInv'
    <2>1. podStates' \in [Pods -> [node : Nodes \cup {NoNode},
                                   st : {"none", "assumed", "expirable", "added"}]]
      BY <1>3 DEF CacheInv, CacheTypeOK
    <2>2. States'
      BY <1>3 DEF CacheInv, CacheTypeOK, States, IsAssumedPod, NoState
    <2>q. QED
      BY <1>3, <2>1, <2>2 DEF CacheInv, CacheTypeOK, Empties, Cached
  <1>4. ASSUME UNCHANGED cacheVars
        PROVE  CacheInv'
    BY <1>4 DEF cacheVars, CacheInv, CacheTypeOK, States, Empties, Cached
  <1>5. CASE n \in Nodes /\ AssumePod(p, n)
    BY <1>1, <1>2, <1>5 DEF AssumePod, CacheInv, CacheTypeOK
  <1>6. CASE FinishBinding(p)
    BY <1>3, <1>4, <1>6 DEF FinishBinding, cacheVars
  <1>7. CASE n \in Nodes /\ AddPod(p, n)
    <2> DEFINE old == podStates[p]
    <2>1. CASE IsAssumedPod(p) /\ old.node # n
      <3>1. old.node \in Nodes
        BY <2>1 DEF IsAssumedPod, CacheInv, States, NoState
      <3>2. removePod(nodes, old.node, p) \in NodeItems
        BY <1>1, <3>1, RemovePodFacts
      <3>3. \A m \in Nodes : /\ removePod(nodes, old.node, p)[m].st = nodes[m].st
                             /\ nodes[m].pods = {} => removePod(nodes, old.node, p)[m].pods = {}
        BY <1>1, <3>1, RemovePodFacts
      <3>4. (IF p \in nodes[old.node].pods THEN {old.node} ELSE {}) \in SUBSET Cached(nodes)
        BY <3>1 DEF Cached, CacheInv, Empties
      <3>5. RemovePanics(old.node, p) \in BOOLEAN
        BY DEF RemovePanics
      <3>6. /\ panicked' = RemovePanics(old.node, p)
            /\ nodes' = addPod(removePod(nodes, old.node, p), n, p)
            /\ dirty' = dirty \cup {n} \cup (IF p \in nodes[old.node].pods
                                            THEN {old.node} ELSE {})
            /\ podStates' = [podStates EXCEPT ![p] = [node |-> n, st |-> "added"]]
            /\ snapshot' = snapshot
        BY <1>7, <2>1 DEF AddPod, IsAssumedPod, NoState
      <3>q. QED
        BY <1>2, <1>7, <3>2, <3>3, <3>4, <3>5, <3>6
    <2>2. CASE IsAssumedPod(p) /\ old.node = n
      <3>1. /\ podStates' = [podStates EXCEPT ![p].st = "added"]
            /\ UNCHANGED <<nodes, dirty, snapshot, panicked>>
        BY <1>7, <2>2 DEF AddPod, IsAssumedPod, NoState
      <3>q. QED
        BY <1>3, <2>2, <3>1
    <2>3. CASE old = NoState
      <3>1. /\ nodes' = addPod(nodes, n, p)
            /\ dirty' = dirty \cup {n}
            /\ podStates' = [podStates EXCEPT ![p] = [node |-> n, st |-> "added"]]
            /\ UNCHANGED <<snapshot, panicked>>
        BY <1>7, <2>3 DEF AddPod, IsAssumedPod, NoState
      <3>2. panicked' \in BOOLEAN /\ {} \in SUBSET Cached(nodes) /\ dirty' = dirty \cup {n} \cup {}
        BY <3>1 DEF CacheInv, CacheTypeOK
      <3>q. QED
        BY <1>1, <1>2, <1>7, <3>1, <3>2
    <2>4. CASE UNCHANGED cacheVars
      BY <1>4, <2>4
    <2>q. QED
      BY <1>7, <2>1, <2>2, <2>3, <2>4 DEF AddPod
  <1>8. CASE UpdatePod(p)
    <2>1. CASE podStates[p].st = "added"
      <3>1. dirty' \subseteq Cached(nodes) /\ panicked' \in BOOLEAN
        BY <1>1, <1>8, <2>1
        DEF UpdatePod, RemovePanics, Cached, CacheInv, States, Empties, NoState
      <3>q. QED
        BY <1>8, <2>1, <3>1 DEF UpdatePod, CacheInv, CacheTypeOK, States, Empties, Cached
    <2>q. QED
      BY <1>4, <1>8, <2>1 DEF UpdatePod
  <1>9. CASE RemovePod(p)
    BY <1>4, <1>9, DropInv DEF RemovePod, NoState
  <1>10. CASE expirePod(p)
    BY <1>10, DropInv DEF expirePod, NoState
  <1>q. QED
    BY <1>5, <1>6, <1>7, <1>8, <1>9, <1>10

\* ForgetPod, too.
LEMMA ForgetInv ==
    ASSUME CacheInv, NEW p \in Pods, NEW n \in Nodes \cup {NoNode}, ForgetPod(p, n)
    PROVE  CacheInv'
  <1>1. CASE Drop(p) /\ IsAssumedPod(p)
    BY <1>1, DropInv DEF IsAssumedPod, NoState
  <1>2. CASE FinishBinding(p)
    <2>1. CASE IsAssumedPod(p)
      BY <1>2, <2>1, PodOpsInv DEF IsAssumedPod, CacheInv, States, NoState
    <2>2. CASE ~ IsAssumedPod(p)
      BY <1>2, <2>2 DEF FinishBinding, CacheInv, CacheTypeOK, States, Empties, Cached
    <2>q. QED
      BY <2>1, <2>2
  <1>q. QED
    BY <1>1, <1>2 DEF ForgetPod

\* So do the operations on nodes.
LEMMA NodeOpsInv ==
    ASSUME CacheInv, NEW n \in Nodes, NEW st \in {"plain", "slo"},
           SetNode(n, st) \/ RemoveNode(n)
    PROVE  CacheInv'
  <1>1. CASE SetNode(n, st)
    <2>1. /\ nodes' = [nodes EXCEPT ![n].st = st] /\ dirty' = dirty \cup {n}
          /\ UNCHANGED <<podStates, snapshot, panicked>>
      BY <1>1 DEF SetNode
    <2>2. nodes' \in NodeItems /\ Cached(nodes) \cup {n} \subseteq Cached(nodes')
      BY <2>1 DEF CacheInv, CacheTypeOK, NodeItems, Cached
    <2>3. Empties'
      BY <2>1 DEF CacheInv, CacheTypeOK, Empties
    <2>q. QED
      BY <2>1, <2>2, <2>3 DEF CacheInv, CacheTypeOK, NodeItems, States
  <1>2. CASE RemoveNode(n)
    <2>1. /\ nodes' = [nodes EXCEPT ![n] = NoItem] /\ dirty' = dirty \ {n}
          /\ UNCHANGED <<podStates, snapshot, panicked>>
      BY <1>2 DEF RemoveNode
    <2>2. nodes' \in NodeItems /\ Cached(nodes) \ {n} \subseteq Cached(nodes')
      BY <2>1 DEF CacheInv, CacheTypeOK, NodeItems, Cached, NoItem
    <2>3. Empties'
      BY <2>1 DEF CacheInv, CacheTypeOK, Empties, NoItem
    <2>q. QED
      BY <2>1, <2>2, <2>3 DEF CacheInv, CacheTypeOK, NodeItems, States
  <1>q. QED
    BY <1>1, <1>2

\* So do the snapshot and a restart.
LEMMA SnapshotInv ==
    ASSUME CacheInv, EmptyCache \/ \E ok \in BOOLEAN : UpdateSnapshot(ok)
    PROVE  CacheInv'
  <1>1. CASE EmptyCache
    BY <1>1 DEF EmptyCache, NoState, NoItem, CacheInv, CacheTypeOK, States, Empties, Cached
  <1>2. CASE \E ok \in BOOLEAN : UpdateSnapshot(ok)
    <2> DEFINE map == [m \in Nodes |-> IF m \in Cloned THEN nodes[m] ELSE snapshot.map[m]]
               Maps == [Nodes -> [st : {"absent", "plain", "slo"}, pods : SUBSET Pods]]
    <2>1. map \in Maps
      BY DEF CacheInv, CacheTypeOK, Cloned, NodeTree
    <2>2. \A D : [m \in Nodes |-> IF m \in D THEN NoItem ELSE map[m]] \in Maps
      BY <2>1 DEF NoItem
    <2>3. \E D : snapshot'.map = [m \in Nodes |-> IF m \in D THEN NoItem ELSE map[m]]
      BY <1>2 DEF UpdateSnapshot
    <2>4. snapshot' = [map |-> snapshot'.map, list |-> snapshot'.list]
      BY <1>2 DEF UpdateSnapshot
    <2>5. snapshot'.list \in {NodeTree, snapshot.list}
      BY <1>2 DEF UpdateSnapshot
    <2>6. snapshot'.list \subseteq Nodes
      BY <2>5 DEF NodeTree, CacheInv, CacheTypeOK
    <2> HIDE DEF map
    <2>7. snapshot'.map \in Maps
      BY <2>2, <2>3
    <2>8. dirty' = {} /\ UNCHANGED <<podStates, nodes, panicked>>
      BY <1>2 DEF UpdateSnapshot
    <2>9. snapshot' \in [map : Maps, list : SUBSET Nodes]
      BY <2>4, <2>6, <2>7
    <2>q. QED
      BY <2>8, <2>9 DEF CacheInv, CacheTypeOK, States, Empties
  <1>q. QED
    BY <1>1, <1>2

-----------------------------------------------------------------------------
(* the pods counted on the nodes *)

\* Accounted, of given states of pods and items of nodes, but for the pods in L
CountedIn(ps, ns, L) ==
    \A p \in Pods, n \in Nodes :
        /\ p \in ns[n].pods => ps[p].node = n
        /\ ps[p].node = n /\ p \notin L => p \in ns[n].pods

\* Taking a pod with no state, or one taken from its node, to a node.
LEMMA CountPod ==
    ASSUME NEW ps \in [Pods -> [node : Nodes \cup {NoNode},
                                st : {"none", "assumed", "expirable", "added"}]],
           NEW items \in NodeItems, NEW L, NEW p \in Pods, NEW n \in Nodes,
           NEW s \in {"assumed", "added"},
           \A q \in Pods \ {p}, m \in Nodes :
               /\ q \in items[m].pods => ps[q].node = m
               /\ ps[q].node = m /\ q \notin L => q \in items[m].pods,
           \A m \in Nodes : p \notin items[m].pods
    PROVE  CountedIn([ps EXCEPT ![p] = [node |-> n, st |-> s]], addPod(items, n, p), L)
  <1> DEFINE ps2 == [ps EXCEPT ![p] = [node |-> n, st |-> s]]
             ns2 == addPod(items, n, p)
  <1>1. ps2[p].node = n /\ \A q \in Pods \ {p} : ps2[q] = ps[q]
    OBVIOUS
  <1>2. ns2[n].pods = items[n].pods \cup {p} /\ \A m \in Nodes \ {n} : ns2[m] = items[m]
    BY AddPodFacts
  <1> HIDE DEF ps2, ns2
  <1>3. CountedIn(ps2, ns2, L)
    BY <1>1, <1>2 DEF CountedIn
  <1>q. QED
    BY <1>3 DEF ps2, ns2

\* Subtracting a pod from the node it is counted on.
LEMMA UncountPod ==
    ASSUME CacheInv, NEW L, CountedIn(podStates, nodes, L), NEW p \in Pods,
           podStates[p] # NoState
    PROVE  LET items == removePod(nodes, podStates[p].node, p) IN
           /\ items \in NodeItems
           /\ \A m \in Nodes : p \notin items[m].pods
           /\ \A q \in Pods \ {p}, m \in Nodes : q \in items[m].pods <=> q \in nodes[m].pods
  <1> DEFINE k == podStates[p].node
             items == removePod(nodes, k, p)
  <1>1. k \in Nodes /\ nodes \in NodeItems
    BY DEF CacheInv, CacheTypeOK, States, NodeItems
  <1>2. /\ items \in NodeItems /\ items[k].pods = nodes[k].pods \ {p}
        /\ \A m \in Nodes \ {k} : items[m] = nodes[m]
    BY <1>1, RemovePodFacts
  <1>3. \A m \in Nodes : p \in nodes[m].pods => m = k
    BY DEF CountedIn
  <1> HIDE DEF k, items
  <1>q. QED
    BY <1>1, <1>2, <1>3 DEF k, items

\* Drop keeps the count, and takes it back for the pod when it forgets it.
LEMMA DropCounts ==
    ASSUME CacheInv, NEW L, CountedIn(podStates, nodes, L), NEW p \in Pods,
           podStates[p] # NoState, Drop(p)
    PROVE  CountedIn(podStates', nodes', L)
  <1> DEFINE n == podStates[p].node
  <1>1. n \in Nodes /\ nodes' = removePod(nodes, n, p)
    BY DEF Drop, CacheInv, States
  <1>2. /\ \A m \in Nodes : p \notin nodes'[m].pods
        /\ \A q \in Pods \ {p}, m \in Nodes : q \in nodes'[m].pods <=> q \in nodes[m].pods
    BY <1>1, UncountPod
  <1>3. CASE Removable(n, p)
    <2>1. podStates' = [podStates EXCEPT ![p] = NoState]
      BY <1>3 DEF Drop
    <2>2. podStates'[p].node \notin Nodes /\ \A q \in Pods \ {p} : podStates'[q] = podStates[q]
      BY <2>1, NoNodeAssumption DEF NoState, CacheInv, CacheTypeOK
    <2>q. QED
      BY <1>2, <2>2 DEF CountedIn
  <1>4. CASE ~ Removable(n, p)
    <2>1. podStates' = podStates /\ p \notin nodes[n].pods
      BY <1>4 DEF Drop, Removable
    <2>2. \A m \in Nodes : p \notin nodes[m].pods
      BY <2>1 DEF CountedIn
    <2>q. QED
      BY <1>2, <2>1, <2>2 DEF CountedIn
  <1>q. QED
    BY <1>3, <1>4

\* So do the other operations on pods.
LEMMA PodOpsCount ==
    ASSUME CacheInv, NEW L, CountedIn(podStates, nodes, L), NEW p \in Pods, NEW n,
           \/ n \in Nodes /\ (AssumePod(p, n) \/ AddPod(p, n))
           \/ FinishBinding(p) \/ UpdatePod(p) \/ RemovePod(p) \/ expirePod(p)
    PROVE  CountedIn(podStates', nodes', L)
  <1>1. /\ nodes \in NodeItems
        /\ podStates \in [Pods -> [node : Nodes \cup {NoNode},
                                   st : {"none", "assumed", "expirable", "added"}]]
    BY DEF CacheInv, CacheTypeOK, NodeItems
  <1>2. ASSUME n \in Nodes, podStates[p] = NoState, nodes' = addPod(nodes, n, p),
               NEW s \in {"assumed", "added"},
               podStates' = [podStates EXCEPT ![p] = [node |-> n, st |-> s]]
        PROVE  CountedIn(podStates', nodes', L)
    <2>1. \A m \in Nodes : p \notin nodes[m].pods
      BY <1>2, NoNodeAssumption DEF CountedIn, NoState
    <2>2. \A q \in Pods \ {p}, m \in Nodes :
               /\ q \in nodes[m].pods => podStates[q].node = m
               /\ podStates[q].node = m /\ q \notin L => q \in nodes[m].pods
      BY DEF CountedIn
    <2>q. QED
      BY <1>1, <1>2, <2>1, <2>2, CountPod
  <1>3. ASSUME nodes' = nodes, NEW s,
               \/ podStates' = podStates
               \/ podStates' = [podStates EXCEPT ![p].st = s]
        PROVE  CountedIn(podStates', nodes', L)
    <2>1. \A q \in Pods : podStates'[q].node = podStates[q].node
      BY <1>1, <1>3
    <2>q. QED
      BY <1>3, <2>1 DEF CountedIn
  <1>4. CASE n \in Nodes /\ AssumePod(p, n)
    BY <1>2, <1>4 DEF AssumePod
  <1>5. CASE FinishBinding(p)
    BY <1>3, <1>5 DEF FinishBinding
  <1>6. CASE n \in Nodes /\ AddPod(p, n)
    <2>1. CASE /\ podStates[p] # NoState
               /\ nodes' = addPod(removePod(nodes, podStates[p].node, p), n, p)
               /\ podStates' = [podStates EXCEPT ![p] = [node |-> n, st |-> "added"]]
      <3> DEFINE items == removePod(nodes, podStates[p].node, p)
      <3>1. /\ items \in NodeItems /\ \A m \in Nodes : p \notin items[m].pods
            /\ \A q \in Pods \ {p}, m \in Nodes : q \in items[m].pods <=> q \in nodes[m].pods
        BY <2>1, UncountPod
      <3> HIDE DEF items
      <3>2. \A q \in Pods \ {p}, m \in Nodes :
               /\ q \in items[m].pods => podStates[q].node = m
               /\ podStates[q].node = m /\ q \notin L => q \in items[m].pods
        BY <3>1 DEF CountedIn
      <3>3. CountedIn([podStates EXCEPT ![p] = [node |-> n, st |-> "added"]],
                      addPod(items, n, p), L)
        BY <1>1, <1>6, <3>1, <3>2, CountPod
      <3>q. QED
        BY <2>1, <3>3 DEF items
    <2>q. QED
      BY <1>2, <1>3, <1>6, <2>1 DEF AddPod, IsAssumedPod, NoState, cacheVars
  <1>7. CASE UpdatePod(p)
    BY <1>3, <1>7 DEF UpdatePod, cacheVars
  <1>8. CASE RemovePod(p)
    BY <1>3, <1>8, DropCounts DEF RemovePod, NoState, cacheVars
  <1>9. CASE expirePod(p)
    BY <1>9, DropCounts DEF expirePod, NoState
  <1>q. QED
    BY <1>4, <1>5, <1>6, <1>7, <1>8, <1>9

\* The operations on nodes keep the count, but for the pods of a node that is removed.
LEMMA NodeOpsCount ==
    ASSUME CacheInv, NEW L, CountedIn(podStates, nodes, L), NEW n \in Nodes,
           NEW st \in {"plain", "slo"}
    PROVE  /\ SetNode(n, st) => CountedIn(podStates', nodes', L)
           /\ RemoveNode(n) =>
                  CountedIn(podStates', nodes', L \cup {p \in Pods : podStates[p].node = n})
  <1>1. nodes \in NodeItems
    BY DEF CacheInv, CacheTypeOK, NodeItems
  <1>2. ASSUME SetNode(n, st) PROVE CountedIn(podStates', nodes', L)
    <2>1. podStates' = podStates /\ \A m \in Nodes : nodes'[m].pods = nodes[m].pods
      BY <1>1, <1>2 DEF SetNode, NodeItems
    <2>q. QED
      BY <2>1 DEF CountedIn
  <1>3. ASSUME RemoveNode(n)
        PROVE  CountedIn(podStates', nodes', L \cup {p \in Pods : podStates[p].node = n})
    <2>1. /\ podStates' = podStates /\ nodes'[n].pods = {}
          /\ \A m \in Nodes \ {n} : nodes'[m] = nodes[m]
      BY <1>1, <1>3 DEF RemoveNode, NodeItems, NoItem
    <2>q. QED
      BY <2>1 DEF CountedIn
  <1>q. QED
    BY <1>2, <1>3

\* ForgetPod keeps the count.
LEMMA ForgetCounts ==
    ASSUME CacheInv, NEW L, CountedIn(podStates, nodes, L), NEW p \in Pods,
           NEW n \in Nodes \cup {NoNode}, ForgetPod(p, n)
    PROVE  CountedIn(podStates', nodes', L)
  <1>1. CASE Drop(p) /\ IsAssumedPod(p)
    BY <1>1, DropCounts DEF IsAssumedPod, NoState
  <1>2. CASE FinishBinding(p)
    <2>1. nodes' = nodes /\ \A q \in Pods : podStates'[q].node = podStates[q].node
      BY <1>2 DEF FinishBinding, CacheInv, CacheTypeOK
    <2>q. QED
      BY <2>1 DEF CountedIn
  <1>q. QED
    BY <1>1, <1>2 DEF ForgetPod

-----------------------------------------------------------------------------
(* the invariant *)

RestTypeOK ==
    /\ apiPod \in [Pods -> [st : {"none", "pending", "bound", "gone"}, node : Nodes \cup {NoNode}]]
    /\ apiNode \in [Nodes -> {"none", "plain", "slo", "gone"}]
    /\ seenQ \subseteq Pods /\ seenC \in [Pods -> {"no", "yes", "done"}]
    /\ podStep \in {"none", "assigned", "all"} /\ nodeStep \in {"none", "all", "unless"}
    /\ cycle \in [pc : {"pop", "schedule", "assume", "fail"},
                  pod : Pods \cup {NoPod}, host : Nodes \cup {NoNode}]
    /\ bind \in [Pods -> [step : {"none", "call", "ok", "err", "record"},
                          host : Nodes \cup {NoNode}]]
    /\ upsets \in 0..MaxUpsets /\ lapsed \subseteq Pods /\ unwoken \subseteq Pods

\* a pod that is not bound yet has no node, and one with a host decided has one
Hosts ==
    /\ \A p \in Pods : apiPod[p].st \in {"none", "pending"} => apiPod[p].node = NoNode
    /\ cycle.pc = "assume" => cycle.host \in Nodes

\* only the handlers of bound pods make a pod added, and only of a pod with a node
Told ==
    \A p \in Pods : /\ podStates[p].st = "added" => seenC[p] # "no"
                    /\ seenC[p] = "yes" => apiPod[p].node # NoNode

IInv ==
    /\ CacheInv /\ CountedIn(podStates, nodes, lapsed)
    /\ QueueTypeOK /\ OneQueue
    /\ RestTypeOK /\ Hosts
    /\ Confirmed /\ Told

\* It holds at first.
LEMMA InitInv ==
    ASSUME Init
    PROVE  IInv
  <1>1. CacheInv /\ CountedIn(podStates, nodes, lapsed)
    BY NoNodeAssumption DEF Init, InitCache, CacheInv, CacheTypeOK, States, Empties, CountedIn,
                            NoState, NoItem, Cached
  <1>2. QueueTypeOK /\ OneQueue
    BY DEF Init, InitQueue, QueueTypeOK, OneQueue, Queued
  <1>3. RestTypeOK
    BY UpsetsAssumption DEF Init, RestTypeOK, Rest, NoBind
  <1>4. Hosts
    BY DEF Init, Hosts, Rest
  <1>5. Confirmed /\ Told
    BY DEF Init, InitCache, NoState, Confirmed, Told
  <1>q. QED
    BY <1>1, <1>2, <1>3, <1>4, <1>5 DEF IInv

\* The queue is only changed through its operations.
LEMMA QueueKinds ==
    ASSUME [Next]_vars
    PROVE  \/ \E p \in Pods : QueueOp(p)
           \/ AssignedPod \/ MoveAllToActiveOrBackoffQueue
           \/ \E P \in SUBSET Pods : RestartQueue(P)
           \/ UNCHANGED queueVars
  <1>1. \A p \in Pods : Pending(p) \in BOOLEAN
    BY DEF Pending
  <1>2. ASSUME NEW p \in Pods,
               \/ PopPod(p) \/ ScheduleOne(p) \/ Binding(p)
               \/ FlushBackoff(p) \/ FlushUnschedulable(p) \/ Expire(p)
               \/ addPodToSchedulingQueue(p) \/ updatePodInSchedulingQueue(p)
               \/ deletePodFromSchedulingQueue(p)
               \/ addPodToCache(p) \/ updatePodInCache(p) \/ deletePodFromCache(p) \/ Missed(p)
               \/ PodDeleted(p)
        PROVE  QueueOp(p)
    BY <1>2 DEF QueueOp, PopPod, ScheduleOne, SkipPod, Schedule, Assume, AssumeFails, FailPod,
        Binding, Bind, Bound_ok, BindFails, BindRecorded, FlushBackoff, FlushUnschedulable, Expire,
        addPodToSchedulingQueue, updatePodInSchedulingQueue, deletePodFromSchedulingQueue,
        addPodToCache, updatePodInCache, deletePodFromCache, Missed, PodDeleted, World, queueVars
  <1>3. ASSUME NEW p \in Pods, Retry(p)
        PROVE  QueueOp(p)
    BY <1>1, <1>3 DEF QueueOp, Retry
  <1>4. ASSUME \/ \E n \in Nodes : \/ addNodeToCache(n) \/ updateNodeInCache(n)
                                  \/ deleteNodeFromCache(n) \/ NodeChanges(n)
               \/ PodHandlerMoves \/ NodeHandlerMoves \/ Restart
               \/ UNCHANGED vars
        PROVE  \/ AssignedPod \/ MoveAllToActiveOrBackoffQueue
               \/ \E P \in SUBSET Pods : RestartQueue(P)
               \/ UNCHANGED queueVars
    BY <1>4 DEF addNodeToCache, updateNodeInCache, deleteNodeFromCache, NodeChanges,
        PodHandlerMoves, NodeHandlerMoves, Restart, World, vars
  <1>q. QED
    BY <1>2, <1>3, <1>4 DEF Next

\* So it keeps its types, and each pod in one of its parts.
LEMMA StepQueue ==
    ASSUME IInv, [Next]_vars
    PROVE  QueueTypeOK' /\ OneQueue'
  <1>1. QueueTypeOK /\ OneQueue
    BY DEF IInv
  <1>q. QED
    BY <1>1, QueueKinds, QueueOpsInv, QueueAllInv

\* The operations that concern a pod that is not bound: they leave those that are added alone.
LEMMA Tentative ==
    ASSUME CacheInv, NEW p \in Pods, NEW n \in Nodes \cup {NoNode},
           \/ AssumePod(p, n) \/ FinishBinding(p) \/ ForgetPod(p, n) \/ expirePod(p)
    PROVE  \A q \in Pods : \/ podStates'[q] = podStates[q]
                           \/ podStates[q].st # "added" /\ podStates'[q].st # "added"
  <1>1. ASSUME NEW s, s.st # "added", podStates[p].st # "added",
               podStates' \in {podStates, [podStates EXCEPT ![p] = s]}
        PROVE  \A q \in Pods : \/ podStates'[q] = podStates[q]
                               \/ podStates[q].st # "added" /\ podStates'[q].st # "added"
    BY <1>1 DEF CacheInv, CacheTypeOK
  <1>2. CASE AssumePod(p, n)
    BY <1>2 DEF AssumePod, NoState, CacheInv, CacheTypeOK
  <1>3. CASE FinishBinding(p)
    BY <1>3 DEF FinishBinding, IsAssumedPod, CacheInv, CacheTypeOK
  <1>4. CASE Drop(p) /\ IsAssumedPod(p)
    BY <1>4, DropInv, <1>1 DEF IsAssumedPod, NoState
  <1>5. CASE ForgetPod(p, n)
    BY <1>3, <1>4, <1>5 DEF ForgetPod
  <1>6. CASE expirePod(p)
    BY <1>4, <1>6 DEF expirePod, IsAssumedPod
  <1>q. QED
    BY <1>2, <1>3, <1>5, <1>6

\* The steps that touch the cache, or the pods it has lost count of, are few.
LEMMA StepKinds ==
    ASSUME [Next]_vars
    PROVE  \/ UNCHANGED <<cacheVars, lapsed>>
           \/ \E p \in Pods : \/ Schedule(p) \/ Assume(p) \/ Bound_ok(p) \/ BindFails(p)
                              \/ Expire(p) \/ addPodToCache(p) \/ updatePodInCache(p)
                              \/ deletePodFromCache(p)
           \/ \E n \in Nodes : addNodeToCache(n) \/ updateNodeInCache(n) \/ deleteNodeFromCache(n)
           \/ Restart
  <1>1. ASSUME NEW p \in Pods,
               \/ PopPod(p) \/ SkipPod(p) \/ AssumeFails(p) \/ FailPod(p)
               \/ Bind(p) \/ BindRecorded(p) \/ Retry(p) \/ FlushBackoff(p)
               \/ FlushUnschedulable(p) \/ addPodToSchedulingQueue(p)
               \/ updatePodInSchedulingQueue(p) \/ deletePodFromSchedulingQueue(p)
               \/ Missed(p) \/ PodDeleted(p)
        PROVE  UNCHANGED <<cacheVars, lapsed>>
    BY <1>1 DEF PopPod, SkipPod, AssumeFails, FailPod, Bind, BindRecorded, Retry, FlushBackoff,
        FlushUnschedulable, addPodToSchedulingQueue, updatePodInSchedulingQueue,
        deletePodFromSchedulingQueue, Missed, PodDeleted, World
  <1>2. ASSUME \/ \E n \in Nodes : NodeChanges(n)
               \/ PodHandlerMoves \/ NodeHandlerMoves \/ UNCHANGED vars
        PROVE  UNCHANGED <<cacheVars, lapsed>>
    BY <1>2 DEF NodeChanges, PodHandlerMoves, NodeHandlerMoves, World, vars
  <1>q. QED
    BY <1>1, <1>2 DEF Next, ScheduleOne, Binding

\* The cache keeps being well formed and counts its pods.
LEMMA StepCache ==
    ASSUME IInv, [Next]_vars
    PROVE  CacheInv' /\ CountedIn(podStates', nodes', lapsed')
  <1> USE DEF IInv
  <1>1. ASSUME CountedIn(podStates', nodes', lapsed), lapsed \subseteq lapsed'
        PROVE  CountedIn(podStates', nodes', lapsed')
    BY <1>1 DEF CountedIn
  <1>2. ASSUME UNCHANGED cacheVars
        PROVE  CacheInv' /\ CountedIn(podStates', nodes', lapsed)
    BY <1>2 DEF cacheVars, CacheInv, CacheTypeOK, States, Empties, Cached, CountedIn
  <1>3. ASSUME NEW p \in Pods, Schedule(p)
        PROVE  CacheInv' /\ CountedIn(podStates', nodes', lapsed')
    <2>1. PICK ok \in BOOLEAN : UpdateSnapshot(ok)
      BY <1>3 DEF Schedule
    <2>2. UNCHANGED <<podStates, nodes, lapsed>>
      BY <1>3, <2>1 DEF Schedule, UpdateSnapshot
    <2>q. QED
      BY <2>1, <2>2, SnapshotInv DEF CountedIn
  <1>6. ASSUME NEW p \in Pods, NEW n,
               \/ n \in Nodes /\ (AssumePod(p, n) \/ AddPod(p, n))
               \/ FinishBinding(p) \/ UpdatePod(p) \/ RemovePod(p) \/ expirePod(p)
               \/ n \in Nodes \cup {NoNode} /\ ForgetPod(p, n)
        PROVE  CacheInv' /\ CountedIn(podStates', nodes', lapsed)
    BY <1>6, PodOpsInv, PodOpsCount, ForgetInv, ForgetCounts
  <1>7. ASSUME NEW p \in Pods,
               \/ Assume(p) \/ Bound_ok(p) \/ BindFails(p) \/ Expire(p)
               \/ addPodToCache(p) \/ updatePodInCache(p) \/ deletePodFromCache(p)
        PROVE  CacheInv' /\ CountedIn(podStates', nodes', lapsed')
    <2>1. CASE Assume(p)
      BY <1>1, <1>6, <2>1 DEF Assume, Hosts
    <2>2. CASE Bound_ok(p)
      BY <1>1, <1>6, <2>2 DEF Bound_ok
    <2>3. CASE BindFails(p)
      BY <1>1, <1>6, <2>3 DEF BindFails, RestTypeOK
    <2>4. CASE Expire(p)
      BY <1>1, <1>6, <2>4 DEF Expire
    <2>5. CASE addPodToCache(p)
      BY <1>1, <1>6, <2>5 DEF addPodToCache, RestTypeOK
    <2>6. CASE updatePodInCache(p)
      BY <1>1, <1>6, <2>6 DEF updatePodInCache
    <2>7. CASE deletePodFromCache(p)
      BY <1>1, <1>6, <2>7 DEF deletePodFromCache
    <2>q. QED
      BY <1>7, <2>1, <2>2, <2>3, <2>4, <2>5, <2>6, <2>7
  <1>8. ASSUME NEW n \in Nodes,
               addNodeToCache(n) \/ updateNodeInCache(n) \/ deleteNodeFromCache(n)
        PROVE  CacheInv' /\ CountedIn(podStates', nodes', lapsed')
    <2>1. CASE deleteNodeFromCache(n)
      BY <2>1, NodeOpsInv, NodeOpsCount DEF deleteNodeFromCache
    <2>2. CASE addNodeToCache(n) \/ updateNodeInCache(n)
      <3>1. apiNode[n] \in {"plain", "slo"} /\ SetNode(n, apiNode[n]) /\ lapsed' = lapsed
        BY <2>2 DEF addNodeToCache, updateNodeInCache
      <3>q. QED
        BY <1>1, <3>1, NodeOpsInv, NodeOpsCount
    <2>q. QED
      BY <1>8, <2>1, <2>2
  <1>9. ASSUME Restart
        PROVE  CacheInv' /\ CountedIn(podStates', nodes', lapsed')
    <2>1. EmptyCache
      BY <1>9 DEF Restart
    <2>q. QED
      BY <2>1, SnapshotInv, NoNodeAssumption DEF EmptyCache, CountedIn, NoState, NoItem
  <1>q. QED
    BY <1>1, <1>2, <1>3, <1>7, <1>8, <1>9, StepKinds

\* What is not in the cache or the queue keeps its types, and a decision its host.
LEMMA StepRest ==
    ASSUME IInv, [Next]_vars
    PROVE  RestTypeOK' /\ Hosts'
  <1> USE DEF IInv, RestTypeOK, Hosts
  <1>1. Upset => upsets' \in 0..MaxUpsets
    BY UpsetsAssumption DEF Upset
  <1>2. CacheInv'
    BY StepCache
  <1>3. ASSUME NEW p \in Pods,
               PopPod(p) \/ SkipPod(p) \/ AssumeFails(p) \/ FailPod(p) \/ Assume(p)
        PROVE  RestTypeOK' /\ Hosts'
    <2>1. CASE PopPod(p)
      BY <2>1 DEF PopPod, apiVars, toldVars
    <2>2. CASE SkipPod(p) \/ FailPod(p)
      BY <2>2 DEF SkipPod, FailPod, Rest, apiVars, toldVars
    <2>3. CASE AssumeFails(p)
      BY <2>3 DEF AssumeFails, apiVars, toldVars
    <2>4. CASE Assume(p)
      <3>1. bind' = [bind EXCEPT ![p] = [step |-> "call", host |-> cycle.host]] /\ cycle' = Rest
        BY <2>4 DEF Assume
      <3>2. cycle.host \in Nodes \cup {NoNode}
        OBVIOUS
      <3>3. UNCHANGED <<apiVars, toldVars, upsets, unwoken>> /\ lapsed' \in {lapsed, lapsed \cup {p}}
        BY <2>4 DEF Assume
      <3>q. QED
        BY <3>1, <3>2, <3>3 DEF Rest, apiVars, toldVars
    <2>q. QED
      BY <1>3, <2>1, <2>2, <2>3, <2>4
  <1>4. ASSUME NEW p \in Pods, Schedule(p)
        PROVE  RestTypeOK' /\ Hosts'
    <2>1. snapshot'.list \subseteq Nodes
      BY <1>2 DEF CacheInv, CacheTypeOK
    <2>2. \/ \E n \in Nodes : cycle' = [cycle EXCEPT !.pc = "assume", !.host = n]
          \/ cycle' = [cycle EXCEPT !.pc = "fail"]
      BY <1>4, <2>1 DEF Schedule
    <2>3. unwoken' \subseteq Pods
      BY <1>4 DEF Schedule
    <2>4. UNCHANGED <<apiVars, toldVars, bind, upsets, lapsed>>
      BY <1>4 DEF Schedule
    <2>q. QED
      BY <2>2, <2>3, <2>4 DEF apiVars, toldVars
  <1>5. ASSUME NEW p \in Pods, Bind(p)
        PROVE  RestTypeOK' /\ Hosts'
    <2>1. UNCHANGED <<apiNode, toldVars, cycle, lapsed, unwoken>>
      BY <1>5 DEF Bind
    <2>2. upsets' \in 0..MaxUpsets
      BY <1>1, <1>5 DEF Bind
    <2>3. \/ apiPod' = apiPod
          \/ apiPod' = [apiPod EXCEPT ![p] = [st |-> "bound", node |-> bind[p].host]]
      BY <1>5 DEF Bind
    <2>4. bind' = [bind EXCEPT ![p].step = "ok"] \/ bind' = [bind EXCEPT ![p].step = "err"]
      BY <1>5 DEF Bind
    <2>5. bind[p].host \in Nodes \cup {NoNode}
      OBVIOUS
    <2>6. /\ apiPod' \in [Pods -> [st : {"none", "pending", "bound", "gone"},
                                   node : Nodes \cup {NoNode}]]
          /\ \A q \in Pods : apiPod'[q].st \in {"none", "pending"} => apiPod'[q].node = NoNode
      <3>1. CASE apiPod' = apiPod
        BY <3>1
      <3>2. CASE apiPod' = [apiPod EXCEPT ![p] = [st |-> "bound", node |-> bind[p].host]]
        <4>1. [st |-> "bound", node |-> bind[p].host]
                  \in [st : {"none", "pending", "bound", "gone"}, node : Nodes \cup {NoNode}]
          BY <2>5
        <4>2. \A q \in Pods :
                  apiPod'[q] = IF q = p THEN [st |-> "bound", node |-> bind[p].host] ELSE apiPod[q]
          BY <3>2
        <4>q. QED
          BY <3>2, <4>1, <4>2
      <3>q. QED
        BY <2>3, <3>1, <3>2
    <2>7. bind' \in [Pods -> [step : {"none", "call", "ok", "err", "record"},
                              host : Nodes \cup {NoNode}]]
      <3>1. ASSUME NEW s \in {"ok", "err"}
            PROVE  [bind EXCEPT ![p].step = s]
                       \in [Pods -> [step : {"none", "call", "ok", "err", "record"},
                                     host : Nodes \cup {NoNode}]]
        OBVIOUS
      <3>q. QED
        BY <2>4, <3>1
    <2>q. QED
      BY <2>1, <2>2, <2>6, <2>7 DEF toldVars
  <1>6. ASSUME NEW p \in Pods, Bound_ok(p) \/ BindFails(p) \/ BindRecorded(p)
        PROVE  RestTypeOK' /\ Hosts'
    <2>1. UNCHANGED <<apiVars, toldVars, cycle, upsets>>
      BY <1>6 DEF Bound_ok, BindFails, BindRecorded
    <2>2. bind' = [bind EXCEPT ![p] = NoBind] \/ bind' = [bind EXCEPT ![p].step = "record"]
      BY <1>6 DEF Bound_ok, BindFails, BindRecorded
    <2>3. bind' \in [Pods -> [step : {"none", "call", "ok", "err", "record"},
                              host : Nodes \cup {NoNode}]]
      BY <2>2 DEF NoBind
    <2>4. lapsed' \subseteq Pods /\ unwoken' \subseteq Pods
      BY <1>6 DEF Bound_ok, BindFails, BindRecorded, Released
    <2>q. QED
      BY <2>1, <2>3, <2>4 DEF apiVars, toldVars
  <1>7. ASSUME NEW p \in Pods,
               Retry(p) \/ FlushBackoff(p) \/ FlushUnschedulable(p) \/ Expire(p)
        PROVE  RestTypeOK' /\ Hosts'
    BY <1>7 DEF Retry, FlushBackoff, FlushUnschedulable, Expire, Released, apiVars, toldVars
  <1>8. ASSUME NEW p \in Pods,
               \/ addPodToSchedulingQueue(p) \/ updatePodInSchedulingQueue(p)
               \/ deletePodFromSchedulingQueue(p)
        PROVE  RestTypeOK' /\ Hosts'
    <2>1. CASE addPodToSchedulingQueue(p)
      <3>1. /\ apiPod' = [apiPod EXCEPT ![p].st = "pending"] /\ apiPod[p].st = "none"
            /\ seenQ' = seenQ \cup {p}
            /\ UNCHANGED <<apiNode, seenC, podStep, nodeStep, cycle, bind, upsets, lapsed, unwoken>>
        BY <2>1 DEF addPodToSchedulingQueue
      <3>q. QED
        BY <3>1
    <2>2. CASE updatePodInSchedulingQueue(p)
      BY <1>1, <2>2 DEF updatePodInSchedulingQueue, apiVars, toldVars
    <2>3. CASE deletePodFromSchedulingQueue(p)
      BY <2>3 DEF deletePodFromSchedulingQueue, apiVars
    <2>q. QED
      BY <1>8, <2>1, <2>2, <2>3
  <1>9. ASSUME NEW p \in Pods,
               addPodToCache(p) \/ updatePodInCache(p) \/ deletePodFromCache(p) \/ Missed(p)
        PROVE  RestTypeOK' /\ Hosts'
    BY <1>1, <1>9 DEF addPodToCache, updatePodInCache, deletePodFromCache, Missed, Released,
                      apiVars
  <1>10. ASSUME NEW p \in Pods, PodDeleted(p)
         PROVE  RestTypeOK' /\ Hosts'
    BY <1>1, <1>10 DEF PodDeleted, World, toldVars
  <1>11. ASSUME NEW n \in Nodes,
                addNodeToCache(n) \/ updateNodeInCache(n) \/ deleteNodeFromCache(n)
         PROVE  RestTypeOK' /\ Hosts'
    BY <1>1, <1>11 DEF addNodeToCache, updateNodeInCache, deleteNodeFromCache, apiVars, toldVars
  <1>12. ASSUME NEW n \in Nodes, NodeChanges(n)
         PROVE  RestTypeOK' /\ Hosts'
    BY <1>1, <1>12 DEF NodeChanges, World, toldVars
  <1>13. ASSUME PodHandlerMoves \/ NodeHandlerMoves
         PROVE  RestTypeOK' /\ Hosts'
    BY <1>13 DEF PodHandlerMoves, NodeHandlerMoves, apiVars
  <1>14. ASSUME Restart
         PROVE  RestTypeOK' /\ Hosts'
    BY <1>1, <1>14 DEF Restart, Rest, NoBind, apiVars
  <1>15. ASSUME UNCHANGED vars
         PROVE  RestTypeOK' /\ Hosts'
    BY <1>15 DEF vars, apiVars, toldVars
  <1>q. QED
    BY <1>3, <1>4, <1>5, <1>6, <1>7, <1>8, <1>9, <1>10, <1>11, <1>12, <1>13, <1>14, <1>15
       DEF Next, ScheduleOne, Binding

\* The steps that change what the cache believes of the pods, what the handlers know of them or
\* what the API server has are few, too.
LEMMA StepQuiet ==
    ASSUME [Next]_vars
    PROVE  \/ UNCHANGED <<podStates, seenC, apiPod>>
           \/ \E p \in Pods : \/ Assume(p) \/ Bind(p) \/ Bound_ok(p) \/ BindFails(p) \/ Expire(p)
                              \/ addPodToSchedulingQueue(p) \/ addPodToCache(p)
                              \/ deletePodFromCache(p) \/ Missed(p) \/ PodDeleted(p)
           \/ Restart
  <1>1. ASSUME NEW p \in Pods,
               \/ PopPod(p) \/ SkipPod(p) \/ Schedule(p) \/ AssumeFails(p) \/ FailPod(p)
               \/ BindRecorded(p) \/ Retry(p) \/ FlushBackoff(p) \/ FlushUnschedulable(p)
               \/ updatePodInSchedulingQueue(p) \/ deletePodFromSchedulingQueue(p)
               \/ updatePodInCache(p)
        PROVE  UNCHANGED <<podStates, seenC, apiPod>>
    BY <1>1 DEF PopPod, SkipPod, Schedule, UpdateSnapshot, AssumeFails, FailPod, BindRecorded,
        Retry, FlushBackoff, FlushUnschedulable, updatePodInSchedulingQueue,
        deletePodFromSchedulingQueue, updatePodInCache, UpdatePod, cacheVars, apiVars, toldVars
  <1>2. ASSUME \/ \E n \in Nodes : \/ addNodeToCache(n) \/ updateNodeInCache(n)
                                  \/ deleteNodeFromCache(n) \/ NodeChanges(n)
               \/ PodHandlerMoves \/ NodeHandlerMoves \/ UNCHANGED vars
        PROVE  UNCHANGED <<podStates, seenC, apiPod>>
    BY <1>2 DEF addNodeToCache, updateNodeInCache, deleteNodeFromCache, SetNode, RemoveNode,
        NodeChanges, PodHandlerMoves, NodeHandlerMoves, World, vars, cacheVars, apiVars, toldVars
  <1>q. QED
    BY <1>1, <1>2 DEF Next, ScheduleOne, Binding

\* Pods are added by their handlers only, and these know their node.
LEMMA StepTold ==
    ASSUME IInv, [Next]_vars
    PROVE  Confirmed' /\ Told'
  <1> USE DEF IInv, Confirmed, Told
  <1>1. ASSUME podStates' = podStates, seenC' = seenC,
               \A p \in Pods : apiPod'[p].node = apiPod[p].node \/ apiPod[p].node = NoNode
        PROVE  Confirmed' /\ Told'
    <2> SUFFICES ASSUME NEW p \in Pods
                 PROVE  /\ seenC[p] = "yes" => /\ apiPod'[p].node = apiPod[p].node
                                               /\ apiPod[p].node # NoNode
      BY <1>1
    <2>q. QED
      BY <1>1
  <1>2. ASSUME apiPod' = apiPod, seenC' = seenC,
               \A p \in Pods : \/ podStates'[p] = podStates[p]
                               \/ podStates[p].st # "added" /\ podStates'[p].st # "added"
        PROVE  Confirmed' /\ Told'
    BY <1>2
  <1>5. ASSUME NEW p \in Pods, Assume(p) \/ Bound_ok(p) \/ BindFails(p) \/ Expire(p)
        PROVE  Confirmed' /\ Told'
    <2>1. /\ apiPod' = apiPod /\ seenC' = seenC
          /\ \E n \in Nodes \cup {NoNode} : \/ AssumePod(p, n) \/ FinishBinding(p)
                                            \/ ForgetPod(p, n) \/ expirePod(p)
      BY <1>5 DEF Assume, Bound_ok, BindFails, Expire, apiVars, toldVars, RestTypeOK, Hosts
    <2>q. QED
      BY <1>2, <1>5, <2>1, Tentative
  <1>6. ASSUME NEW p \in Pods, Bind(p) \/ addPodToSchedulingQueue(p) \/ PodDeleted(p)
        PROVE  Confirmed' /\ Told'
    <2>1. podStates' = podStates /\ seenC' = seenC
      BY <1>6 DEF Bind, addPodToSchedulingQueue, PodDeleted, World, cacheVars, toldVars
    <2>2. \/ apiPod' = apiPod
          \/ \E s \in {"pending", "gone"} : apiPod' = [apiPod EXCEPT ![p].st = s]
          \/ Pending(p) /\ \E r : apiPod' = [apiPod EXCEPT ![p] = r]
      BY <1>6 DEF Bind, Bindable, addPodToSchedulingQueue, PodDeleted
    <2>3. \A q \in Pods : apiPod'[q].node = apiPod[q].node \/ apiPod[q].node = NoNode
      BY <1>6, <2>2 DEF RestTypeOK, Hosts, Pending
    <2>q. QED
      BY <1>1, <2>1, <2>3
  <1>7. ASSUME NEW p \in Pods, addPodToCache(p)
        PROVE  Confirmed' /\ Told'
    <2> DEFINE k == apiPod[p].node
    <2>1. /\ apiPod' = apiPod /\ seenC' = [seenC EXCEPT ![p] = "yes"]
          /\ k # NoNode /\ podStates[p].st # "added"
      BY <1>7 DEF addPodToCache, apiVars
    <2>2. \/ podStates' = [podStates EXCEPT ![p] = [node |-> k, st |-> "added"]]
          \/ podStates[p].node = k /\ podStates' = [podStates EXCEPT ![p].st = "added"]
      BY <1>7, <2>1 DEF addPodToCache, AddPod
    <2>3. /\ podStates'[p] = [node |-> k, st |-> "added"]
          /\ \A q \in Pods \ {p} : podStates'[q] = podStates[q]
      BY <1>7, <2>2 DEF CacheInv, CacheTypeOK
    <2>4. seenC'[p] = "yes" /\ \A q \in Pods \ {p} : seenC'[q] = seenC[q]
      BY <1>7, <2>1 DEF RestTypeOK
    <2>q. QED
      BY <2>1, <2>3, <2>4
  <1>8. ASSUME NEW p \in Pods, deletePodFromCache(p)
        PROVE  Confirmed' /\ Told'
    <2>1. apiPod' = apiPod /\ seenC' = [seenC EXCEPT ![p] = "done"] /\ seenC[p] = "yes"
      BY <1>8 DEF deletePodFromCache, apiVars
    <2>2. podStates' \in {podStates, [podStates EXCEPT ![p] = NoState]}
      BY <1>8 DEF deletePodFromCache, RemovePod, Drop, cacheVars
    <2>3. \A q \in Pods \ {p} : podStates'[q] = podStates[q] /\ seenC'[q] = seenC[q]
      BY <2>1, <2>2 DEF CacheInv, CacheTypeOK, RestTypeOK
    <2>4. seenC'[p] = "done"
      BY <1>8, <2>1 DEF RestTypeOK
    <2>q. QED
      BY <2>1, <2>3, <2>4
  <1>9. ASSUME NEW p \in Pods, Missed(p)
        PROVE  Confirmed' /\ Told'
    <2>1. podStates' = podStates /\ apiPod' = apiPod /\ seenC' = [seenC EXCEPT ![p] = "done"]
      BY <1>9 DEF Missed, cacheVars, apiVars
    <2>q. QED
      BY <2>1 DEF RestTypeOK
  <1>10. ASSUME Restart
         PROVE  Confirmed' /\ Told'
    <2>1. /\ \A p \in Pods : podStates'[p] = NoState
          /\ \A p \in Pods : seenC'[p] \in {"done", "no"}
      BY <1>10 DEF Restart, EmptyCache
    <2>q. QED
      BY <2>1 DEF NoState
  <1>11. ASSUME UNCHANGED <<podStates, seenC, apiPod>>
         PROVE  Confirmed' /\ Told'
    BY <1>1, <1>11
  <1>q. QED
    BY <1>5, <1>6, <1>7, <1>8, <1>9, <1>10, <1>11, StepQuiet

\* Together they are an inductive invariant of the scheduler.
LEMMA SchedulerInv == Spec => []IInv
  <1>1. Init => IInv
    BY InitInv
  <1>2. IInv /\ [Next]_vars => IInv'
    <2> SUFFICES ASSUME IInv, [Next]_vars PROVE IInv'
      OBVIOUS
    <2>1. CacheInv' /\ CountedIn(podStates', nodes', lapsed')
      BY StepCache
    <2>2. QueueTypeOK' /\ OneQueue'
      BY StepQueue
    <2>3. RestTypeOK' /\ Hosts'
      BY StepRest
    <2>4. Confirmed' /\ Told'
      BY StepTold
    <2>q. QED
      BY <2>1, <2>2, <2>3, <2>4 DEF IInv
  <1>q. QED
    BY <1>1, <1>2, PTL DEF Spec

\* Type correctness: the cache, its snapshot, the queue and what surrounds them keep their
\* types, in every behaviour of any number of pods, nodes and upsets.
THEOREM SchedulerTypeCorrect == Spec => []TypeOK
  <1>1. IInv => TypeOK
    BY DEF IInv, CacheInv, RestTypeOK, TypeOK
  <1>q. QED
    BY <1>1, SchedulerInv, PTL

\* A pod is always counted on the node podStates tells and on no other, but for pods of nodes
\* that were deleted (addPod and removePod of cache.go).
THEOREM SchedulerAccounted == Spec => []Accounted
  <1>1. IInv => Accounted
    BY DEF IInv, CountedIn, Accounted
  <1>q. QED
    BY <1>1, SchedulerInv, PTL

\* The handlers of bound pods never meet a pod in a state that makes updatePod and removePod of
\* cache.go end the process.
THEOREM SchedulerConfirmed == Spec => []Confirmed
  <1>1. IInv => Confirmed
    BY DEF IInv
  <1>q. QED
    BY <1>1, SchedulerInv, PTL

\* No interleaving of failures, events and timers puts a pod into two queues.
THEOREM SchedulerOneQueue == Spec => []OneQueue
  <1>1. IInv => OneQueue
    BY DEF IInv
  <1>q. QED
    BY <1>1, SchedulerInv, PTL

-----------------------------------------------------------------------------
(* the snapshot *)

\* what is not dirty is in the snapshot as it is in the cache
Sync == \A n \in NodeTree \ dirty : snapshot.map[n] = nodes[n]

\* nodeInfoList lists what nodeInfoMap holds
Listed == snapshot.list \subseteq Cached(snapshot.map)

\* What an operation on pods changes is dirty, and it changes no v1.Node.
Marks ==
    /\ snapshot' = snapshot /\ dirty \subseteq dirty'
    /\ \A m \in Nodes : /\ m \notin dirty' => nodes'[m] = nodes[m]
                        /\ m \in NodeTree' <=> m \in NodeTree

\* Subtracting a pod marks the node it was counted on.
LEMMA DropMarks ==
    ASSUME CacheInv, NEW p \in Pods, podStates[p] # NoState, Drop(p)
    PROVE  Marks
  <1> DEFINE n == podStates[p].node
  <1>1. n \in Nodes /\ nodes \in NodeItems
    BY DEF CacheInv, CacheTypeOK, States, NodeItems
  <1>2. /\ nodes' = removePod(nodes, n, p) /\ snapshot' = snapshot
        /\ dirty' = dirty \cup (IF p \in nodes[n].pods THEN {n} ELSE {})
    BY DEF Drop
  <1> HIDE DEF n
  <1>3. nodes' = [nodes EXCEPT ![n].pods = @ \ {p}]
    BY <1>2 DEF removePod
  <1>4. \A m \in Nodes : nodes'[m].st = nodes[m].st
    BY <1>1, <1>3 DEF NodeItems
  <1>5. p \notin nodes[n].pods => nodes' = nodes
    BY <1>1, <1>3 DEF NodeItems
  <1>6. \A m \in Nodes \ {n} : nodes'[m] = nodes[m]
    BY <1>1, <1>3 DEF NodeItems
  <1>q. QED
    BY <1>1, <1>2, <1>4, <1>5, <1>6 DEF Marks, NodeTree

\* So does every operation on pods.
LEMMA PodOpsMark ==
    ASSUME CacheInv, NEW p \in Pods, NEW n,
           \/ n \in Nodes /\ (AssumePod(p, n) \/ AddPod(p, n))
           \/ FinishBinding(p) \/ UpdatePod(p) \/ RemovePod(p) \/ expirePod(p)
           \/ ForgetPod(p, n)
    PROVE  Marks
  <1>1. nodes \in NodeItems
    BY DEF CacheInv, CacheTypeOK, NodeItems
  <1>2. ASSUME UNCHANGED nodes, snapshot' = snapshot, dirty \subseteq dirty'
        PROVE  Marks
    BY <1>2 DEF Marks, NodeTree
  <1>3. ASSUME n \in Nodes, NEW items \in NodeItems, nodes' = addPod(items, n, p),
               NEW D, \A m \in Nodes \ D : items[m] = nodes[m],
               \A m \in Nodes : items[m].st = nodes[m].st,
               dirty' = dirty \cup {n} \cup D, snapshot' = snapshot
        PROVE  Marks
    <2>1. /\ \A m \in Nodes \ {n} : nodes'[m] = items[m]
          /\ nodes'[n].st = IF items[n].st = "absent" THEN "nil" ELSE items[n].st
      BY <1>3 DEF addPod, NodeItems
    <2>2. \A m \in Nodes : m \in NodeTree' <=> m \in NodeTree
      BY <1>3, <2>1 DEF NodeTree
    <2>q. QED
      BY <1>3, <2>1, <2>2 DEF Marks
  <1>4. CASE n \in Nodes /\ AssumePod(p, n)
    <2>1. nodes' = addPod(nodes, n, p) /\ dirty' = dirty \cup {n} \cup {} /\ snapshot' = snapshot
      BY <1>4 DEF AssumePod
    <2>q. QED
      BY <1>1, <1>3, <1>4, <2>1
  <1>5. CASE FinishBinding(p)
    BY <1>2, <1>5 DEF FinishBinding
  <1>6. CASE n \in Nodes /\ AddPod(p, n)
    <2> DEFINE old == podStates[p].node
               items == removePod(nodes, old, p)
               D == IF p \in nodes[old].pods THEN {old} ELSE {}
    <2>1. CASE /\ IsAssumedPod(p) /\ snapshot' = snapshot
               /\ nodes' = addPod(items, n, p) /\ dirty' = dirty \cup {n} \cup D
      <3>1. old \in Nodes
        BY <2>1 DEF IsAssumedPod, CacheInv, States, NoState
      <3>2. items \in NodeItems /\ \A m \in Nodes : items[m].st = nodes[m].st
        BY <1>1, <3>1, RemovePodFacts
      <3>3. \A m \in Nodes \ D : items[m] = nodes[m]
        BY <1>1, <3>1 DEF removePod, NodeItems
      <3> HIDE DEF items, D
      <3>q. QED
        BY <1>3, <1>6, <2>1, <3>2, <3>3
    <2>2. CASE nodes' = addPod(nodes, n, p) /\ dirty' = dirty \cup {n} \cup {}
                 /\ snapshot' = snapshot
      BY <1>1, <1>3, <1>6, <2>2
    <2>3. CASE UNCHANGED <<nodes, dirty, snapshot>>
      BY <1>2, <2>3
    <2>q. QED
      BY <1>6, <2>1, <2>2, <2>3 DEF AddPod, cacheVars
  <1>7. CASE UpdatePod(p)
    BY <1>2, <1>7 DEF UpdatePod, cacheVars
  <1>8. CASE RemovePod(p)
    BY <1>2, <1>8, DropMarks DEF RemovePod, NoState, cacheVars
  <1>9. CASE expirePod(p)
    BY <1>9, DropMarks DEF expirePod, NoState
  <1>10. CASE ForgetPod(p, n)
    BY <1>5, <1>10, DropMarks DEF ForgetPod, IsAssumedPod, NoState
  <1>q. QED
    BY <1>4, <1>5, <1>6, <1>7, <1>8, <1>9, <1>10

\* UpdateSnapshot leaves nodeInfoMap with the present items of all nodes, and, unless some node
\* is only cached for the pods on it, nodeInfoList with these nodes and no other.
LEMMA SnapshotFacts ==
    ASSUME CacheInv, Sync, Listed, NEW ok \in BOOLEAN, UpdateSnapshot(ok)
    PROVE  /\ Sync' /\ Listed'
           /\ \A n \in NodeTree : snapshot'.map[n] = nodes[n]
           /\ ok /\ NodeTree = Cached(nodes) => snapshot'.list = NodeTree
           /\ UNCHANGED <<podStates, nodes>>
  <1> DEFINE map == [n \in Nodes |-> IF n \in Cloned THEN nodes[n] ELSE snapshot.map[n]]
             excess == Cardinality(Cached(map)) - Cardinality(Cached(nodes))
             added == {n \in Cloned : snapshot.map[n].st = "absent"}
             list == IF ListChanged(added, excess) THEN NodeTree ELSE snapshot.list
  <1>1. PICK D \in kSubset(IF excess > 0 THEN excess ELSE 0, Cached(map) \ Cached(nodes)) :
            snapshot' = [map |-> [n \in Nodes |-> IF n \in D THEN NoItem ELSE map[n]],
                         list |-> IF ok THEN list ELSE NodeTree]
    BY DEF UpdateSnapshot
  <1>2. /\ ok <=> Cardinality(list) = Cardinality(NodeTree)
        /\ dirty' = {} /\ UNCHANGED <<podStates, nodes>>
    BY DEF UpdateSnapshot
  <1>3. /\ \A n \in NodeTree : map[n] = nodes[n]
        /\ Cached(snapshot.map) \subseteq Cached(map)
        /\ Cached(map) = Cached(snapshot.map) \cup added
        /\ NodeTree \subseteq Cached(nodes)
    BY DEF Cloned, Sync, NodeTree, Cached
  <1>4. D \subseteq Cached(map) \ Cached(nodes) /\ (~ excess > 0 => Cardinality(D) = 0)
    BY <1>1 DEF kSubset
  <1> HIDE DEF map
  <1>5. \A n \in Nodes : snapshot'.map[n] = IF n \in D THEN NoItem ELSE map[n]
    BY <1>1
  <1>6. \A n \in NodeTree : snapshot'.map[n] = nodes[n]
    BY <1>3, <1>4, <1>5 DEF NodeTree
  <1>7. Sync'
    BY <1>2, <1>6 DEF Sync, NodeTree
  <1>8. \A S \in SUBSET Nodes : IsFiniteSet(S) /\ Cardinality(S) \in Nat
    BY NodesAssumption, FS_Subset, FS_CardinalityType
  <1>9. Cached(map) \in SUBSET Nodes /\ Cached(nodes) \in SUBSET Nodes /\ NodeTree \in SUBSET Nodes
    BY DEF Cached, NodeTree
  <1>10. snapshot'.list = IF ok THEN list ELSE NodeTree
    BY <1>1
  <1>11. CASE snapshot'.list = NodeTree
    <2>1. Listed'
      BY <1>6, <1>11 DEF Listed, NodeTree, Cached
    <2>q. QED
      BY <1>2, <1>6, <1>7, <1>11, <2>1
  <1>12. CASE snapshot'.list # NodeTree
    <2>1. ok /\ ~ excess > 0 /\ added = {} /\ snapshot'.list = snapshot.list
          /\ list = snapshot.list
      BY <1>10, <1>12 DEF ListChanged
    <2>2. D = {}
      BY <1>4, <1>8, <1>9, <2>1, FS_EmptySet
    <2>3. Cached(snapshot.map) \subseteq Cached(snapshot'.map)
      BY <1>3, <1>5, <2>2 DEF Cached
    <2>4. Listed'
      BY <2>1, <2>3 DEF Listed
    <2>5. NodeTree # Cached(nodes)
      <3> SUFFICES ASSUME NodeTree = Cached(nodes) PROVE FALSE
        OBVIOUS
      <3>1. NodeTree \subseteq Cached(map)
        BY <1>3, <1>9 DEF NodeTree, Cached
      <3>2. Cardinality(Cached(map)) <= Cardinality(NodeTree)
        BY <1>8, <1>9, <2>1
      <3>3. NodeTree = Cached(map)
        BY <1>8, <1>9, <3>1, <3>2, FS_Subset
      <3>4. snapshot.list \subseteq NodeTree
        BY <1>3, <3>3 DEF Listed
      <3>5. Cardinality(snapshot.list) = Cardinality(NodeTree)
        BY <1>2, <2>1
      <3>q. QED
        BY <1>8, <1>9, <1>12, <2>1, <3>4, <3>5, FS_Subset
    <2>q. QED
      BY <1>2, <1>6, <1>7, <2>4, <2>5
  <1>q. QED
    BY <1>11, <1>12

\* So do the steps that apply them.
LEMMA StepMarks ==
    ASSUME IInv, NEW p \in Pods,
           \/ Assume(p) \/ Bound_ok(p) \/ BindFails(p) \/ Expire(p)
           \/ addPodToCache(p) \/ updatePodInCache(p) \/ deletePodFromCache(p)
    PROVE  Marks
  <1>0. CacheInv
    BY DEF IInv
  <1>1. CASE Assume(p)
    BY <1>0, <1>1, PodOpsMark DEF Assume, IInv, Hosts
  <1>2. CASE Bound_ok(p) \/ BindFails(p) \/ Expire(p)
    BY <1>0, <1>2, PodOpsMark DEF Bound_ok, BindFails, Expire
  <1>3. CASE addPodToCache(p)
    <2>1. apiPod[p].node \in Nodes
      BY <1>3 DEF addPodToCache, IInv, RestTypeOK
    <2>q. QED
      BY <1>0, <1>3, <2>1, PodOpsMark DEF addPodToCache
  <1>4. CASE updatePodInCache(p) \/ deletePodFromCache(p)
    BY <1>0, <1>4, PodOpsMark DEF updatePodInCache, deletePodFromCache
  <1>q. QED
    BY <1>1, <1>2, <1>3, <1>4

\* The snapshot keeps in step with what is not dirty.
LEMMA StepSnapshot ==
    ASSUME IInv, Sync, Listed, [Next]_vars
    PROVE  Sync' /\ Listed'
  <1>0. CacheInv
    BY DEF IInv
  <1>1. ASSUME Marks PROVE Sync' /\ Listed'
    BY <1>1 DEF Marks, Sync, Listed, NodeTree
  <1>2. CASE UNCHANGED <<cacheVars, lapsed>>
    BY <1>2 DEF cacheVars, Sync, Listed, NodeTree
  <1>3. ASSUME NEW p \in Pods, Schedule(p)
        PROVE  Sync' /\ Listed'
    BY <1>0, <1>3, SnapshotFacts DEF Schedule
  <1>5. ASSUME NEW n \in Nodes, addNodeToCache(n) \/ updateNodeInCache(n)
        PROVE  Sync' /\ Listed'
    <2>1. PICK st \in {"plain", "slo"} : SetNode(n, st)
      BY <1>5 DEF addNodeToCache, updateNodeInCache
    <2>2. /\ n \in dirty' /\ dirty \subseteq dirty' /\ snapshot' = snapshot
          /\ \A m \in Nodes \ {n} : nodes'[m] = nodes[m]
      BY <2>1 DEF SetNode, CacheInv, CacheTypeOK
    <2>q. QED
      BY <2>2 DEF Sync, Listed, NodeTree
  <1>6. ASSUME NEW n \in Nodes, deleteNodeFromCache(n)
        PROVE  Sync' /\ Listed'
    <2>1. /\ dirty' = dirty \ {n} /\ snapshot' = snapshot
          /\ nodes'[n].st = "absent" /\ \A m \in Nodes \ {n} : nodes'[m] = nodes[m]
      BY <1>0, <1>6 DEF deleteNodeFromCache, RemoveNode, NoItem, CacheInv, CacheTypeOK
    <2>q. QED
      BY <2>1 DEF Sync, Listed, NodeTree
  <1>7. CASE Restart
    BY <1>7 DEF Restart, EmptyCache, NoItem, Sync, Listed, NodeTree
  <1>q. QED
    BY <1>1, <1>2, <1>3, <1>5, <1>6, <1>7, StepKinds, StepMarks

-----------------------------------------------------------------------------
(* the claims *)

\* the pods that the snapshots count on a node
Claims(n) == {p \in Pods \ lapsed : podStates[p].node = n}

\* a pod that has been bound keeps its claim until the handlers have seen the end of it
Held ==
    \A p \in Pods \ lapsed :
        apiPod[p].node # NoNode /\ seenC[p] # "done" => podStates[p].node = apiPod[p].node

Over == \A p \in Pods : seenC[p] = "done" => apiPod[p].st = "gone"

\* a pod on its way to the API server is assumed, and cannot expire
Calls ==
    \A p \in Pods : bind[p].step = "call" /\ apiPod[p].st \in {"none", "pending"} =>
        podStates[p] = [node |-> bind[p].host, st |-> "assumed"]

\* claims are on nodes that the snapshots show
OnTree == \A p \in Pods \ lapsed : podStates[p].node \in Nodes => podStates[p].node \in NodeTree

\* a host that has been chosen still has room when the pod is assumed
Decided ==
    cycle.pc = "assume" =>
        cycle.pod \in Pods /\ FitsAmong(cycle.pod, Claims(cycle.host), Capacity[cycle.host])

LedgerInv == Sync /\ Listed /\ Held /\ Over /\ Calls /\ OnTree /\ Decided

\* What the operations on pods do to the states of pods.
LEMMA PodOpsStates ==
    ASSUME CacheInv, NEW p \in Pods, NEW n
    PROVE  /\ AssumePod(p, n) =>
                  /\ podStates[p] = NoState /\ podStates'[p] = [node |-> n, st |-> "assumed"]
                  /\ \A q \in Pods \ {p} : podStates'[q] = podStates[q]
           /\ FinishBinding(p) =>
                  /\ podStates'[p].node = podStates[p].node
                  /\ \A q \in Pods \ {p} : podStates'[q] = podStates[q]
           /\ RemovePod(p) \/ ForgetPod(p, n) \/ expirePod(p) =>
                  /\ podStates'[p].node = podStates[p].node \/ podStates'[p] = NoState
                  /\ \A q \in Pods \ {p} : podStates'[q] = podStates[q]
  <1>1. podStates \in [Pods -> [node : Nodes \cup {NoNode},
                                st : {"none", "assumed", "expirable", "added"}]]
    BY DEF CacheInv, CacheTypeOK
  <1>2. ASSUME AssumePod(p, n)
        PROVE  /\ podStates[p] = NoState /\ podStates'[p] = [node |-> n, st |-> "assumed"]
               /\ \A q \in Pods \ {p} : podStates'[q] = podStates[q]
    BY <1>1, <1>2 DEF AssumePod
  <1>3. ASSUME FinishBinding(p)
        PROVE  /\ podStates'[p].node = podStates[p].node
               /\ \A q \in Pods \ {p} : podStates'[q] = podStates[q]
    BY <1>1, <1>3 DEF FinishBinding
  <1>4. ASSUME RemovePod(p) \/ ForgetPod(p, n) \/ expirePod(p)
        PROVE  /\ podStates'[p].node = podStates[p].node \/ podStates'[p] = NoState
               /\ \A q \in Pods \ {p} : podStates'[q] = podStates[q]
    <2>1. CASE Drop(p)
      BY <1>1, <2>1 DEF Drop
    <2>q. QED
      BY <1>3, <1>4, <2>1 DEF RemovePod, ForgetPod, expirePod, cacheVars
  <1>q. QED
    BY <1>2, <1>3, <1>4

\* AddPod leaves a pod that was not added yet as added on its node.
LEMMA AddPodStates ==
    ASSUME CacheInv, NEW p \in Pods, AddPod(p, apiPod[p].node), podStates[p].st # "added"
    PROVE  /\ podStates'[p] = [node |-> apiPod[p].node, st |-> "added"]
           /\ \A q \in Pods \ {p} : podStates'[q] = podStates[q]
  <1> DEFINE k == apiPod[p].node
  <1>1. \/ podStates' = [podStates EXCEPT ![p] = [node |-> k, st |-> "added"]]
        \/ podStates[p].node = k /\ podStates' = [podStates EXCEPT ![p].st = "added"]
    BY DEF AddPod
  <1>q. QED
    BY <1>1 DEF CacheInv, CacheTypeOK

\* Only assume makes a claim that is counted; the rest give claims up or lose count of them.
LEMMA StepClaims ==
    ASSUME IInv, Held, [Next]_vars
    PROVE  /\ lapsed \subseteq lapsed'
           /\ \A q \in Pods \ lapsed' : \/ podStates'[q].node \in {podStates[q].node, NoNode}
                                        \/ Assume(q)
  <1>0. CacheInv
    BY DEF IInv
  <1>1. CASE UNCHANGED <<cacheVars, lapsed>>
    BY <1>1 DEF cacheVars
  <1>2. ASSUME NEW p \in Pods, Schedule(p) \/ updatePodInCache(p)
        PROVE  UNCHANGED <<podStates, lapsed>>
    BY <1>2 DEF Schedule, UpdateSnapshot, updatePodInCache, UpdatePod, cacheVars
  <1>3. ASSUME NEW p \in Pods, Bound_ok(p) \/ BindFails(p) \/ Expire(p) \/ deletePodFromCache(p)
        PROVE  /\ lapsed \subseteq lapsed'
               /\ \A q \in Pods : podStates'[q].node \in {podStates[q].node, NoNode}
    <2>1. lapsed \subseteq lapsed'
      BY <1>3 DEF Bound_ok, BindFails, Expire, deletePodFromCache
    <2>2. FinishBinding(p) \/ RemovePod(p) \/ ForgetPod(p, bind[p].host) \/ expirePod(p)
      BY <1>3 DEF Bound_ok, BindFails, Expire, deletePodFromCache
    <2>q. QED
      <3>1. podStates'[p].node = podStates[p].node \/ podStates'[p] = NoState
        BY <1>0, <2>2, PodOpsStates
      <3>2. \A q \in Pods \ {p} : podStates'[q] = podStates[q]
        BY <1>0, <2>2, PodOpsStates
      <3>q. QED
        BY <2>1, <3>1, <3>2 DEF NoState
  <1>4. ASSUME NEW p \in Pods, addPodToCache(p)
        PROVE  /\ lapsed \subseteq lapsed'
               /\ \A q \in Pods \ lapsed' : podStates'[q].node = podStates[q].node
    <2>1. /\ AddPod(p, apiPod[p].node) /\ seenC[p] = "no" /\ lapsed' = lapsed
          /\ apiPod[p].node # NoNode
      BY <1>4 DEF addPodToCache
    <2>2. podStates[p].st # "added"
      BY <2>1 DEF IInv, Told
    <2>3. /\ podStates'[p] = [node |-> apiPod[p].node, st |-> "added"]
          /\ \A q \in Pods \ {p} : podStates'[q] = podStates[q]
      BY <1>0, <2>1, <2>2, AddPodStates
    <2>4. p \notin lapsed => podStates[p].node = apiPod[p].node
      BY <2>1 DEF Held
    <2>q. QED
      BY <2>1, <2>3, <2>4
  <1>5. ASSUME NEW p \in Pods, Assume(p)
        PROVE  /\ lapsed \subseteq lapsed'
               /\ \A q \in Pods \ {p} : podStates'[q].node = podStates[q].node
    BY <1>0, <1>5, PodOpsStates DEF Assume
  <1>6. ASSUME NEW n \in Nodes,
               addNodeToCache(n) \/ updateNodeInCache(n) \/ deleteNodeFromCache(n)
        PROVE  lapsed \subseteq lapsed' /\ podStates' = podStates
    BY <1>6 DEF addNodeToCache, updateNodeInCache, deleteNodeFromCache, SetNode, RemoveNode
  <1>7. CASE Restart
    BY <1>7 DEF Restart, EmptyCache, NoState
  <1>q. QED
    BY <1>1, <1>2, <1>3, <1>4, <1>5, <1>6, <1>7, StepKinds

\* Claims stay on nodes that are there: assume excuses its pod when the node is not, and so does
\* the deletion of a node.
LEMMA StepOnTree ==
    ASSUME IInv, Held, OnTree, [Next]_vars
    PROVE  OnTree'
  <1>1. /\ lapsed \subseteq lapsed'
        /\ \A q \in Pods \ lapsed' : \/ podStates'[q].node \in {podStates[q].node, NoNode}
                                     \/ Assume(q)
    BY StepClaims
  <1>2. ASSUME NEW q \in Pods \ lapsed', Assume(q)
        PROVE  podStates'[q].node \in NodeTree
    <2>1. AssumePod(q, cycle.host) /\ cycle.host \in NodeTree /\ CacheInv
      BY <1>2 DEF Assume, IInv
    <2>2. podStates'[q] = [node |-> cycle.host, st |-> "assumed"]
      BY <2>1, PodOpsStates
    <2>q. QED
      BY <2>1, <2>2
  <1>3. ASSUME NodeTree \subseteq NodeTree'
        PROVE  OnTree'
    BY <1>1, <1>2, <1>3, NoNodeAssumption DEF OnTree
  <1>4. CASE UNCHANGED <<cacheVars, lapsed>>
    BY <1>3, <1>4 DEF cacheVars, NodeTree
  <1>5. ASSUME NEW p \in Pods, Schedule(p)
        PROVE  OnTree'
    BY <1>3, <1>5 DEF Schedule, UpdateSnapshot, NodeTree
  <1>6. ASSUME Marks PROVE OnTree'
    BY <1>3, <1>6 DEF Marks, NodeTree
  <1>7. ASSUME NEW n \in Nodes, addNodeToCache(n) \/ updateNodeInCache(n)
        PROVE  OnTree'
    <2>1. PICK st \in {"plain", "slo"} : SetNode(n, st)
      BY <1>7 DEF addNodeToCache, updateNodeInCache
    <2>2. NodeTree \subseteq NodeTree'
      BY <2>1 DEF SetNode, NodeTree, IInv, CacheInv, CacheTypeOK
    <2>q. QED
      BY <1>3, <2>2
  <1>8. ASSUME NEW n \in Nodes, deleteNodeFromCache(n)
        PROVE  OnTree'
    <2>1. /\ podStates' = podStates
          /\ lapsed' = lapsed \cup {p \in Pods : podStates[p].node = n}
          /\ \A m \in Nodes \ {n} : nodes'[m] = nodes[m]
      BY <1>8 DEF deleteNodeFromCache, RemoveNode, IInv, CacheInv, CacheTypeOK
    <2>q. QED
      BY <2>1 DEF OnTree, NodeTree
  <1>9. CASE Restart
    BY <1>9, NoNodeAssumption DEF Restart, EmptyCache, NoState, OnTree
  <1>q. QED
    BY <1>4, <1>5, <1>6, <1>7, <1>8, <1>9, StepKinds, StepMarks

\* Only assume starts a binding, only Schedule and what follows change the cycle, and a pod that
\* has been bound or is gone does not become pending again.
LEMMA StepBind ==
    ASSUME IInv, [Next]_vars
    PROVE  /\ \A p \in Pods : /\ bind'[p].step = "call" => bind'[p] = bind[p] \/ Assume(p)
                              /\ apiPod'[p].st \in {"none", "pending"} =>
                                     apiPod[p].st \in {"none", "pending"}
           /\ cycle'.pc = "assume" => cycle' = cycle \/ \E p \in Pods : Schedule(p)
  <1> DEFINE Started == \A p \in Pods : bind'[p].step = "call" => bind'[p] = bind[p] \/ Assume(p)
             Ended == \A p \in Pods : apiPod'[p].st \in {"none", "pending"} =>
                                         apiPod[p].st \in {"none", "pending"}
             Chosen == cycle'.pc = "assume" => cycle' = cycle \/ \E p \in Pods : Schedule(p)
  <1>0. /\ apiPod \in [Pods -> [st : {"none", "pending", "bound", "gone"},
                                node : Nodes \cup {NoNode}]]
        /\ bind \in [Pods -> [step : {"none", "call", "ok", "err", "record"},
                              host : Nodes \cup {NoNode}]]
        /\ cycle \in [pc : {"pop", "schedule", "assume", "fail"},
                      pod : Pods \cup {NoPod}, host : Nodes \cup {NoNode}]
    BY DEF IInv, RestTypeOK
  <1>1. ASSUME UNCHANGED <<bind, apiPod>> PROVE Started /\ Ended
    BY <1>1
  <1>2. ASSUME NEW p \in Pods,
               \/ PopPod(p) \/ SkipPod(p) \/ Schedule(p) \/ AssumeFails(p) \/ FailPod(p)
        PROVE  UNCHANGED <<bind, apiPod>> /\ Chosen
    <2>1. UNCHANGED <<bind, apiPod>>
      BY <1>2 DEF PopPod, SkipPod, Schedule, AssumeFails, FailPod, apiVars
    <2>2. ASSUME ~ Schedule(p)
          PROVE  cycle'.pc # "assume"
      <3>1. \/ cycle' = [cycle EXCEPT !.pc = "schedule", !.pod = p]
            \/ cycle' = [cycle EXCEPT !.pc = "fail", !.host = NoNode]
            \/ cycle' = Rest
        BY <1>2, <2>2 DEF PopPod, SkipPod, AssumeFails, FailPod
      <3>2. CASE cycle' = [cycle EXCEPT !.pc = "schedule", !.pod = p]
        BY <1>0, <3>2
      <3>3. CASE cycle' = [cycle EXCEPT !.pc = "fail", !.host = NoNode]
        BY <1>0, <3>3
      <3>q. QED
        BY <3>1, <3>2, <3>3 DEF Rest
    <2>q. QED
      BY <2>1, <2>2
  <1>3. ASSUME NEW p \in Pods,
               \/ Retry(p) \/ FlushBackoff(p) \/ FlushUnschedulable(p) \/ Expire(p)
               \/ updatePodInSchedulingQueue(p) \/ deletePodFromSchedulingQueue(p)
               \/ addPodToCache(p) \/ updatePodInCache(p) \/ deletePodFromCache(p) \/ Missed(p)
        PROVE  UNCHANGED <<bind, apiPod, cycle>>
    BY <1>3 DEF Retry, FlushBackoff, FlushUnschedulable, Expire, updatePodInSchedulingQueue,
        deletePodFromSchedulingQueue, addPodToCache, updatePodInCache, deletePodFromCache,
        Missed, apiVars
  <1>4. ASSUME \/ \E n \in Nodes : \/ addNodeToCache(n) \/ updateNodeInCache(n)
                                  \/ deleteNodeFromCache(n) \/ NodeChanges(n)
               \/ PodHandlerMoves \/ NodeHandlerMoves \/ UNCHANGED vars
        PROVE  UNCHANGED <<bind, apiPod, cycle>>
    BY <1>4 DEF addNodeToCache, updateNodeInCache, deleteNodeFromCache, NodeChanges,
        PodHandlerMoves, NodeHandlerMoves, World, vars, apiVars
  <1>5. ASSUME NEW p \in Pods, Assume(p)
        PROVE  Started /\ Ended /\ Chosen
    <2>1. /\ bind' = [bind EXCEPT ![p] = [step |-> "call", host |-> cycle.host]]
          /\ cycle' = Rest /\ apiPod' = apiPod
      BY <1>5 DEF Assume, apiVars
    <2>2. \A q \in Pods \ {p} : bind'[q] = bind[q]
      BY <1>0, <2>1
    <2>q. QED
      BY <1>5, <2>1, <2>2 DEF Rest
  <1>6. ASSUME NEW p \in Pods, Bind(p)
        PROVE  Started /\ Ended /\ Chosen
    <2>1. /\ bind' = [bind EXCEPT ![p].step = "ok"] \/ bind' = [bind EXCEPT ![p].step = "err"]
          /\ cycle' = cycle
      BY <1>6 DEF Bind
    <2>2. \/ apiPod' = apiPod
          \/ apiPod' = [apiPod EXCEPT ![p] = [st |-> "bound", node |-> bind[p].host]]
      BY <1>6 DEF Bind
    <2>3. Started
      BY <1>0, <2>1
    <2>4. Ended
      <3>1. CASE apiPod' = apiPod
        BY <3>1
      <3>2. CASE apiPod' = [apiPod EXCEPT ![p] = [st |-> "bound", node |-> bind[p].host]]
        <4>1. apiPod'[p].st = "bound" /\ \A q \in Pods \ {p} : apiPod'[q] = apiPod[q]
          BY <1>0, <3>2
        <4>q. QED
          BY <4>1
      <3>q. QED
        BY <2>2, <3>1, <3>2
    <2>q. QED
      BY <2>1, <2>3, <2>4
  <1>7. ASSUME NEW p \in Pods, Bound_ok(p) \/ BindFails(p) \/ BindRecorded(p)
        PROVE  Started /\ Ended /\ Chosen
    <2>1. /\ bind' = [bind EXCEPT ![p] = NoBind] \/ bind' = [bind EXCEPT ![p].step = "record"]
          /\ cycle' = cycle /\ apiPod' = apiPod
      BY <1>7 DEF Bound_ok, BindFails, BindRecorded, apiVars
    <2>2. Started
      BY <1>0, <2>1 DEF NoBind
    <2>q. QED
      BY <2>1, <2>2
  <1>8. ASSUME NEW p \in Pods, addPodToSchedulingQueue(p) \/ PodDeleted(p)
        PROVE  Started /\ Ended /\ Chosen
    <2>1. /\ bind' = bind /\ cycle' = cycle
          /\ \/ apiPod[p].st = "none" /\ apiPod' = [apiPod EXCEPT ![p].st = "pending"]
             \/ apiPod' = [apiPod EXCEPT ![p].st = "gone"]
      BY <1>8 DEF addPodToSchedulingQueue, PodDeleted, World
    <2>2. Ended
      BY <1>0, <2>1
    <2>q. QED
      BY <2>1, <2>2
  <1>9. CASE Restart
    BY <1>9 DEF Restart, NoBind, Rest, apiVars
  <1>q. QED
    BY <1>1, <1>2, <1>3, <1>4, <1>5, <1>6, <1>7, <1>8, <1>9 DEF Next, ScheduleOne, Binding

\* A pod on its way to the API server stays assumed: it cannot expire before finishBinding, no
\* handler has heard of it, and no other goroutine binds it.
LEMMA StepCalls ==
    ASSUME IInv, Calls, [Next]_vars
    PROVE  Calls'
  <1>0. CacheInv
    BY DEF IInv
  <1>1. SUFFICES ASSUME NEW p \in Pods, bind'[p].step = "call", apiPod'[p].st \in {"none", "pending"}
                 PROVE  podStates'[p] = [node |-> bind'[p].host, st |-> "assumed"]
    BY DEF Calls
  <1>2. CASE Assume(p)
    <2>1. bind'[p].host = cycle.host /\ AssumePod(p, cycle.host)
      BY <1>2 DEF Assume, IInv, RestTypeOK
    <2>q. QED
      BY <1>0, <2>1, PodOpsStates
  <1>3. CASE ~ Assume(p)
    <2>1. bind'[p] = bind[p] /\ apiPod[p].st \in {"none", "pending"}
      BY <1>1, <1>3, StepBind
    <2>2. podStates[p] = [node |-> bind[p].host, st |-> "assumed"]
      BY <1>1, <2>1 DEF Calls
    <2>3. apiPod[p].node = NoNode /\ seenC[p] # "yes"
      BY <2>1 DEF IInv, Hosts, Told
    <2>4. ASSUME NEW q \in Pods, Assume(q) \/ Bound_ok(q) \/ BindFails(q) \/ Expire(q)
                                   \/ deletePodFromCache(q)
          PROVE  p # q /\ \A r \in Pods \ {q} : podStates'[r] = podStates[r]
      <3>1. p # q
        BY <1>1, <1>3, <2>1, <2>2, <2>3, <2>4
           DEF Bound_ok, BindFails, Expire, expirePod, deletePodFromCache
      <3>2. \/ AssumePod(q, cycle.host) \/ FinishBinding(q) \/ ForgetPod(q, bind[q].host)
            \/ expirePod(q) \/ RemovePod(q)
        BY <2>4 DEF Assume, Bound_ok, BindFails, Expire, deletePodFromCache
      <3>3. \A r \in Pods \ {q} : podStates'[r] = podStates[r]
        BY <1>0, <3>2, PodOpsStates
      <3>q. QED
        BY <3>1, <3>3
    <2>5. ASSUME NEW q \in Pods, addPodToCache(q)
          PROVE  p # q /\ \A r \in Pods \ {q} : podStates'[r] = podStates[r]
      <3>1. /\ AddPod(q, apiPod[q].node) /\ seenC[q] = "no" /\ apiPod[q].node # NoNode
        BY <2>5 DEF addPodToCache
      <3>2. podStates[q].st # "added"
        BY <3>1 DEF IInv, Told
      <3>q. QED
        BY <1>0, <2>3, <3>1, <3>2, AddPodStates
    <2>6. ASSUME NEW q \in Pods,
                 Bind(q) \/ addPodToSchedulingQueue(q) \/ Missed(q) \/ PodDeleted(q)
          PROVE  podStates' = podStates
      BY <2>6 DEF Bind, addPodToSchedulingQueue, Missed, PodDeleted, World, cacheVars
    <2>7. ~ Restart
      BY <1>1 DEF Restart, NoBind
    <2>8. podStates'[p] = podStates[p]
      BY <2>4, <2>5, <2>6, <2>7, StepQuiet
    <2>q. QED
      BY <2>1, <2>2, <2>8
  <1>q. QED
    BY <1>2, <1>3

\* What the handlers of bound pods are done with is gone.
LEMMA StepOver ==
    ASSUME IInv, Over, [Next]_vars
    PROVE  Over'
  <1>0. /\ apiPod \in [Pods -> [st : {"none", "pending", "bound", "gone"},
                                node : Nodes \cup {NoNode}]]
        /\ seenC \in [Pods -> {"no", "yes", "done"}]
    BY DEF IInv, RestTypeOK
  <1>1. CASE UNCHANGED <<podStates, seenC, apiPod>>
    BY <1>1 DEF Over
  <1>2. ASSUME NEW p \in Pods, Assume(p) \/ Bound_ok(p) \/ BindFails(p) \/ Expire(p)
        PROVE  UNCHANGED <<seenC, apiPod>>
    BY <1>2 DEF Assume, Bound_ok, BindFails, Expire, apiVars, toldVars
  <1>3. ASSUME NEW p \in Pods, Bind(p) \/ addPodToSchedulingQueue(p) \/ PodDeleted(p)
        PROVE  Over'
    <2>1. /\ seenC' = seenC
          /\ \/ apiPod' = apiPod
             \/ apiPod[p].st # "gone" /\ \E r : apiPod' = [apiPod EXCEPT ![p] = r]
             \/ apiPod' = [apiPod EXCEPT ![p].st = "gone"]
      BY <1>3 DEF Bind, Bindable, Pending, addPodToSchedulingQueue, PodDeleted, World, toldVars
    <2>2. \A q \in Pods : apiPod[q].st = "gone" => apiPod'[q].st = "gone"
      BY <1>0, <2>1
    <2>q. QED
      BY <2>1, <2>2 DEF Over
  <1>4. ASSUME NEW p \in Pods, addPodToCache(p) \/ deletePodFromCache(p) \/ Missed(p)
        PROVE  Over'
    <2>1. /\ apiPod' = apiPod
          /\ \/ seenC' = [seenC EXCEPT ![p] = "yes"]
             \/ apiPod[p].st = "gone" /\ seenC' = [seenC EXCEPT ![p] = "done"]
      BY <1>4 DEF addPodToCache, deletePodFromCache, Missed, apiVars
    <2>q. QED
      BY <1>0, <2>1 DEF Over
  <1>5. CASE Restart
    BY <1>5 DEF Restart, apiVars, Over
  <1>q. QED
    BY <1>1, <1>2, <1>3, <1>4, <1>5, StepQuiet DEF Over

\* A pod that has been bound loses its claim only with the cache losing count of it or the
\* handlers seeing its end; it is bound where it has its claim.
LEMMA StepHeld ==
    ASSUME IInv, Held, Over, Calls, [Next]_vars
    PROVE  Held'
  <1>0. CacheInv
    BY DEF IInv
  <1>1. lapsed \subseteq lapsed'
    BY StepClaims
  <1>2. SUFFICES ASSUME NEW p \in Pods \ lapsed', apiPod'[p].node # NoNode, seenC'[p] # "done",
                        podStates'[p].node # apiPod'[p].node
                 PROVE  FALSE
    BY DEF Held
  <1>3. p \in Pods \ lapsed
    BY <1>1, <1>2
  <1>4. apiPod[p].node # NoNode /\ seenC[p] # "done" => podStates[p].node = apiPod[p].node
    BY <1>3 DEF Held
  <1>5. CASE UNCHANGED <<podStates, seenC, apiPod>>
    BY <1>2, <1>4, <1>5
  <1>6. ASSUME NEW q \in Pods, Assume(q)
        PROVE  FALSE
    <2>1. /\ podStates[q] = NoState /\ \A r \in Pods \ {q} : podStates'[r] = podStates[r]
          /\ UNCHANGED <<apiPod, seenC>>
      BY <1>0, <1>6, PodOpsStates DEF Assume, apiVars, toldVars
    <2>q. QED
      BY <1>2, <1>4, <2>1 DEF NoState
  <1>7. ASSUME NEW q \in Pods, Bind(q)
        PROVE  FALSE
    <2>1. podStates' = podStates /\ seenC' = seenC
      BY <1>7 DEF Bind, cacheVars, toldVars
    <2>2. \/ apiPod' = apiPod
          \/ /\ Pending(q) /\ bind[q].step = "call"
             /\ apiPod' = [apiPod EXCEPT ![q] = [st |-> "bound", node |-> bind[q].host]]
      BY <1>7 DEF Bind, Bindable
    <2>3. CASE apiPod' = apiPod
      BY <1>2, <1>4, <2>1, <2>3
    <2>4. CASE apiPod' # apiPod
      <3>1. podStates[q] = [node |-> bind[q].host, st |-> "assumed"]
        BY <2>2, <2>4 DEF Calls, Pending
      <3>2. /\ apiPod'[q].node = bind[q].host
            /\ \A r \in Pods \ {q} : apiPod'[r] = apiPod[r]
        BY <2>2, <2>4 DEF IInv, RestTypeOK
      <3>q. QED
        BY <1>2, <1>4, <2>1, <3>1, <3>2
    <2>q. QED
      BY <2>3, <2>4
  <1>8. ASSUME NEW q \in Pods, Bound_ok(q)
        PROVE  FALSE
    <2>1. FinishBinding(q) /\ UNCHANGED <<apiPod, seenC>>
      BY <1>8 DEF Bound_ok, apiVars, toldVars
    <2>2. podStates'[p].node = podStates[p].node
      BY <1>0, <2>1, PodOpsStates
    <2>q. QED
      BY <1>2, <1>4, <2>1, <2>2
  <1>9. ASSUME NEW q \in Pods, BindFails(q) \/ Expire(q)
        PROVE  FALSE
    <2>1. ForgetPod(q, bind[q].host) \/ expirePod(q)
      BY <1>9 DEF BindFails, Expire
    <2>2. /\ podStates'[q].node = podStates[q].node \/ podStates'[q] = NoState
          /\ \A r \in Pods \ {q} : podStates'[r] = podStates[r]
      BY <1>0, <2>1, PodOpsStates
    <2>3. /\ UNCHANGED <<apiPod, seenC>>
          /\ podStates'[q] = NoState /\ podStates[q] # NoState /\ apiPod[q].node # NoNode =>
                 q \in lapsed'
      BY <1>9 DEF BindFails, Expire, apiVars, toldVars
    <2>4. CASE p = q
      BY <1>2, <1>4, <2>2, <2>3, <2>4
    <2>5. CASE p # q
      BY <1>2, <1>4, <2>2, <2>3, <2>5
    <2>q. QED
      BY <2>4, <2>5
  <1>10. ASSUME NEW q \in Pods, addPodToSchedulingQueue(q) \/ PodDeleted(q)
         PROVE  FALSE
    <2>1. /\ podStates' = podStates /\ seenC' = seenC
          /\ \E s : apiPod' = [apiPod EXCEPT ![q].st = s]
      BY <1>10 DEF addPodToSchedulingQueue, PodDeleted, World, cacheVars, toldVars
    <2>2. apiPod'[p].node = apiPod[p].node
      BY <2>1 DEF IInv, RestTypeOK
    <2>q. QED
      BY <1>2, <1>4, <2>1, <2>2
  <1>11. ASSUME NEW q \in Pods, addPodToCache(q)
         PROVE  FALSE
    <2>1. /\ AddPod(q, apiPod[q].node) /\ seenC[q] = "no"
          /\ apiPod' = apiPod /\ seenC' = [seenC EXCEPT ![q] = "yes"]
      BY <1>11 DEF addPodToCache, apiVars
    <2>2. podStates[q].st # "added"
      BY <2>1 DEF IInv, Told
    <2>3. /\ podStates'[q] = [node |-> apiPod[q].node, st |-> "added"]
          /\ \A r \in Pods \ {q} : podStates'[r] = podStates[r]
      BY <1>0, <2>1, <2>2, AddPodStates
    <2>4. \A r \in Pods \ {q} : seenC'[r] = seenC[r]
      BY <2>1 DEF IInv, RestTypeOK
    <2>q. QED
      BY <1>2, <1>4, <2>1, <2>3, <2>4
  <1>12. ASSUME NEW q \in Pods, deletePodFromCache(q) \/ Missed(q)
         PROVE  FALSE
    <2>1. /\ apiPod' = apiPod /\ seenC' = [seenC EXCEPT ![q] = "done"]
          /\ RemovePod(q) \/ UNCHANGED podStates
      BY <1>12 DEF deletePodFromCache, Missed, apiVars, cacheVars
    <2>2. \A r \in Pods \ {q} : podStates'[r] = podStates[r]
      BY <1>0, <2>1, PodOpsStates
    <2>3. seenC'[q] = "done" /\ \A r \in Pods \ {q} : seenC'[r] = seenC[r]
      BY <2>1 DEF IInv, RestTypeOK
    <2>q. QED
      BY <1>2, <1>4, <2>1, <2>2, <2>3
  <1>13. ASSUME Restart
         PROVE  FALSE
    <2>1. /\ apiPod' = apiPod
          /\ seenC' = [r \in Pods |-> IF apiPod[r].st = "gone" THEN "done" ELSE "no"]
          /\ lapsed' = lapsed \cup {r \in Pods : podStates[r] # NoState /\ apiPod[r].node # NoNode}
      BY <1>13 DEF Restart, apiVars
    <2>2. seenC[p] # "done"
      BY <1>2, <2>1 DEF Over
    <2>3. podStates[p] # NoState
      BY <1>2, <1>4, <2>1, <2>2 DEF NoState
    <2>q. QED
      BY <1>2, <2>1, <2>3
  <1>q. QED
    BY <1>5, <1>6, <1>7, <1>8, <1>9, <1>10, <1>11, <1>12, <1>13, StepQuiet

\* What fits among some pods and less room fits among fewer of them and more room.
LEMMA FitsFewer ==
    ASSUME NEW P \in SUBSET Pods, NEW Q \in SUBSET P, NEW p \in Pods,
           NEW c \in Nat, NEW d \in Nat, c <= d, FitsAmong(p, P, c)
    PROVE  FitsAmong(p, Q, d)
  <1>1. Requested(P) = Sum(Slo, P) /\ Requested(Q) = Sum(Slo, Q)
    BY DEF Requested, Sum
  <1>2. IsFiniteSet(P) /\ IsFiniteSet(Q) /\ \A q \in Pods : Slo[q] \in Nat
    BY PodsAssumption, FS_Subset, SloAssumption
  <1>3. Sum(Slo, P) \in Nat /\ Sum(Slo, Q) \in Nat
    BY <1>2, SumType
  <1>4. Sum(Slo, Q) <= Sum(Slo, P)
    BY <1>2, SumSubset
  <1>q. QED
    BY <1>1, <1>2, <1>3, <1>4 DEF FitsAmong

\* A host is chosen with room for the pod beside all claims on it: the snapshot shows them, or
\* its entry is that of a node that is gone, on which no claim is counted.
LEMMA ScheduleDecides ==
    ASSUME IInv, Sync, Listed, OnTree, NEW p \in Pods, Schedule(p)
    PROVE  Decided'
  <1>1. SUFFICES ASSUME cycle'.pc = "assume"
                 PROVE  /\ cycle'.pod \in Pods
                        /\ FitsAmong(cycle.pod, Claims(cycle.host), Capacity[cycle.host])'
    BY DEF Decided
  <1>2. PICK ok \in BOOLEAN : UpdateSnapshot(ok)
    BY DEF Schedule
  <1>3. /\ \A n \in NodeTree : snapshot'.map[n] = nodes[n]
        /\ UNCHANGED <<podStates, nodes>>
    BY <1>2, SnapshotFacts DEF IInv
  <1>4. lapsed' = lapsed
    BY DEF Schedule
  <1>5. PICK n \in snapshot'.list : /\ Fits(p, n, snapshot'.map[n])
                                    /\ cycle' = [cycle EXCEPT !.pc = "assume", !.host = n]
    <2>1. cycle \in [pc : {"pop", "schedule", "assume", "fail"},
                     pod : Pods \cup {NoPod}, host : Nodes \cup {NoNode}]
      BY DEF IInv, RestTypeOK
    <2>2. cycle' # [cycle EXCEPT !.pc = "fail"]
      BY <1>1, <2>1
    <2>q. QED
      BY <2>2 DEF Schedule
  <1>6. cycle'.pod = p /\ cycle'.host = n
    <2>1. cycle.pod = p
      BY DEF Schedule
    <2>2. cycle \in [pc : {"pop", "schedule", "assume", "fail"},
                     pod : Pods \cup {NoPod}, host : Nodes \cup {NoNode}]
      BY DEF IInv, RestTypeOK
    <2>q. QED
      BY <1>5, <2>1, <2>2
  <1>7. CacheInv'
    BY <1>2, SnapshotInv DEF IInv
  <1> DEFINE item == snapshot'.map[n]
  <1>8. n \in Nodes /\ item.pods \in SUBSET Pods
    BY <1>5, <1>7 DEF CacheInv, CacheTypeOK
  <1>9. Claims(cycle.host)' = Claims(n)
    BY <1>3, <1>4, <1>6 DEF Claims
  <1>10. Claims(n) \in SUBSET item.pods
    <2>1. CASE n \in NodeTree
      <3>1. item.pods = nodes[n].pods
        BY <1>3, <2>1
      <3>q. QED
        BY <1>8, <3>1 DEF IInv, CountedIn, Claims
    <2>2. CASE n \notin NodeTree
      <3>1. Claims(n) = {}
        BY <1>8, <2>2 DEF OnTree, Claims
      <3>q. QED
        BY <3>1
    <2>q. QED
      BY <2>1, <2>2
  <1>11. /\ Allocatable(n, item) \in Nat /\ Capacity[n] \in Nat
         /\ Allocatable(n, item) <= Capacity[n]
    BY <1>8, CapacityAssumption DEF Allocatable
  <1>12. FitsAmong(p, item.pods, Allocatable(n, item))
    BY <1>5 DEF Fits
  <1> HIDE DEF item
  <1>13. FitsAmong(p, Claims(n), Capacity[n])
    BY <1>8, <1>10, <1>11, <1>12, FitsFewer
  <1>q. QED
    BY <1>6, <1>9, <1>13

\* Until the pod is assumed there, no claim is added to the node.
LEMMA StepDecided ==
    ASSUME IInv, Sync, Listed, Held, OnTree, Decided, [Next]_vars
    PROVE  Decided'
  <1>1. CASE \E p \in Pods : Schedule(p)
    BY <1>1, ScheduleDecides
  <1>2. CASE cycle' = cycle /\ cycle.pc = "assume"
    <2> DEFINE n == cycle.host
    <2>1. n \in Nodes /\ cycle.pod \in Pods /\ FitsAmong(cycle.pod, Claims(n), Capacity[n])
      BY <1>2 DEF IInv, Hosts, Decided
    <2>2. \A q \in Pods : ~ Assume(q)
      BY <1>2 DEF Assume, Rest
    <2>3. Claims(n)' \in SUBSET Claims(n) /\ Claims(n) \in SUBSET Pods
      <3>1. /\ lapsed \subseteq lapsed'
            /\ \A q \in Pods \ lapsed' : podStates'[q].node \in {podStates[q].node, NoNode}
        BY <2>2, StepClaims
      <3>2. n' = n
        BY <1>2
      <3>q. QED
        BY <2>1, <3>1, <3>2, NoNodeAssumption DEF Claims
    <2>4. Capacity[n] \in Nat /\ Capacity[n] <= Capacity[n]
      BY <2>1, CapacityAssumption
    <2>5. FitsAmong(cycle.pod, Claims(n)', Capacity[n])
      BY <2>1, <2>3, <2>4, FitsFewer
    <2>q. QED
      BY <1>2, <2>1, <2>5 DEF Decided
  <1>3. CASE cycle'.pc # "assume"
    BY <1>3 DEF Decided
  <1>q. QED
    BY <1>1, <1>2, <1>3, StepBind

\* Together with IInv these are inductive.
LEMMA SchedulerLedgerInv == Spec => [](IInv /\ LedgerInv)
  <1>1. Init => LedgerInv
    BY NoNodeAssumption
       DEF Init, InitCache, NoState, NoItem, Rest, NoBind, NodeTree, Cached,
           LedgerInv, Sync, Listed, Held, Over, Calls, OnTree, Decided
  <1>2. IInv /\ LedgerInv /\ [Next]_vars => LedgerInv'
    BY StepSnapshot, StepHeld, StepOver, StepCalls, StepOnTree, StepDecided DEF LedgerInv
  <1>q. QED
    BY <1>1, <1>2, SchedulerInv, PTL DEF Spec

\* Whatever is deleted, added again and counted on nodes that are gone meanwhile, a host is chosen
\* from a snapshot with the present items of all nodes, and, unless some node is only cached for
\* the pods on it, from no other node (UpdateSnapshot).
THEOREM SchedulerSnapshotFresh == Spec => SnapshotFresh
  <1> DEFINE Fresh == cycle.pc = "schedule" /\ cycle'.pc = "assume" /\ NodeTree = Cached(nodes) =>
                          /\ snapshot'.list = NodeTree
                          /\ \A n \in NodeTree : snapshot'.map[n] = nodes[n]
  <1>1. IInv /\ LedgerInv /\ [Next]_vars => [Fresh]_vars
    <2> SUFFICES ASSUME IInv, LedgerInv, [Next]_vars,
                        cycle.pc = "schedule", cycle'.pc = "assume", NodeTree = Cached(nodes)
                 PROVE  /\ snapshot'.list = NodeTree
                        /\ \A n \in NodeTree : snapshot'.map[n] = nodes[n]
      OBVIOUS
    <2>1. PICK p \in Pods : Schedule(p)
      BY StepBind
    <2>2. PICK ok \in BOOLEAN : UpdateSnapshot(ok) /\ (~ ok => cycle' = [cycle EXCEPT !.pc = "fail"])
      BY <2>1 DEF Schedule
    <2>3. ok
      BY <2>2 DEF IInv, RestTypeOK
    <2>q. QED
      BY <2>2, <2>3, SnapshotFacts DEF IInv, LedgerInv
  <1>q. QED
    BY <1>1, SchedulerLedgerInv, PTL DEF Spec, SnapshotFresh

-----------------------------------------------------------------------------
(* the ledger *)

\* What SloLedgerProofs proves of the ledger, of the one the scheduler keeps.
LedgerP == INSTANCE SloLedgerProofs WITH
    claim <- [p \in Pods |-> podStates[p].node],
    placed <- [p \in Pods |-> apiPod[p].node],
    over <- {p \in Pods : apiPod[p].st = "gone"},
    excused <- lapsed

\* The sums of the instances are those of the scheduler.
LEMMA SameSums ==
    ASSUME NEW P \in SUBSET Pods
    PROVE  Ledger!Requested(P) = Requested(P) /\ LedgerP!Requested(P) = Requested(P)
  <1>1. Requested(P) = Sum(Slo, P)
    BY DEF Requested, Sum
  <1>2. Ledger!Requested(P) = Sum(Slo, P)
    BY DEF Ledger!Requested, Sum, Ledger!MapThenSumSet, MapThenSumSet,
           Ledger!MapThenFoldSet, MapThenFoldSet
  <1>3. LedgerP!Requested(P) = Sum(Slo, P)
    BY DEF LedgerP!Requested, Sum, LedgerP!MapThenSumSet, MapThenSumSet,
           LedgerP!MapThenFoldSet, MapThenFoldSet
  <1>q. QED
    BY <1>1, <1>2, <1>3

\* The node of every pod in the cache stays the same.
SameClaims == \A p \in Pods : podStates'[p].node = podStates[p].node

SamePlaced == \A p \in Pods : /\ apiPod'[p].node = apiPod[p].node
                              /\ apiPod'[p].st = "gone" <=> apiPod[p].st = "gone"

\* A step that changes neither claims nor placements stutters.
LEMMA LedgerStutters ==
    ASSUME SameClaims, SamePlaced, lapsed' = lapsed
    PROVE  UNCHANGED Ledger!vars
  BY DEF SameClaims, SamePlaced, Ledger!vars

\* assume claims.
LEMMA LedgerClaims ==
    ASSUME IInv, LedgerInv, NEW p \in Pods, Assume(p)
    PROVE  \E n \in Nodes : Ledger!Claim(p, n)
  <1>0. PICK n \in Nodes : n = cycle.host
    BY DEF Assume, IInv, Hosts
  <1>1. /\ cycle.pc = "assume" /\ cycle.pod = p /\ AssumePod(p, n) /\ apiPod' = apiPod
        /\ lapsed' \in {lapsed, lapsed \cup {p}}
    BY <1>0 DEF Assume, apiVars
  <1>2. n \in Nodes /\ FitsAmong(p, Claims(n), Capacity[n])
    BY <1>0, <1>1 DEF LedgerInv, Decided
  <1>3. /\ podStates[p] = NoState /\ podStates'[p] = [node |-> n, st |-> "assumed"]
        /\ \A q \in Pods \ {p} : podStates'[q] = podStates[q]
    BY <1>1, PodOpsStates DEF IInv
  <1>4. Claims(n) \in SUBSET Pods
    BY DEF Claims
  <1>5. Ledger!FitsAmong(p, Claims(n), Capacity[n])
    BY <1>2, <1>4, SameSums DEF FitsAmong, Ledger!FitsAmong
  <1>6. {q \in Pods \ lapsed : [r \in Pods |-> podStates[r].node][q] = n} = Claims(n)
    BY DEF Claims
  <1>7. Ledger!FitsAmong(p, {q \in Pods \ lapsed : [r \in Pods |-> podStates[r].node][q] = n},
                         Capacity[n])
    BY <1>5, <1>6
  <1>8. [q \in Pods |-> podStates'[q].node] =
            [[q \in Pods |-> podStates[q].node] EXCEPT ![p] = n]
    <2>1. podStates'[p].node = n /\ \A q \in Pods \ {p} : podStates'[q].node = podStates[q].node
      BY <1>3
    <2>q. QED
      BY <2>1
  <1>9. [q \in Pods |-> podStates[q].node][p] = NoNode
    BY <1>3 DEF NoState
  <1>10. /\ [q \in Pods |-> apiPod'[q].node] = [q \in Pods |-> apiPod[q].node]
         /\ {q \in Pods : apiPod'[q].st = "gone"} = {q \in Pods : apiPod[q].st = "gone"}
    BY <1>1
  <1>11. Ledger!Claim(p, n)
    BY <1>1, <1>7, <1>8, <1>9, <1>10 DEF Ledger!Claim
  <1>q. QED
    BY <1>11

\* A binding that the API server makes places a pod where it has its claim.
LEMMA LedgerPlaces ==
    ASSUME IInv, LedgerInv, NEW p \in Pods, Bind(p)
    PROVE  Ledger!Place(p) \/ UNCHANGED Ledger!vars
  <1>1. podStates' = podStates /\ lapsed' = lapsed
    BY DEF Bind, cacheVars
  <1>2. CASE apiPod' = apiPod
    BY <1>1, <1>2, LedgerStutters DEF SameClaims, SamePlaced
  <1>3. CASE apiPod' # apiPod
    <2>1. /\ Pending(p) /\ bind[p].step = "call"
          /\ apiPod' = [apiPod EXCEPT ![p] = [st |-> "bound", node |-> bind[p].host]]
      BY <1>3 DEF Bind, Bindable
    <2>2. podStates[p] = [node |-> bind[p].host, st |-> "assumed"]
      BY <2>1 DEF LedgerInv, Calls, Pending
    <2>3. podStates[p].node # NoNode /\ apiPod[p].node = NoNode
      BY <2>1, <2>2, NoNodeAssumption DEF IInv, CacheInv, States, NoState, Hosts, Pending
    <2>4. apiPod'[p].node = podStates[p].node /\ apiPod'[p].st # "gone"
      BY <2>1, <2>2 DEF IInv, RestTypeOK
    <2>5. \A q \in Pods \ {p} : apiPod'[q] = apiPod[q]
      BY <2>1 DEF IInv, RestTypeOK
    <2>6. [q \in Pods |-> apiPod'[q].node] =
              [[q \in Pods |-> apiPod[q].node] EXCEPT ![p] = [q \in Pods |-> podStates[q].node][p]]
      BY <2>4, <2>5
    <2>7. {q \in Pods : apiPod'[q].st = "gone"} = {q \in Pods : apiPod[q].st = "gone"}
      BY <2>1, <2>4, <2>5 DEF Pending
    <2>8. p \notin {q \in Pods : apiPod[q].st = "gone"}
      BY <2>1 DEF Pending
    <2>q. QED
      BY <1>1, <2>3, <2>6, <2>7, <2>8 DEF Ledger!Place
  <1>q. QED
    BY <1>2, <1>3

\* A claim that one pod loses is dropped.
LEMMA LedgerDropsOne ==
    ASSUME NEW p \in Pods, podStates[p].node # NoNode, podStates'[p].node = NoNode,
           \A q \in Pods \ {p} : podStates'[q].node = podStates[q].node,
           SamePlaced, lapsed' \in {lapsed, lapsed \cup {p}},
           apiPod[p].node # NoNode /\ apiPod[p].st # "gone" => p \in lapsed'
    PROVE  Ledger!Next
  <1>1. Ledger!Drop({p})
    <2>1. [q \in Pods |-> podStates'[q].node] =
              [q \in Pods |-> IF q \in {p} THEN NoNode ELSE [r \in Pods |-> podStates[r].node][q]]
      OBVIOUS
    <2>2. /\ [q \in Pods |-> apiPod'[q].node] = [q \in Pods |-> apiPod[q].node]
          /\ {q \in Pods : apiPod'[q].st = "gone"} = {q \in Pods : apiPod[q].st = "gone"}
      BY DEF SamePlaced
    <2>3. \E E \in SUBSET {p} :
              /\ {q \in {p} \ {r \in Pods : apiPod[r].st = "gone"} :
                     [r \in Pods |-> apiPod[r].node][q] # NoNode} \subseteq E
              /\ lapsed' = lapsed \cup E
      <3> DEFINE E == IF p \in lapsed' THEN {p} ELSE {}
      <3>1. /\ E \in SUBSET {p} /\ lapsed' = lapsed \cup E
            /\ {q \in {p} \ {r \in Pods : apiPod[r].st = "gone"} :
                   [r \in Pods |-> apiPod[r].node][q] # NoNode} \subseteq E
        OBVIOUS
      <3>q. QED
        BY <3>1
    <2>q. QED
      BY <2>1, <2>2, <2>3 DEF Ledger!Drop
  <1>2. {p} \in SUBSET {q \in Pods : [r \in Pods |-> podStates[r].node][q] # NoNode}
    OBVIOUS
  <1>q. QED
    BY <1>1, <1>2 DEF Ledger!Next

\* The end of a binding, the expiry and the removal of a pod keep its claim or drop it, and drop
\* that of a placed pod only with an excuse.
LEMMA LedgerDrops ==
    ASSUME IInv, NEW p \in Pods,
           Bound_ok(p) \/ BindFails(p) \/ Expire(p) \/ deletePodFromCache(p)
    PROVE  Ledger!Next \/ UNCHANGED Ledger!vars
  <1>0. CacheInv
    BY DEF IInv
  <1>1. apiPod' = apiPod /\ SamePlaced
    BY DEF Bound_ok, BindFails, Expire, deletePodFromCache, apiVars, SamePlaced
  <1>2. /\ podStates'[p].node = podStates[p].node \/ podStates'[p] = NoState
        /\ \A q \in Pods \ {p} : podStates'[q].node = podStates[q].node
    <2>1. FinishBinding(p) \/ ForgetPod(p, bind[p].host) \/ expirePod(p) \/ RemovePod(p)
      BY DEF Bound_ok, BindFails, Expire, deletePodFromCache
    <2>2. CASE FinishBinding(p)
      BY <1>0, <2>2, PodOpsStates
    <2>3. CASE ForgetPod(p, bind[p].host) \/ expirePod(p) \/ RemovePod(p)
      <3>1. \A q \in Pods \ {p} : podStates'[q] = podStates[q]
        BY <1>0, <2>3, PodOpsStates
      <3>2. podStates'[p].node = podStates[p].node \/ podStates'[p] = NoState
        BY <1>0, <2>3, PodOpsStates
      <3>q. QED
        BY <3>1, <3>2
    <2>q. QED
      BY <2>1, <2>2, <2>3
  <1>3. CASE podStates'[p] = NoState /\ podStates[p].node # NoNode
    <2>1. /\ lapsed' \in {lapsed, lapsed \cup {p}}
          /\ apiPod[p].node # NoNode /\ apiPod[p].st # "gone" => p \in lapsed'
      <3>1. podStates[p] # NoState
        BY <1>3 DEF NoState
      <3>2. CASE BindFails(p) \/ Expire(p) \/ deletePodFromCache(p)
        BY <1>3, <3>1, <3>2 DEF BindFails, Expire, deletePodFromCache
      <3>3. ~ FinishBinding(p)
        <4>1. FinishBinding(p) => podStates'[p].node = podStates[p].node
          BY <1>0, PodOpsStates
        <4>q. QED
          BY <1>3, <4>1 DEF NoState
      <3>q. QED
        BY <3>2, <3>3 DEF Bound_ok
    <2>2. podStates'[p].node = NoNode
      BY <1>3 DEF NoState
    <2>q. QED
      BY <1>1, <1>2, <1>3, <2>1, <2>2, LedgerDropsOne
  <1>4. CASE podStates'[p].node = podStates[p].node
    <2>1. lapsed' = lapsed
      <3>1. CASE Bound_ok(p) \/ deletePodFromCache(p)
        BY <3>1 DEF Bound_ok, deletePodFromCache
      <3>2. CASE BindFails(p)
        <4>1. podStates'[p] = NoState => podStates[p] = NoState
          BY <1>0, <1>4, NoNodeAssumption DEF CacheInv, States, NoState
        <4>q. QED
          BY <3>2, <4>1 DEF BindFails
      <3>3. CASE Expire(p)
        <4>1. Drop(p) /\ podStates[p].node \in Nodes
          BY <1>0, <3>3 DEF Expire, expirePod, CacheInv, States, NoState
        <4>2. podStates' = podStates
          BY <1>0, <1>4, <4>1, NoNodeAssumption DEF Drop, NoState, CacheInv, CacheTypeOK
        <4>3. ~ Removable(podStates[p].node, p)
          BY <1>0, <4>1, <4>2, NoNodeAssumption DEF Drop, NoState, CacheInv, CacheTypeOK
        <4>4. p \in lapsed
          BY <4>1, <4>3 DEF Removable, IInv, CountedIn
        <4>q. QED
          BY <3>3, <4>4 DEF Expire
      <3>q. QED
        BY <3>1, <3>2, <3>3
    <2>2. SameClaims
      BY <1>2, <1>4 DEF SameClaims
    <2>q. QED
      BY <1>1, <2>1, <2>2, LedgerStutters
  <1>q. QED
    BY <1>2, <1>3, <1>4 DEF NoState

\* The handler of bound pods gives a pod that the cache has lost count of its claim back.
LEMMA LedgerReclaims ==
    ASSUME IInv, LedgerInv, NEW p \in Pods, addPodToCache(p)
    PROVE  Ledger!Reclaim(p) \/ UNCHANGED Ledger!vars
  <1>1. /\ AddPod(p, apiPod[p].node) /\ seenC[p] = "no" /\ apiPod[p].node # NoNode
        /\ apiPod' = apiPod /\ lapsed' = lapsed
    BY DEF addPodToCache, apiVars
  <1>2. podStates[p].st # "added"
    BY <1>1 DEF IInv, Told
  <1>3. /\ podStates'[p] = [node |-> apiPod[p].node, st |-> "added"]
        /\ \A q \in Pods \ {p} : podStates'[q] = podStates[q]
    BY <1>1, <1>2, AddPodStates DEF IInv
  <1>4. CASE p \in lapsed
    <2>1. [q \in Pods |-> podStates'[q].node] =
              [[q \in Pods |-> podStates[q].node] EXCEPT ![p] = [q \in Pods |-> apiPod[q].node][p]]
      <3>1. /\ podStates'[p].node = apiPod[p].node
            /\ \A q \in Pods \ {p} : podStates'[q].node = podStates[q].node
        BY <1>3
      <3>q. QED
        BY <3>1
    <2>2. /\ [q \in Pods |-> apiPod'[q].node] = [q \in Pods |-> apiPod[q].node]
          /\ {q \in Pods : apiPod'[q].st = "gone"} = {q \in Pods : apiPod[q].st = "gone"}
      BY <1>1
    <2>q. QED
      BY <1>1, <1>4, <2>1, <2>2 DEF Ledger!Reclaim
  <1>5. CASE p \notin lapsed
    <2>1. podStates[p].node = apiPod[p].node
      BY <1>1, <1>5 DEF LedgerInv, Held
    <2>2. SameClaims /\ SamePlaced
      BY <1>1, <1>3, <2>1 DEF SameClaims, SamePlaced
    <2>q. QED
      BY <1>1, <2>2, LedgerStutters
  <1>q. QED
    BY <1>4, <1>5

\* The deletion of a node loses the claims on it.
LEMMA LedgerLoses ==
    ASSUME NEW n \in Nodes, deleteNodeFromCache(n)
    PROVE  Ledger!Lose(n)
  <1>1. /\ podStates' = podStates /\ apiPod' = apiPod
        /\ lapsed' = lapsed \cup {p \in Pods : podStates[p].node = n}
    BY DEF deleteNodeFromCache, RemoveNode, apiVars
  <1>2. {p \in Pods : [q \in Pods |-> podStates[q].node][p] = n} =
            {p \in Pods : podStates[p].node = n}
    OBVIOUS
  <1>q. QED
    BY <1>1, <1>2 DEF Ledger!Lose

\* A restart drops all claims.
LEMMA LedgerRestarts ==
    ASSUME IInv, Restart
    PROVE  Ledger!Next
  <1> DEFINE claim == [p \in Pods |-> podStates[p].node]
             placed == [p \in Pods |-> apiPod[p].node]
             over == {p \in Pods : apiPod[p].st = "gone"}
             E == {p \in Pods : podStates[p] # NoState /\ apiPod[p].node # NoNode}
  <1>0. PICK P \in SUBSET Pods : P = {p \in Pods : claim[p] # NoNode}
    OBVIOUS
  <1>1. /\ \A p \in Pods : podStates'[p].node = NoNode
        /\ apiPod' = apiPod /\ lapsed' = lapsed \cup E
    BY DEF Restart, EmptyCache, NoState, apiVars
  <1>2. E \in SUBSET P
    BY <1>0, NoNodeAssumption DEF IInv, CacheInv, States
  <1>3. {p \in P \ over : placed[p] # NoNode} \subseteq E
    BY <1>0 DEF NoState
  <1>4. [p \in Pods |-> podStates'[p].node] = [p \in Pods |-> IF p \in P THEN NoNode ELSE claim[p]]
    BY <1>0, <1>1
  <1>5. /\ [p \in Pods |-> apiPod'[p].node] = placed
        /\ {p \in Pods : apiPod'[p].st = "gone"} = over
    BY <1>1
  <1>6. \E D \in SUBSET P : /\ {p \in P \ over : placed[p] # NoNode} \subseteq D
                           /\ lapsed' = lapsed \cup D
    BY <1>1, <1>2, <1>3
  <1> HIDE DEF E
  <1>7. Ledger!Drop(P)
    BY <1>4, <1>5, <1>6 DEF Ledger!Drop
  <1>q. QED
    BY <1>0, <1>7 DEF Ledger!Next

\* Every step of the scheduler is one of the ledger or leaves it alone.
LEMMA LedgerStep ==
    ASSUME IInv, LedgerInv, [Next]_vars
    PROVE  [Ledger!Next]_Ledger!vars
  <1>1. ASSUME UNCHANGED <<podStates, apiPod, lapsed>>
        PROVE  UNCHANGED Ledger!vars
    BY <1>1, LedgerStutters DEF SameClaims, SamePlaced
  <1>2. ASSUME NEW p \in Pods, Schedule(p) \/ updatePodInCache(p)
        PROVE  UNCHANGED <<podStates, apiPod, lapsed>>
    BY <1>2 DEF Schedule, UpdateSnapshot, updatePodInCache, UpdatePod, cacheVars, apiVars
  <1>3. ASSUME NEW n \in Nodes, addNodeToCache(n) \/ updateNodeInCache(n)
        PROVE  UNCHANGED <<podStates, apiPod, lapsed>>
    BY <1>3 DEF addNodeToCache, updateNodeInCache, SetNode, apiVars
  <1>4. ASSUME NEW p \in Pods, Assume(p)
        PROVE  Ledger!Next
    BY <1>4, LedgerClaims DEF Ledger!Next
  <1>5. ASSUME NEW p \in Pods, Bind(p)
        PROVE  [Ledger!Next]_Ledger!vars
    BY <1>5, LedgerPlaces DEF Ledger!Next
  <1>6. ASSUME NEW p \in Pods, Bound_ok(p) \/ BindFails(p) \/ Expire(p) \/ deletePodFromCache(p)
        PROVE  [Ledger!Next]_Ledger!vars
    BY <1>6, LedgerDrops
  <1>7. ASSUME NEW p \in Pods, addPodToCache(p)
        PROVE  [Ledger!Next]_Ledger!vars
    BY <1>7, LedgerReclaims DEF Ledger!Next
  <1>8. ASSUME NEW n \in Nodes, deleteNodeFromCache(n)
        PROVE  Ledger!Next
    BY <1>8, LedgerLoses DEF Ledger!Next
  <1>9. ASSUME Restart
        PROVE  Ledger!Next
    BY <1>9, LedgerRestarts
  <1>10. ASSUME NEW p \in Pods, PodDeleted(p)
         PROVE  Ledger!Next
    <2>1. /\ podStates' = podStates /\ lapsed' = lapsed
          /\ apiPod' = [apiPod EXCEPT ![p].st = "gone"]
      BY <1>10 DEF PodDeleted, World, cacheVars
    <2>2. /\ [q \in Pods |-> apiPod'[q].node] = [q \in Pods |-> apiPod[q].node]
          /\ {q \in Pods : apiPod'[q].st = "gone"} = {q \in Pods : apiPod[q].st = "gone"} \cup {p}
      BY <2>1 DEF IInv, RestTypeOK
    <2>3. Ledger!End(p)
      BY <2>1, <2>2 DEF Ledger!End
    <2>q. QED
      BY <2>3 DEF Ledger!Next
  <1>11. ASSUME NEW p \in Pods, addPodToSchedulingQueue(p)
         PROVE  UNCHANGED Ledger!vars
    <2>1. /\ podStates' = podStates /\ lapsed' = lapsed /\ apiPod[p].st = "none"
          /\ apiPod' = [apiPod EXCEPT ![p].st = "pending"]
      BY <1>11 DEF addPodToSchedulingQueue, cacheVars
    <2>2. SamePlaced
      BY <2>1 DEF IInv, RestTypeOK, SamePlaced
    <2>q. QED
      BY <2>1, <2>2, LedgerStutters DEF SameClaims
  <1>12. ASSUME NEW p \in Pods, Missed(p)
         PROVE  UNCHANGED <<podStates, apiPod, lapsed>>
    BY <1>12 DEF Missed, cacheVars, apiVars
  <1>13. CASE UNCHANGED <<podStates, seenC, apiPod>> /\ UNCHANGED <<cacheVars, lapsed>>
    BY <1>1, <1>13
  <1>q. QED
    BY <1>1, <1>2, <1>3, <1>4, <1>5, <1>6, <1>7, <1>8, <1>9, <1>10, <1>11, <1>12, <1>13,
       StepQuiet, StepKinds

\* Cache, snapshot, queue, binding goroutines and handlers together implement the ledger: in every
\* interleaving, with any number of upsets, what they do to claims and placements is a step of it.
THEOREM SchedulerKeepsLedger == Spec => KeepsLedger
  <1>1. Init => Ledger!Init
    <2> SUFFICES ASSUME Init PROVE Ledger!Init
      OBVIOUS
    <2>1. \A p \in Pods : /\ podStates[p].node = NoNode
                          /\ apiPod[p].node = NoNode /\ apiPod[p].st # "gone"
      BY DEF Init, InitCache, NoState
    <2>2. lapsed = {}
      BY DEF Init
    <2>q. QED
      BY <2>1, <2>2 DEF Ledger!Init
  <1>2. IInv /\ LedgerInv /\ [Next]_vars => [Ledger!Next]_Ledger!vars
    BY LedgerStep
  <1>q. QED
    BY <1>1, <1>2, SchedulerLedgerInv, PTL DEF Spec, KeepsLedger, Ledger!Spec

\* The two instances of the ledger are the same.
LEMMA SameLedgers ==
    ASSUME [Ledger!Next]_Ledger!vars
    PROVE  [LedgerP!Next]_LedgerP!vars
  <1> DEFINE claim == [q \in Pods |-> podStates[q].node]
  <1>1. ASSUME NEW p \in Pods, NEW n \in Nodes, Ledger!Claim(p, n)
        PROVE  LedgerP!Claim(p, n)
    <2> DEFINE P == {q \in Pods \ lapsed : claim[q] = n}
    <2>1. Ledger!FitsAmong(p, P, Capacity[n])
      BY <1>1 DEF Ledger!Claim
    <2>2. P \in SUBSET Pods
      OBVIOUS
    <2> HIDE DEF P
    <2>3. LedgerP!FitsAmong(p, P, Capacity[n])
      BY <2>1, <2>2, SameSums DEF Ledger!FitsAmong, LedgerP!FitsAmong
    <2>q. QED
      BY <1>1, <2>3 DEF Ledger!Claim, LedgerP!Claim, P
  <1>2. ASSUME NEW p \in Pods, Ledger!Place(p) \/ Ledger!Reclaim(p) \/ Ledger!End(p)
        PROVE  LedgerP!Place(p) \/ LedgerP!Reclaim(p) \/ LedgerP!End(p)
    BY <1>2 DEF Ledger!Place, Ledger!Reclaim, Ledger!End, LedgerP!Place, LedgerP!Reclaim, LedgerP!End
  <1>3. ASSUME NEW P \in SUBSET {p \in Pods : claim[p] # NoNode}, Ledger!Drop(P)
        PROVE  LedgerP!Drop(P)
    BY <1>3 DEF Ledger!Drop, LedgerP!Drop
  <1>4. ASSUME NEW n \in Nodes, Ledger!Lose(n)
        PROVE  LedgerP!Lose(n)
    BY <1>4 DEF Ledger!Lose, LedgerP!Lose
  <1>5. ASSUME UNCHANGED Ledger!vars
        PROVE  UNCHANGED LedgerP!vars
    BY <1>5 DEF Ledger!vars, LedgerP!vars
  <1>q. QED
    BY <1>1, <1>2, <1>3, <1>4, <1>5 DEF Ledger!Next, LedgerP!Next

\* No node is overcommitted, but by pods that no snapshot counts any more: the ledger never is,
\* and the scheduler keeps it (NodeResourcesFit, the cache and the bindings together).
THEOREM SchedulerNoOvercommit == Spec => []NoOvercommit
  <1>1. LedgerP!IsFiniteSet(Pods) /\ LedgerP!IsFiniteSet(Nodes)
    BY PodsAssumption, NodesAssumption DEF IsFiniteSet, LedgerP!IsFiniteSet
  <1>2. LedgerP!Spec => []LedgerP!Kept
    BY <1>1, LedgerP!LedgerKept, SloAssumption, CapacityAssumption, NoNodeAssumption
       DEF LedgerP!LedgerKept
  <1>3. Ledger!Spec => LedgerP!Spec
    <2>1. Ledger!Init => LedgerP!Init
      BY DEF Ledger!Init, LedgerP!Init
    <2>q. QED
      BY <2>1, SameLedgers, PTL DEF Ledger!Spec, LedgerP!Spec
  <1>4. IInv /\ LedgerInv /\ LedgerP!Kept => NoOvercommit
    <2> SUFFICES ASSUME IInv, LedgerInv, LedgerP!Kept, NEW n \in Nodes
                 PROVE  Requested({p \in Pods : Bound(p) /\ apiPod[p].node = n} \ lapsed) <= Capacity[n]
      BY DEF NoOvercommit
    <2> DEFINE over == {p \in Pods : apiPod[p].st = "gone"}
               Q == {p \in Pods \ (over \cup lapsed) : [q \in Pods |-> apiPod[q].node][p] = n}
               P == {p \in Pods : Bound(p) /\ apiPod[p].node = n} \ lapsed
    <2>1. Requested(Q) <= Capacity[n]
      <3>1. LedgerP!Requested(Q) <= Capacity[n]
        BY DEF LedgerP!Kept
      <3>2. Q \in SUBSET Pods
        OBVIOUS
      <3> HIDE DEF Q
      <3>q. QED
        BY <3>1, <3>2, SameSums
    <2>2. P = Q
      BY NoNodeAssumption DEF IInv, RestTypeOK, Hosts, Bound
    <2>q. QED
      BY <2>1, <2>2
  <1>q. QED
    BY <1>2, <1>3, <1>4, SchedulerLedgerInv, SchedulerKeepsLedger, PTL DEF KeepsLedger

-----------------------------------------------------------------------------
(* the pods that wait *)

Idle == cycle.pc = "pop" => cycle.pod = NoPod

\* a move request that counts for this cycle counts for every failed pod on its way back
Noted == moved => \A p \in Pods : \A r \in retry[p] : r.moved

NoRoom(p) == \A n \in NodeTree : ~ Fits(p, n, nodes[n])

\* p waits in unschedulableQ, or will unless pods are moved
Stuck(p) ==
    /\ p \notin activeQ
    /\ cycle.pod = p => cycle.pc = "fail"
    /\ \/ p \in unschedulableQ
       \/ \E r \in retry[p] : ~ r.moved
       \/ cycle.pod = p /\ ~ moved

Waits(p) == Pending(p) /\ ~ IsAssumedPod(p) /\ Stuck(p)

Announced == podStep # "all" /\ nodeStep # "all"

NoneMissed == Announced => \A p \in Pods \ unwoken : Waits(p) => NoRoom(p)

WaitInv == Idle /\ Noted /\ NoneMissed

\* When no cycle runs it has no pod.
LEMMA StepIdle ==
    ASSUME IInv, Idle, [Next]_vars
    PROVE  Idle'
  <1>0. cycle \in [pc : {"pop", "schedule", "assume", "fail"},
                   pod : Pods \cup {NoPod}, host : Nodes \cup {NoNode}]
    BY DEF IInv, RestTypeOK
  <1>1. ASSUME NEW p \in Pods,
               PopPod(p) \/ SkipPod(p) \/ Schedule(p) \/ Assume(p) \/ AssumeFails(p) \/ FailPod(p)
        PROVE  \/ cycle' = Rest
               \/ cycle' = [cycle EXCEPT !.pc = "schedule", !.pod = p]
               \/ \E n : cycle' = [cycle EXCEPT !.pc = "assume", !.host = n]
               \/ cycle' = [cycle EXCEPT !.pc = "fail"]
               \/ cycle' = [cycle EXCEPT !.pc = "fail", !.host = NoNode]
    BY <1>1 DEF PopPod, SkipPod, Schedule, Assume, AssumeFails, FailPod
  <1>2. ASSUME NEW p \in Pods,
               PopPod(p) \/ SkipPod(p) \/ Schedule(p) \/ Assume(p) \/ AssumeFails(p) \/ FailPod(p)
        PROVE  cycle'.pc # "pop" \/ cycle'.pod = NoPod
    <2>1. CASE cycle' = Rest
      BY <2>1 DEF Rest
    <2>2. CASE cycle' = [cycle EXCEPT !.pc = "schedule", !.pod = p]
      BY <1>0, <2>2
    <2>3. CASE \E n : cycle' = [cycle EXCEPT !.pc = "assume", !.host = n]
      BY <1>0, <2>3
    <2>4. CASE cycle' = [cycle EXCEPT !.pc = "fail"]
      BY <1>0, <2>4
    <2>5. CASE cycle' = [cycle EXCEPT !.pc = "fail", !.host = NoNode]
      BY <1>0, <2>5
    <2>q. QED
      BY <1>1, <1>2, <2>1, <2>2, <2>3, <2>4, <2>5
  <1>3. ASSUME NEW p \in Pods,
               \/ Binding(p) \/ Retry(p) \/ FlushBackoff(p) \/ FlushUnschedulable(p) \/ Expire(p)
               \/ addPodToSchedulingQueue(p) \/ updatePodInSchedulingQueue(p)
               \/ deletePodFromSchedulingQueue(p)
               \/ addPodToCache(p) \/ updatePodInCache(p) \/ deletePodFromCache(p) \/ Missed(p)
               \/ PodDeleted(p)
        PROVE  cycle' = cycle
    BY <1>3 DEF Binding, Bind, Bound_ok, BindFails, BindRecorded, Retry, FlushBackoff,
        FlushUnschedulable, Expire, addPodToSchedulingQueue, updatePodInSchedulingQueue,
        deletePodFromSchedulingQueue, addPodToCache, updatePodInCache, deletePodFromCache,
        Missed, PodDeleted, World
  <1>4. ASSUME \/ \E n \in Nodes : \/ addNodeToCache(n) \/ updateNodeInCache(n)
                                  \/ deleteNodeFromCache(n) \/ NodeChanges(n)
               \/ PodHandlerMoves \/ NodeHandlerMoves \/ UNCHANGED vars
        PROVE  cycle' = cycle
    BY <1>4 DEF addNodeToCache, updateNodeInCache, deleteNodeFromCache, NodeChanges,
        PodHandlerMoves, NodeHandlerMoves, World, vars
  <1>5. ASSUME Restart
        PROVE  cycle'.pod = NoPod
    BY <1>5 DEF Restart, Rest
  <1>q. QED
    BY <1>2, <1>3, <1>4, <1>5 DEF Idle, Next, ScheduleOne

\* A move marks every failed pod on its way back.
LEMMA MoveNotes ==
    ASSUME QueueTypeOK, NEW P, movePods(P)
    PROVE  moved' /\ \A p \in Pods : \A r \in retry'[p] : r.moved
  <1>1. moved' /\ retry' = [p \in Pods |-> {[r EXCEPT !.moved = TRUE] : r \in retry[p]}]
    BY DEF movePods
  <1>2. SUFFICES ASSUME NEW p \in Pods, NEW r \in retry[p]
                 PROVE  [r EXCEPT !.moved = TRUE].moved
    BY <1>1
  <1>3. r \in [step : {"get", "add"}, moved : BOOLEAN]
    BY DEF QueueTypeOK
  <1>q. QED
    BY <1>3

\* A pod that fails after a move request is marked with it.
LEMMA StepNoted ==
    ASSUME IInv, Noted, [Next]_vars
    PROVE  Noted'
  <1>0. QueueTypeOK
    BY DEF IInv
  <1>1. ASSUME NEW P, movePods(P)
        PROVE  Noted'
    BY <1>0, <1>1, MoveNotes DEF Noted
  <1>2. ASSUME UNCHANGED <<moved, retry>>
        PROVE  Noted'
    BY <1>2 DEF Noted
  <1>3. ASSUME NEW p \in Pods, QueueOp(p)
        PROVE  Noted'
    <2>1. CASE Add(p) \/ Delete(p) \/ (\E c \in BOOLEAN : Update(p, c))
                 \/ flushBackoffQCompleted(p) \/ UNCHANGED queueVars
      BY <1>2, <2>1 DEF Add, Delete, Update, flushBackoffQCompleted, queueVars
    <2>2. CASE Pop(p)
      BY <2>2 DEF Pop, Noted
    <2>3. CASE flushUnschedulableQLeftover(p)
      BY <1>1, <2>3 DEF flushUnschedulableQLeftover
    <2>4. CASE AddUnschedulableIfNotPresent(p)
      <3>1. \E r \in retry[p] : retry' = [retry EXCEPT ![p] = @ \ {r}] /\ moved' = moved
        BY <2>4 DEF AddUnschedulableIfNotPresent
      <3>2. \A q \in Pods : retry'[q] \subseteq retry[q]
        BY <1>0, <3>1 DEF QueueTypeOK
      <3>q. QED
        BY <3>1, <3>2 DEF Noted
    <2>5. CASE \E pending \in BOOLEAN : GetPod(p, pending)
      <3>1. PICK pending \in BOOLEAN, r \in retry[p] :
                /\ retry' = [retry EXCEPT ![p] =
                       (@ \ {r}) \cup (IF pending THEN {[r EXCEPT !.step = "add"]} ELSE {})]
                /\ moved' = moved
        BY <2>5 DEF GetPod
      <3>2. r \in [step : {"get", "add"}, moved : BOOLEAN]
        BY <1>0 DEF QueueTypeOK
      <3>3. [r EXCEPT !.step = "add"].moved = r.moved
        BY <3>2
      <3>4. \A s \in retry'[p] : s \in retry[p] \/ s.moved = r.moved
        BY <1>0, <3>1, <3>3 DEF QueueTypeOK
      <3>5. \A q \in Pods \ {p} : retry'[q] = retry[q]
        BY <1>0, <3>1 DEF QueueTypeOK
      <3>q. QED
        BY <3>1, <3>4, <3>5 DEF Noted
    <2>6. CASE retry' = Failed(p) /\ UNCHANGED <<activeQ, backoffQ, unschedulableQ, moved>>
      <3>1. /\ retry'[p] = retry[p] \cup {[step |-> "get", moved |-> moved]}
            /\ \A q \in Pods \ {p} : retry'[q] = retry[q]
        BY <1>0, <2>6 DEF Failed, QueueTypeOK
      <3>2. moved => [step |-> "get", moved |-> moved].moved
        OBVIOUS
      <3>q. QED
        BY <2>6, <3>1, <3>2 DEF Noted
    <2>q. QED
      BY <1>3, <2>1, <2>2, <2>3, <2>4, <2>5, <2>6 DEF QueueOp
  <1>4. CASE AssignedPod \/ MoveAllToActiveOrBackoffQueue
    BY <1>1, <1>4 DEF AssignedPod, MoveAllToActiveOrBackoffQueue
  <1>5. CASE \E P \in SUBSET Pods : RestartQueue(P)
    BY <1>5 DEF RestartQueue, Noted
  <1>6. CASE UNCHANGED queueVars
    BY <1>2, <1>6 DEF queueVars
  <1>q. QED
    BY <1>3, <1>4, <1>5, <1>6, QueueKinds

\* Pods that found no room do not when nodes go, or count more pods.
LEMMA NoRoomLess ==
    ASSUME CacheInv, CacheInv', NEW p \in Pods, NoRoom(p),
           \A n \in NodeTree' : /\ n \in NodeTree /\ nodes'[n].st = nodes[n].st
                                /\ nodes[n].pods \subseteq nodes'[n].pods
    PROVE  NoRoom(p)'
  <1> SUFFICES ASSUME NEW n \in NodeTree', Fits(p, n, nodes'[n])
               PROVE  FALSE
    BY DEF NoRoom
  <1>1. n \in Nodes /\ nodes[n].pods \in SUBSET Pods /\ nodes'[n].pods \in SUBSET Pods
    BY DEF NodeTree, CacheInv, CacheTypeOK
  <1>2. /\ Allocatable(n, nodes'[n]) = Allocatable(n, nodes[n])
        /\ Allocatable(n, nodes[n]) \in Nat
    BY <1>1, CapacityAssumption DEF Allocatable
  <1>3. FitsAmong(p, nodes'[n].pods, Allocatable(n, nodes[n]))
    BY <1>2 DEF Fits
  <1>4. nodes[n].pods \in SUBSET (nodes'[n].pods)
    OBVIOUS
  <1>5. FitsAmong(p, nodes[n].pods, Allocatable(n, nodes[n]))
    <2> DEFINE c == Allocatable(n, nodes[n])
    <2>1. c \in Nat /\ c <= c /\ FitsAmong(p, nodes'[n].pods, c)
      BY <1>2, <1>3
    <2> HIDE DEF c
    <2>2. FitsAmong(p, nodes[n].pods, c)
      BY <1>1, <1>4, <2>1, FitsFewer
    <2>q. QED
      BY <2>2 DEF c
  <1>q. QED
    BY <1>5 DEF Fits, NoRoom

\* Nodes of nodeTree keep what they offer and their pods when one is added.
LEMMA AddPodInTree ==
    ASSUME nodes \in NodeItems, NEW h \in Nodes, NEW p \in Pods, nodes' = addPod(nodes, h, p)
    PROVE  \A n \in NodeTree' : /\ n \in NodeTree /\ nodes'[n].st = nodes[n].st
                                /\ nodes[n].pods \subseteq nodes'[n].pods
  <1>1. /\ nodes'[h].st = IF nodes[h].st = "absent" THEN "nil" ELSE nodes[h].st
        /\ nodes'[h].pods = nodes[h].pods \cup {p}
        /\ \A n \in Nodes \ {h} : nodes'[n] = nodes[n]
    BY DEF addPod, NodeItems
  <1>q. QED
    BY <1>1 DEF NodeTree

\* What adds no pod to those that wait, and no room, is nothing they could miss.
LEMMA NothingToMiss ==
    ASSUME IInv, IInv', NoneMissed, Announced' => Announced,
           \A n \in NodeTree' : /\ n \in NodeTree /\ nodes'[n].st = nodes[n].st
                                /\ nodes[n].pods \subseteq nodes'[n].pods,
           \A p \in Pods \ unwoken' : Waits(p)' => p \notin unwoken /\ Waits(p)
    PROVE  NoneMissed'
  <1> SUFFICES ASSUME Announced', NEW p \in Pods, p \notin unwoken', Waits(p)'
               PROVE  NoRoom(p)'
    BY DEF NoneMissed
  <1>1. NoRoom(p)
    BY DEF NoneMissed
  <1>2. CacheInv /\ CacheInv'
    BY DEF IInv
  <1>q. QED
    BY <1>1, <1>2, NoRoomLess

\* The operations of the queue on one pod make no other wait; nor that one, but for Pop, Delete and
\* the record of a failure.
LEMMA QueueWaits ==
    ASSUME IInv, NEW p \in Pods, UNCHANGED cycle,
           \/ Add(p) \/ (\E c \in BOOLEAN : Update(p, c))
           \/ flushBackoffQCompleted(p) \/ AddUnschedulableIfNotPresent(p)
           \/ \E pending \in BOOLEAN : GetPod(p, pending)
           \/ UNCHANGED queueVars
    PROVE  \A q \in Pods : Stuck(q)' => Stuck(q)
  <1>0. QueueTypeOK /\ OneQueue
    BY DEF IInv
  <1>1. CASE Add(p)
    BY <1>1 DEF Add, Stuck
  <1>2. CASE \E c \in BOOLEAN : Update(p, c)
    BY <1>2 DEF Update, Stuck, queueVars
  <1>3. CASE flushBackoffQCompleted(p)
    BY <1>3 DEF flushBackoffQCompleted, Stuck
  <1>4. CASE AddUnschedulableIfNotPresent(p)
    <2>1. PICK r \in retry[p] :
              /\ retry' = [retry EXCEPT ![p] = @ \ {r}]
              /\ unschedulableQ' = IF p \notin Queued /\ ~ r.moved
                                   THEN unschedulableQ \cup {p} ELSE unschedulableQ
      BY <1>4 DEF AddUnschedulableIfNotPresent
    <2>2. \A q \in Pods : retry'[q] \subseteq retry[q]
      BY <1>0, <2>1 DEF QueueTypeOK
    <2>3. activeQ' = activeQ /\ moved' = moved
      BY <1>4 DEF AddUnschedulableIfNotPresent
    <2>4. \A q \in Pods : q \in unschedulableQ' =>
              q \in unschedulableQ \/ \E s \in retry[q] : ~ s.moved
      BY <2>1
    <2>q. QED
      BY <2>2, <2>3, <2>4 DEF Stuck
  <1>5. CASE \E pending \in BOOLEAN : GetPod(p, pending)
    <2>1. PICK pending \in BOOLEAN, r \in retry[p] :
              /\ retry' = [retry EXCEPT ![p] =
                     (@ \ {r}) \cup (IF pending THEN {[r EXCEPT !.step = "add"]} ELSE {})]
              /\ UNCHANGED <<activeQ, unschedulableQ, moved>>
      BY <1>5 DEF GetPod
    <2>2. r \in [step : {"get", "add"}, moved : BOOLEAN]
      BY <1>0 DEF QueueTypeOK
    <2>3. [r EXCEPT !.step = "add"].moved = r.moved
      BY <2>2
    <2>4. \A s \in retry'[p] : \E t \in retry[p] : s.moved = t.moved
      BY <1>0, <2>1, <2>3 DEF QueueTypeOK
    <2>5. \A q \in Pods \ {p} : retry'[q] = retry[q]
      BY <1>0, <2>1 DEF QueueTypeOK
    <2>6. \A q \in Pods : \A s \in retry'[q] : \E t \in retry[q] : s.moved = t.moved
      BY <2>4, <2>5
    <2>q. QED
      BY <2>1, <2>6 DEF Stuck
  <1>6. CASE UNCHANGED queueVars
    BY <1>6 DEF queueVars, Stuck
  <1>q. QED
    BY <1>1, <1>2, <1>3, <1>4, <1>5, <1>6

\* A move of pods makes none wait, and leaves none waiting when all are moved.
LEMMA MoveWaits ==
    ASSUME IInv, UNCHANGED cycle, NEW P, movePods(P)
    PROVE  /\ \A q \in Pods : Stuck(q)' => Stuck(q)
           /\ P = unschedulableQ => \A q \in Pods : ~ Stuck(q)'
  <1>1. moved' /\ \A p \in Pods : \A r \in retry'[p] : r.moved
    BY MoveNotes DEF IInv
  <1>2. activeQ \subseteq activeQ' /\ unschedulableQ' = unschedulableQ \ P
    BY DEF movePods
  <1>q. QED
    BY <1>1, <1>2 DEF Stuck

\* The steps of the queue and of the API server miss nothing.
LEMMA QueueNoneMissed ==
    ASSUME IInv, IInv', NoneMissed, NEW p \in Pods,
           \/ Retry(p) \/ FlushBackoff(p) \/ FlushUnschedulable(p)
           \/ addPodToSchedulingQueue(p) \/ updatePodInSchedulingQueue(p)
           \/ deletePodFromSchedulingQueue(p) \/ Bind(p) \/ Missed(p) \/ PodDeleted(p)
    PROVE  NoneMissed'
  <1>1. UNCHANGED <<cacheVars, cycle, podStep, nodeStep>>
    BY DEF Retry, FlushBackoff, FlushUnschedulable, addPodToSchedulingQueue,
        updatePodInSchedulingQueue, deletePodFromSchedulingQueue, Bind, Missed, PodDeleted,
        World, toldVars
  <1>2. /\ Announced' => Announced
        /\ \A n \in NodeTree' : /\ n \in NodeTree /\ nodes'[n].st = nodes[n].st
                                /\ nodes[n].pods \subseteq nodes'[n].pods
    BY <1>1 DEF Announced, cacheVars, NodeTree
  <1>3. \A q \in Pods : IsAssumedPod(q)' = IsAssumedPod(q)
    BY <1>1 DEF IsAssumedPod, cacheVars
  <1>4. apiPod \in [Pods -> [st : {"none", "pending", "bound", "gone"}, node : Nodes \cup {NoNode}]]
    BY DEF IInv, RestTypeOK
  <1>5. ASSUME unwoken' = unwoken,
               \A q \in Pods : Stuck(q)' => Stuck(q) /\ (Pending(q)' => Pending(q))
        PROVE  NoneMissed'
    BY <1>2, <1>3, <1>5, NothingToMiss DEF Waits
  <1>6. CASE Retry(p)
    <2>1. Pending(p) \in BOOLEAN
      BY DEF Pending
    <2>2. (\E pending \in BOOLEAN : GetPod(p, pending)) \/ AddUnschedulableIfNotPresent(p)
      BY <1>6, <2>1 DEF Retry
    <2>3. apiPod' = apiPod /\ unwoken' = unwoken
      BY <1>6 DEF Retry, apiVars
    <2>4. \A q \in Pods : Stuck(q)' => Stuck(q)
      BY <1>1, <2>2, QueueWaits
    <2>q. QED
      BY <1>5, <2>3, <2>4 DEF Pending
  <1>7. CASE FlushBackoff(p)
    <2>1. flushBackoffQCompleted(p) /\ apiPod' = apiPod /\ unwoken' = unwoken
      BY <1>7 DEF FlushBackoff, apiVars
    <2>2. \A q \in Pods : Stuck(q)' => Stuck(q)
      BY <1>1, <2>1, QueueWaits
    <2>q. QED
      BY <1>5, <2>1, <2>2 DEF Pending
  <1>8. CASE FlushUnschedulable(p)
    <2>1. movePods({p}) /\ apiPod' = apiPod /\ unwoken' = unwoken
      BY <1>8 DEF FlushUnschedulable, flushUnschedulableQLeftover, apiVars
    <2>2. \A q \in Pods : Stuck(q)' => Stuck(q)
      BY <1>1, <2>1, MoveWaits
    <2>q. QED
      BY <1>5, <2>1, <2>2 DEF Pending
  <1>9. CASE addPodToSchedulingQueue(p)
    <2>1. /\ Add(p) /\ unwoken' = unwoken
          /\ apiPod' = [apiPod EXCEPT ![p].st = "pending"]
      BY <1>9 DEF addPodToSchedulingQueue
    <2>2. ~ Stuck(p)'
      BY <2>1 DEF Add, Stuck
    <2>3. \A q \in Pods \ {p} : Pending(q)' = Pending(q)
      BY <1>4, <2>1 DEF Pending
    <2>4. \A q \in Pods : Stuck(q)' => Stuck(q)
      BY <1>1, <2>1, QueueWaits
    <2>q. QED
      BY <1>5, <2>1, <2>2, <2>3, <2>4
  <1>10. CASE updatePodInSchedulingQueue(p)
    <2>1. /\ \E changed \in BOOLEAN : Update(p, changed)
          /\ apiPod' = apiPod /\ unwoken' = unwoken
      BY <1>10 DEF updatePodInSchedulingQueue, apiVars
    <2>2. \A q \in Pods : Stuck(q)' => Stuck(q)
      BY <1>1, <2>1, QueueWaits
    <2>q. QED
      BY <1>5, <2>1, <2>2 DEF Pending
  <1>11. CASE deletePodFromSchedulingQueue(p)
    <2>1. /\ Delete(p) /\ apiPod' = apiPod /\ unwoken' = unwoken \ {p}
          /\ apiPod[p].st \in {"bound", "gone"}
      BY <1>11 DEF deletePodFromSchedulingQueue, apiVars
    <2>2. ~ Pending(p)'
      BY <2>1 DEF Pending
    <2>3. \A q \in Pods \ {p} : Stuck(q)' => Stuck(q)
      BY <1>1, <2>1 DEF Delete, Stuck
    <2>4. \A q \in Pods \ unwoken' : Waits(q)' => q \notin unwoken /\ Waits(q)
      BY <1>3, <2>1, <2>2, <2>3 DEF Waits, Pending
    <2>q. QED
      BY <1>2, <2>4, NothingToMiss
  <1>12. CASE Bind(p) \/ Missed(p) \/ PodDeleted(p)
    <2>1. UNCHANGED <<queueVars, unwoken>>
      BY <1>12 DEF Bind, Missed, PodDeleted, World
    <2>2. \/ apiPod' = apiPod
          \/ apiPod' = [apiPod EXCEPT ![p].st = "gone"]
          \/ apiPod' = [apiPod EXCEPT ![p] = [st |-> "bound", node |-> bind[p].host]]
      BY <1>12 DEF Bind, Missed, PodDeleted, apiVars
    <2>3. \A q \in Pods : Pending(q)' => Pending(q)
      <3>1. ASSUME NEW s, s \notin {"pending"}, apiPod'[p].st = s,
                   \A q \in Pods \ {p} : apiPod'[q] = apiPod[q]
            PROVE  \A q \in Pods : Pending(q)' => Pending(q)
        BY <3>1 DEF Pending
      <3>2. CASE apiPod' = apiPod
        BY <3>2 DEF Pending
      <3>3. CASE apiPod' = [apiPod EXCEPT ![p].st = "gone"]
        BY <1>4, <3>1, <3>3
      <3>4. CASE apiPod' = [apiPod EXCEPT ![p] = [st |-> "bound", node |-> bind[p].host]]
        BY <1>4, <3>1, <3>4
      <3>q. QED
        BY <2>2, <3>2, <3>3, <3>4
    <2>4. \A q \in Pods : Stuck(q)' => Stuck(q)
      BY <1>1, <2>1, QueueWaits
    <2>q. QED
      BY <1>5, <2>1, <2>3, <2>4
  <1>q. QED
    BY <1>6, <1>7, <1>8, <1>9, <1>10, <1>11, <1>12

\* The steps of scheduleOne and the records of failures miss nothing: for a pod that finds no room,
\* by the snapshot, there is none.
LEMMA CycleNoneMissed ==
    ASSUME IInv, IInv', Sync, Listed, WaitInv, NEW p \in Pods,
           \/ PopPod(p) \/ SkipPod(p) \/ Schedule(p) \/ Assume(p) \/ AssumeFails(p) \/ FailPod(p)
           \/ BindRecorded(p)
    PROVE  NoneMissed'
  <1>1. /\ UNCHANGED <<apiPod, podStep, nodeStep>>
        /\ Announced' => Announced
        /\ \A q \in Pods : Pending(q)' = Pending(q)
    <2>1. UNCHANGED <<apiPod, podStep, nodeStep>>
      BY DEF PopPod, SkipPod, Schedule, Assume, AssumeFails, FailPod, BindRecorded, apiVars,
             toldVars
    <2>q. QED
      BY <2>1 DEF Announced, Pending
  <1>2. cycle \in [pc : {"pop", "schedule", "assume", "fail"},
                   pod : Pods \cup {NoPod}, host : Nodes \cup {NoNode}]
    BY DEF IInv, RestTypeOK
  <1>3. QueueTypeOK /\ OneQueue
    BY DEF IInv
  <1>4. ASSUME UNCHANGED <<podStates, nodes>>,
               \A q \in Pods \ unwoken' : Waits(q)' => q \notin unwoken /\ Stuck(q)
        PROVE  NoneMissed'
    <2>1. \A n \in NodeTree' : /\ n \in NodeTree /\ nodes'[n].st = nodes[n].st
                               /\ nodes[n].pods \subseteq nodes'[n].pods
      BY <1>4 DEF NodeTree
    <2>2. \A q \in Pods : IsAssumedPod(q)' = IsAssumedPod(q)
      BY <1>4 DEF IsAssumedPod
    <2>3. \A q \in Pods \ unwoken' : Waits(q)' => q \notin unwoken /\ Waits(q)
      BY <1>1, <1>4, <2>2 DEF Waits
    <2>q. QED
      BY <1>1, <2>1, <2>3, NothingToMiss DEF WaitInv
  <1>5. CASE PopPod(p)
    <2>1. /\ UNCHANGED <<podStates, nodes, unschedulableQ, retry>> /\ unwoken' = unwoken \ {p}
          /\ activeQ' = activeQ \ {p}
          /\ cycle.pc = "pop" /\ cycle' = [cycle EXCEPT !.pc = "schedule", !.pod = p]
      BY <1>5 DEF PopPod, Pop, cacheVars
    <2>2. cycle'.pc = "schedule" /\ cycle'.pod = p
      BY <1>2, <2>1
    <2>3. cycle.pod = NoPod
      BY <2>1 DEF WaitInv, Idle
    <2>4. ~ Stuck(p)'
      BY <2>2 DEF Stuck
    <2>5. \A q \in Pods \ {p} : Stuck(q)' => Stuck(q)
      BY <2>1, <2>2, <2>3, NoPodAssumption DEF Stuck
    <2>q. QED
      BY <1>4, <2>1, <2>4, <2>5 DEF Waits
  <1>6. CASE SkipPod(p)
    <2>1. /\ UNCHANGED <<podStates, nodes, activeQ, unschedulableQ, moved, retry, unwoken>>
          /\ cycle.pod = p /\ cycle' = Rest /\ IsAssumedPod(p)
      BY <1>6 DEF SkipPod, cacheVars, queueVars
    <2>2. ~ Waits(p)'
      BY <2>1 DEF Waits, IsAssumedPod
    <2>3. \A q \in Pods \ {p} : Stuck(q)' => Stuck(q)
      BY <2>1, NoPodAssumption DEF Stuck, Rest
    <2>q. QED
      BY <1>4, <2>1, <2>2, <2>3 DEF Waits
  <1>7. CASE AssumeFails(p)
    <2>1. /\ UNCHANGED <<podStates, nodes, activeQ, unschedulableQ, moved, retry>>
          /\ unwoken' = unwoken \cup {p}
          /\ cycle.pod = p /\ cycle' = [cycle EXCEPT !.pc = "fail", !.host = NoNode]
      BY <1>7 DEF AssumeFails, cacheVars, queueVars
    <2>2. cycle'.pod = p
      BY <1>2, <2>1
    <2>3. \A q \in Pods \ {p} : Stuck(q)' => Stuck(q)
      BY <2>1, <2>2 DEF Stuck
    <2>q. QED
      BY <1>4, <2>1, <2>3 DEF Waits
  <1>8. ASSUME retry' = Failed(p), UNCHANGED <<activeQ, unschedulableQ, moved>>,
               (cycle' = Rest /\ cycle.pod = p) \/ cycle' = cycle
        PROVE  \A q \in Pods \ {p} : Stuck(q)' => Stuck(q)
    <2>1. \A q \in Pods \ {p} : retry'[q] = retry[q]
      BY <1>3, <1>8 DEF Failed, QueueTypeOK
    <2>q. QED
      BY <1>8, <2>1, NoPodAssumption DEF Stuck, Rest
  <1>9. CASE FailPod(p)
    <2>1. /\ UNCHANGED <<podStates, nodes, activeQ, unschedulableQ, moved, unwoken>>
          /\ retry' = Failed(p) /\ cycle.pc = "fail" /\ cycle.pod = p /\ cycle' = Rest
      BY <1>9 DEF FailPod, cacheVars
    <2>2. retry'[p] = retry[p] \cup {[step |-> "get", moved |-> moved]}
      BY <1>3, <2>1 DEF Failed, QueueTypeOK
    <2>3. Stuck(p)' => Stuck(p)
      BY <2>1, <2>2, NoPodAssumption DEF Stuck, Rest
    <2>4. \A q \in Pods : Stuck(q)' => Stuck(q)
      BY <1>8, <2>1, <2>3
    <2>q. QED
      BY <1>4, <2>1, <2>4 DEF Waits
  <1>10. CASE BindRecorded(p)
    <2>1. /\ UNCHANGED <<podStates, nodes, activeQ, unschedulableQ, moved, cycle>>
          /\ retry' = Failed(p) /\ unwoken' = unwoken \cup {p}
      BY <1>10 DEF BindRecorded, cacheVars
    <2>2. \A q \in Pods \ {p} : Stuck(q)' => Stuck(q)
      BY <1>8, <2>1
    <2>q. QED
      BY <1>4, <2>1, <2>2 DEF Waits
  <1>11. CASE Assume(p)
    <2>1. /\ UNCHANGED <<activeQ, unschedulableQ, moved, retry, unwoken>>
          /\ cycle.pod = p /\ cycle' = Rest /\ AssumePod(p, cycle.host) /\ cycle.host \in Nodes
      BY <1>11 DEF Assume, queueVars, IInv, Hosts
    <2>2. IsAssumedPod(p)' /\ \A q \in Pods \ {p} : podStates'[q] = podStates[q]
      <3>1. CacheInv /\ AssumePod(p, cycle.host)
        BY <2>1 DEF IInv
      <3>2. /\ podStates'[p] = [node |-> cycle.host, st |-> "assumed"]
            /\ \A q \in Pods \ {p} : podStates'[q] = podStates[q]
        BY <3>1, PodOpsStates
      <3>q. QED
        BY <3>2 DEF IsAssumedPod
    <2>3. \A q \in Pods \ {p} : Stuck(q)' => Stuck(q)
      BY <2>1, NoPodAssumption DEF Stuck, Rest
    <2>4. \A q \in Pods : Waits(q)' => Waits(q)
      BY <1>1, <2>2, <2>3 DEF Waits, IsAssumedPod
    <2>5. \A n \in NodeTree' : /\ n \in NodeTree /\ nodes'[n].st = nodes[n].st
                               /\ nodes[n].pods \subseteq nodes'[n].pods
      <3>1. nodes' = addPod(nodes, cycle.host, p) /\ nodes \in NodeItems
        BY <2>1 DEF AssumePod, IInv, CacheInv, CacheTypeOK, NodeItems
      <3>q. QED
        BY <2>1, <3>1, AddPodInTree
    <2>q. QED
      BY <1>1, <2>1, <2>4, <2>5, NothingToMiss DEF WaitInv
  <1>12. CASE Schedule(p)
    <2>1. PICK ok \in BOOLEAN :
              /\ UpdateSnapshot(ok)
              /\ LET fit == {n \in snapshot'.list : Fits(p, n, snapshot'.map[n])} IN
                 IF ok /\ fit # {}
                 THEN \E n \in fit : cycle' = [cycle EXCEPT !.pc = "assume", !.host = n]
                 ELSE cycle' = [cycle EXCEPT !.pc = "fail"]
              /\ unwoken' = IF ok /\ NodeTree \subseteq snapshot'.list
                            THEN unwoken ELSE unwoken \cup {p}
      BY <1>12 DEF Schedule
    <2>2. /\ UNCHANGED <<podStates, nodes>>
          /\ \A n \in NodeTree : snapshot'.map[n] = nodes[n]
      BY <2>1, SnapshotFacts DEF IInv
    <2>3. cycle.pod = p /\ UNCHANGED <<activeQ, unschedulableQ, moved, retry>>
      BY <1>12 DEF Schedule, queueVars
    <2>4. cycle'.pod = p
      BY <1>2, <2>1, <2>3
    <2>5. \A q \in Pods \ {p} : Stuck(q)' => Stuck(q)
      BY <2>3, <2>4 DEF Stuck
    <2>6. CASE cycle'.pc = "assume" \/ p \in unwoken'
      <3>1. p \notin unwoken' => ~ Stuck(p)'
        BY <2>4, <2>6 DEF Stuck
      <3>q. QED
        BY <1>4, <2>1, <2>2, <2>5, <3>1 DEF Waits
    <2>7. CASE cycle'.pc # "assume" /\ p \notin unwoken'
      <3>1. ok /\ NodeTree \subseteq snapshot'.list /\ unwoken' = unwoken
        BY <2>1, <2>7
      <3>2. {n \in snapshot'.list : Fits(p, n, snapshot'.map[n])} = {}
        BY <1>2, <2>1, <2>7, <3>1
      <3>3. NoRoom(p)
        BY <2>2, <3>1, <3>2 DEF NoRoom
      <3>4. \A q \in Pods \ {p} : NoRoom(q) => NoRoom(q)'
        BY <2>2 DEF NoRoom, NodeTree, Fits, Allocatable
      <3>5. NoRoom(p)'
        BY <2>2, <3>3 DEF NoRoom, NodeTree, Fits, Allocatable
      <3>6. \A q \in Pods : IsAssumedPod(q)' = IsAssumedPod(q)
        BY <2>2 DEF IsAssumedPod
      <3>7. \A q \in Pods \ {p} : Waits(q)' => Waits(q)
        BY <1>1, <2>5, <3>6 DEF Waits
      <3>q. QED
        BY <1>1, <3>1, <3>4, <3>5, <3>7 DEF WaitInv, NoneMissed
    <2>q. QED
      BY <2>6, <2>7
  <1>q. QED
    BY <1>5, <1>6, <1>7, <1>9, <1>10, <1>11, <1>12

\* The steps of bindings and of the handlers of bound pods miss nothing: where one gives room, the
\* pods that wait are noted, or the handler has yet to move them.
LEMMA PodsNoneMissed ==
    ASSUME IInv, IInv', NoneMissed, NEW p \in Pods,
           \/ Bound_ok(p) \/ BindFails(p) \/ Expire(p)
           \/ addPodToCache(p) \/ updatePodInCache(p) \/ deletePodFromCache(p)
    PROVE  NoneMissed'
  <1>1. UNCHANGED <<queueVars, cycle, apiPod, nodeStep>>
    BY DEF Bound_ok, BindFails, Expire, addPodToCache, updatePodInCache, deletePodFromCache,
           apiVars, toldVars
  <1>2. \A q \in Pods : Pending(q)' = Pending(q) /\ Stuck(q)' = Stuck(q)
    BY <1>1 DEF Pending, Stuck, queueVars
  <1>3. CacheInv
    BY DEF IInv
  <1>4. ASSUME Released
        PROVE  NoneMissed'
    <2>1. \A q \in Pods : Waits(q)' => Pending(q) /\ q \notin activeQ
      BY <1>2 DEF Waits, Stuck
    <2>2. \A q \in Pods \ unwoken' : ~ Waits(q)'
      BY <1>4, <2>1 DEF Released
    <2>q. QED
      BY <2>2 DEF NoneMissed
  <1>5. ASSUME unwoken' = unwoken, Announced' => Announced,
               \A q \in Pods : Waits(q)' => IsAssumedPod(q)' = IsAssumedPod(q),
               \A n \in NodeTree' : /\ n \in NodeTree /\ nodes'[n].st = nodes[n].st
                                    /\ nodes[n].pods \subseteq nodes'[n].pods
        PROVE  NoneMissed'
    <2>1. \A q \in Pods \ unwoken' : Waits(q)' => q \notin unwoken /\ Waits(q)
      BY <1>2, <1>5 DEF Waits
    <2>q. QED
      BY <1>5, <2>1, NothingToMiss
  <1>6. CASE Bound_ok(p)
    <2>1. FinishBinding(p) /\ unwoken' = unwoken /\ UNCHANGED <<nodes, podStep>>
      BY <1>6 DEF Bound_ok, FinishBinding, toldVars
    <2>2. \A q \in Pods : IsAssumedPod(q)' = IsAssumedPod(q)
      BY <1>3, <2>1 DEF FinishBinding, IsAssumedPod, CacheInv, CacheTypeOK
    <2>q. QED
      BY <1>1, <1>5, <2>1, <2>2 DEF NodeTree, Announced
  <1>7. CASE BindFails(p) \/ Expire(p)
    BY <1>4, <1>7 DEF BindFails, Expire
  <1>8. CASE addPodToCache(p)
    <2> DEFINE k == apiPod[p].node
    <2>1. /\ AddPod(p, k) /\ podStep = "none" /\ k \in Nodes
          /\ IF podStates[p].node \in {NoNode, k} THEN unwoken' = unwoken ELSE Released
      BY <1>8 DEF addPodToCache, IInv, RestTypeOK
    <2>2. CASE podStates[p].node \notin {NoNode, k}
      BY <1>4, <2>1, <2>2
    <2>3. CASE podStates[p].node \in {NoNode, k}
      <3>1. nodes' = addPod(nodes, k, p) \/ nodes' = nodes
        <4>1. ~ (IsAssumedPod(p) /\ podStates[p].node # k)
          BY <1>3, <2>3, NoNodeAssumption DEF IsAssumedPod, CacheInv, States, NoState
        <4>q. QED
          BY <2>1, <4>1 DEF AddPod, cacheVars
      <3>2. nodes \in NodeItems
        BY <1>3 DEF CacheInv, CacheTypeOK, NodeItems
      <3>3. \A n \in NodeTree' : /\ n \in NodeTree /\ nodes'[n].st = nodes[n].st
                                 /\ nodes[n].pods \subseteq nodes'[n].pods
        <4>1. CASE nodes' = addPod(nodes, k, p)
          BY <2>1, <3>2, <4>1, AddPodInTree
        <4>2. CASE nodes' = nodes
          BY <4>2 DEF NodeTree
        <4>q. QED
          BY <3>1, <4>1, <4>2
      <3>4. ~ Waits(p)'
        BY <1>2, <1>8 DEF addPodToCache, Waits, Pending, IInv, Hosts
      <3>5. \A q \in Pods \ {p} : podStates'[q] = podStates[q]
        BY <1>3, <2>1 DEF AddPod, CacheInv, CacheTypeOK, cacheVars
      <3>6. \A q \in Pods : Waits(q)' => IsAssumedPod(q)' = IsAssumedPod(q)
        BY <3>4, <3>5 DEF IsAssumedPod
      <3>q. QED
        BY <1>1, <1>5, <2>1, <2>3, <3>3, <3>6 DEF Announced
    <2>q. QED
      BY <2>2, <2>3
  <1>9. CASE updatePodInCache(p)
    <2>1. UNCHANGED <<podStates, nodes, unwoken>> /\ podStep = "none"
      BY <1>9 DEF updatePodInCache, UpdatePod, cacheVars
    <2>q. QED
      BY <1>1, <1>5, <2>1 DEF NodeTree, IsAssumedPod, Announced
  <1>10. CASE deletePodFromCache(p)
    BY <1>10 DEF deletePodFromCache, NoneMissed, Announced
  <1>q. QED
    BY <1>6, <1>7, <1>8, <1>9, <1>10

\* The steps of the handlers of nodes, the second steps of all handlers and a restart miss nothing.
LEMMA NodesNoneMissed ==
    ASSUME IInv, IInv', NoneMissed,
           \/ \E n \in Nodes : \/ addNodeToCache(n) \/ updateNodeInCache(n)
                              \/ deleteNodeFromCache(n) \/ NodeChanges(n)
           \/ PodHandlerMoves \/ NodeHandlerMoves \/ Restart \/ UNCHANGED vars
    PROVE  NoneMissed'
  <1>1. CASE Restart
    <2>1. \A q \in Pods : ~ Stuck(q)'
      BY <1>1, NoPodAssumption DEF Restart, RestartQueue, Rest, Stuck
    <2>q. QED
      BY <2>1 DEF NoneMissed, Waits
  <1>2. ASSUME UNCHANGED <<apiPod, cycle, podStates, unwoken>>, Announced' => Announced,
               \A n \in NodeTree' : /\ n \in NodeTree /\ nodes'[n].st = nodes[n].st
                                    /\ nodes[n].pods \subseteq nodes'[n].pods,
               \A q \in Pods : Stuck(q)' => Stuck(q)
        PROVE  NoneMissed'
    <2>1. \A q \in Pods \ unwoken' : Waits(q)' => q \notin unwoken /\ Waits(q)
      BY <1>2 DEF Waits, Pending, IsAssumedPod
    <2>q. QED
      BY <1>2, <2>1, NothingToMiss
  <1>3. CASE PodHandlerMoves \/ NodeHandlerMoves
    <2>1. UNCHANGED <<apiPod, cycle, cacheVars, unwoken>>
      BY <1>3 DEF PodHandlerMoves, NodeHandlerMoves, apiVars
    <2>2. CASE MoveAllToActiveOrBackoffQueue
      <3>1. \A q \in Pods : ~ Stuck(q)'
        BY <2>1, <2>2, MoveWaits DEF MoveAllToActiveOrBackoffQueue
      <3>q. QED
        BY <3>1 DEF NoneMissed, Waits
    <2>3. CASE ~ MoveAllToActiveOrBackoffQueue
      <3>1. \/ AssignedPod /\ podStep = "assigned" /\ nodeStep' = nodeStep
            \/ UNCHANGED queueVars /\ nodeStep = "unless" /\ podStep' = podStep
        BY <1>3, <2>3 DEF PodHandlerMoves, NodeHandlerMoves
      <3>2. \A q \in Pods : Stuck(q)' => Stuck(q)
        <4>1. CASE AssignedPod
          BY <2>1, <4>1, MoveWaits DEF AssignedPod
        <4>2. CASE UNCHANGED queueVars
          BY <2>1, <4>2 DEF Stuck, queueVars
        <4>q. QED
          BY <3>1, <4>1, <4>2
      <3>q. QED
        BY <1>2, <2>1, <3>1, <3>2 DEF NodeTree, cacheVars, Announced
    <2>q. QED
      BY <2>2, <2>3
  <1>4. ASSUME NEW n \in Nodes,
               addNodeToCache(n) \/ updateNodeInCache(n) \/ deleteNodeFromCache(n)
        PROVE  NoneMissed'
    <2>1. UNCHANGED <<apiPod, cycle, podStates, unwoken, queueVars, podStep>>
      BY <1>4 DEF addNodeToCache, updateNodeInCache, deleteNodeFromCache, SetNode, RemoveNode,
                  apiVars, toldVars
    <2>2. \A q \in Pods : Stuck(q)' => Stuck(q)
      BY <2>1 DEF Stuck, queueVars
    <2>3. nodes \in [Nodes -> [st : {"absent", "nil", "plain", "slo"}, pods : SUBSET Pods]]
      BY DEF IInv, CacheInv, CacheTypeOK
    <2>4. CASE nodeStep' = "all"
      BY <2>4 DEF NoneMissed, Announced
    <2>5. CASE updateNodeInCache(n) /\ nodeStep' # "all"
      <3>1. nodes' = [nodes EXCEPT ![n].st = apiNode[n]] /\ nodes[n].st = apiNode[n]
            /\ nodeStep = "none"
        BY <2>5 DEF updateNodeInCache, SetNode
      <3>2. nodes' = nodes
        BY <2>3, <3>1
      <3>q. QED
        BY <1>2, <2>1, <2>2, <3>1, <3>2 DEF NodeTree, Announced
    <2>6. CASE deleteNodeFromCache(n)
      <3>1. nodes' = [nodes EXCEPT ![n] = NoItem] /\ nodeStep = "none"
        BY <2>6 DEF deleteNodeFromCache, RemoveNode
      <3>2. n \notin NodeTree' /\ \A m \in Nodes \ {n} : nodes'[m] = nodes[m]
        BY <2>3, <3>1 DEF NodeTree, NoItem
      <3>3. \A m \in NodeTree' : /\ m \in NodeTree /\ nodes'[m].st = nodes[m].st
                                 /\ nodes[m].pods \subseteq nodes'[m].pods
        BY <3>2 DEF NodeTree
      <3>q. QED
        BY <1>2, <2>1, <2>2, <3>1, <3>3 DEF Announced
    <2>q. QED
      BY <1>4, <2>4, <2>5, <2>6 DEF addNodeToCache
  <1>5. CASE (\E n \in Nodes : NodeChanges(n)) \/ UNCHANGED vars
    <2>1. UNCHANGED <<apiPod, cycle, cacheVars, unwoken, queueVars, podStep, nodeStep>>
      BY <1>5 DEF NodeChanges, World, vars, apiVars, toldVars
    <2>2. \A q \in Pods : Stuck(q)' => Stuck(q)
      BY <2>1 DEF Stuck, queueVars
    <2>q. QED
      BY <1>2, <2>1, <2>2 DEF NodeTree, cacheVars, Announced
  <1>q. QED
    BY <1>1, <1>3, <1>4, <1>5

\* With the invariants so far, WaitInv is inductive.
LEMMA SchedulerWaitInv == Spec => [](IInv /\ WaitInv)
  <1>1. Init => WaitInv
    <2> SUFFICES ASSUME Init PROVE WaitInv
      OBVIOUS
    <2>1. ~ moved /\ cycle.pod = NoPod
      BY DEF Init, InitQueue, Rest
    <2>2. \A q \in Pods : ~ Stuck(q)
      BY NoPodAssumption DEF Init, InitQueue, Rest, Stuck
    <2>q. QED
      BY <2>1, <2>2 DEF WaitInv, Idle, Noted, NoneMissed, Waits
  <1>2. IInv /\ IInv' /\ LedgerInv /\ WaitInv /\ [Next]_vars => WaitInv'
    <2> SUFFICES ASSUME IInv, IInv', Sync, Listed, WaitInv, [Next]_vars PROVE WaitInv'
      BY DEF LedgerInv
    <2>1. Idle'
      BY StepIdle DEF WaitInv
    <2>2. Noted'
      BY StepNoted DEF WaitInv
    <2>3. NoneMissed /\ IInv
      BY DEF WaitInv
    <2>4. ASSUME NEW p \in Pods, \/ PopPod(p) \/ ScheduleOne(p) \/ BindRecorded(p)
          PROVE  NoneMissed'
      BY <2>4, CycleNoneMissed DEF ScheduleOne
    <2>5. ASSUME NEW p \in Pods,
                 \/ Retry(p) \/ FlushBackoff(p) \/ FlushUnschedulable(p)
                 \/ addPodToSchedulingQueue(p) \/ updatePodInSchedulingQueue(p)
                 \/ deletePodFromSchedulingQueue(p) \/ Bind(p) \/ Missed(p) \/ PodDeleted(p)
          PROVE  NoneMissed'
      BY <2>3, <2>5, QueueNoneMissed
    <2>6. ASSUME NEW p \in Pods,
                 \/ Bound_ok(p) \/ BindFails(p) \/ Expire(p)
                 \/ addPodToCache(p) \/ updatePodInCache(p) \/ deletePodFromCache(p)
          PROVE  NoneMissed'
      BY <2>3, <2>6, PodsNoneMissed
    <2>7. NoneMissed'
      BY <2>3, <2>4, <2>5, <2>6, NodesNoneMissed DEF Next, Binding
    <2>q. QED
      BY <2>1, <2>2, <2>7 DEF WaitInv
  <1>q. QED
    BY <1>1, <1>2, SchedulerLedgerInv, PTL DEF Spec

\* No wake-up is lost, whatever the queue, the handlers and the goroutines of failed pods do in
\* whatever order: a pod that scheduleOne found no room for, and that no move request will bring
\* back, still has none (moveRequestCycle, AddUnschedulableIfNotPresent).
THEOREM SchedulerParked == Spec => []Parked
  <1>1. IInv /\ WaitInv => Parked
    <2> SUFFICES ASSUME IInv, WaitInv, NEW p \in unschedulableQ \ unwoken,
                        Pending(p), ~ IsAssumedPod(p), cycle.pod # p,
                        podStep = "none", nodeStep = "none"
                 PROVE  NoRoom(p)
      BY DEF Parked, NoRoom
    <2>1. p \in Pods /\ p \notin activeQ
      BY DEF IInv, QueueTypeOK, Queued, OneQueue
    <2>2. Waits(p)
      BY <2>1 DEF Waits, Stuck
    <2>q. QED
      BY <2>1, <2>2 DEF WaitInv, NoneMissed, Announced
  <1>q. QED
    BY <1>1, SchedulerWaitInv, PTL

=============================================================================
