--------------------------- MODULE SchedulerCache ---------------------------
(***************************************************************************)
(* The cache of the scheduler (pkg/scheduler/internal/cache): what it      *)
(* believes of the pods (podStates, assumedPods), the pods counted on each *)
(* node (nodes, with the NodeInfo of each), and the snapshot that the      *)
(* scheduling cycles read.  Every operation holds cache.mu, so each is one *)
(* action.                                                                 *)
(*                                                                         *)
(* The list of nodes ordered by generation only serves to find the nodes   *)
(* changed since the last snapshot: that set is kept instead, as dirty.    *)
(* The nodes of nodeTree (one zone) are the items that hold a v1.Node.     *)
(***************************************************************************)
EXTENDS SloDemand

VARIABLES
    podStates,  \* the node of a pod and whether the pod is assumed there, may expire, or is added
    nodes,      \* the item of a node: "absent", "nil" (no v1.Node), "plain", "slo"; and its pods
    dirty,      \* nodes whose generation is above that of the snapshot
    snapshot,   \* nodeInfoMap and nodeInfoList
    panicked    \* NodeInfo.RemovePod has dereferenced a nil node

cacheVars == <<podStates, nodes, dirty, snapshot, panicked>>

NoState == [node |-> NoNode, st |-> "none"]
NoItem == [st |-> "absent", pods |-> {}]
NodeTree == {n \in Nodes : nodes[n].st \in {"plain", "slo"}}
Cached(items) == {n \in Nodes : items[n].st # "absent"}

CacheTypeOK ==
    /\ podStates \in [Pods -> [node : Nodes \cup {NoNode},
                               st : {"none", "assumed", "expirable", "added"}]]
    /\ nodes \in [Nodes -> [st : {"absent", "nil", "plain", "slo"}, pods : SUBSET Pods]]
    /\ snapshot \in [map : [Nodes -> [st : {"absent", "plain", "slo"}, pods : SUBSET Pods]],
                     list : SUBSET Nodes]
    /\ dirty \subseteq Cached(nodes) /\ panicked \in BOOLEAN

EmptyCache ==
    /\ podStates' = [p \in Pods |-> NoState]
    /\ nodes' = [n \in Nodes |-> NoItem]
    /\ dirty' = {}
    /\ snapshot' = [map |-> [n \in Nodes |-> NoItem], list |-> {}]
    /\ panicked' = FALSE

InitCache ==
    /\ podStates = [p \in Pods |-> NoState]
    /\ nodes = [n \in Nodes |-> NoItem]
    /\ dirty = {}
    /\ snapshot = [map |-> [n \in Nodes |-> NoItem], list |-> {}]
    /\ panicked = FALSE

-----------------------------------------------------------------------------
(* the pods of a node *)

Allocatable(n, item) == IF item.st = "slo" THEN Capacity[n] ELSE 0

Fits(p, n, item) == FitsAmong(p, item.pods, Allocatable(n, item))

\* a pod of a node that is not known creates an item without a v1.Node
addPod(items, n, p) ==
    [items EXCEPT ![n].st = IF @ = "absent" THEN "nil" ELSE @, ![n].pods = @ \cup {p}]

\* mutant: the pod stays counted
removePodKeeps(items, n, p) == items

removePod(items, n, p) == [items EXCEPT ![n].pods = @ \ {p}]

\* removePod succeeds when there is no item or the item holds the pod
Removable(n, p) == nodes[n].st = "absent" \/ p \in nodes[n].pods

\* otherwise it makes an error message of the name of a v1.Node that may be nil
RemovePanics(n, p) == ~ Removable(n, p) /\ nodes[n].st = "nil"

\* subtract p from the node it is counted on and forget it, unless that fails
Drop(p) ==
    LET n == podStates[p].node IN
    /\ panicked' = RemovePanics(n, p)
    /\ nodes' = removePod(nodes, n, p)
    /\ dirty' = dirty \cup (IF p \in nodes[n].pods THEN {n} ELSE {})
    /\ podStates' = IF Removable(n, p) THEN [podStates EXCEPT ![p] = NoState] ELSE podStates
    /\ UNCHANGED snapshot

-----------------------------------------------------------------------------
(* the operations on pods *)

IsAssumedPod(p) == podStates[p].st \in {"assumed", "expirable"}

\* mutant: the resources are not taken until the pod is added
AssumePodUncounted(p, n) ==
    /\ podStates[p] = NoState
    /\ podStates' = [podStates EXCEPT ![p] = [node |-> n, st |-> "assumed"]]
    /\ UNCHANGED <<nodes, dirty, snapshot, panicked>>

AssumePod(p, n) ==
    /\ podStates[p] = NoState
    /\ podStates' = [podStates EXCEPT ![p] = [node |-> n, st |-> "assumed"]]
    /\ nodes' = addPod(nodes, n, p)
    /\ dirty' = dirty \cup {n}
    /\ UNCHANGED <<snapshot, panicked>>

\* mutant: no deadline is set
FinishBindingNoDeadline(p) == UNCHANGED cacheVars

\* after a binding that succeeded: from now on the pod may expire
FinishBinding(p) ==
    /\ podStates' = IF IsAssumedPod(p) THEN [podStates EXCEPT ![p].st = "expirable"] ELSE podStates
    /\ UNCHANGED <<nodes, dirty, snapshot, panicked>>

\* mutant: ForgetPod also forgets a pod that has been added
ForgetPodAdded(p, n) == IF podStates[p].node = n THEN Drop(p) ELSE FinishBinding(p)

(***************************************************************************)
(* After a binding that failed: FinishBinding, then ForgetPod.  A pod that *)
(* is no longer assumed, or is assumed on another node, is left alone; a   *)
(* pod whose node no longer counts it stays, and may expire.               *)
(***************************************************************************)
ForgetPod(p, n) ==
    IF IsAssumedPod(p) /\ podStates[p].node = n
    THEN IF Removable(n, p) \/ RemovePanics(n, p) THEN Drop(p) ELSE FinishBinding(p)
    ELSE FinishBinding(p)

\* a pod assumed elsewhere is moved, and one that is added stays as it is
AddPod(p, n) ==
    LET old == podStates[p] IN
    \/ /\ IsAssumedPod(p) /\ old.node # n
       /\ panicked' = RemovePanics(old.node, p)
       /\ nodes' = addPod(removePod(nodes, old.node, p), n, p)
       /\ dirty' = dirty \cup {n} \cup (IF p \in nodes[old.node].pods THEN {old.node} ELSE {})
       /\ podStates' = [podStates EXCEPT ![p] = [node |-> n, st |-> "added"]]
       /\ UNCHANGED snapshot
    \/ /\ IsAssumedPod(p) /\ old.node = n
       /\ podStates' = [podStates EXCEPT ![p].st = "added"]
       /\ UNCHANGED <<nodes, dirty, snapshot, panicked>>
    \/ /\ old = NoState
       /\ nodes' = addPod(nodes, n, p)
       /\ dirty' = dirty \cup {n}
       /\ podStates' = [podStates EXCEPT ![p] = [node |-> n, st |-> "added"]]
       /\ UNCHANGED <<snapshot, panicked>>
    \/ old.st = "added" /\ UNCHANGED cacheVars

\* the old pod is subtracted from its node and the new one added
UpdatePod(p) ==
    LET n == podStates[p].node IN
    IF podStates[p].st = "added"
    THEN /\ panicked' = RemovePanics(n, p)
         /\ dirty' = dirty \cup (IF p \in nodes[n].pods THEN {n} ELSE {})
         /\ UNCHANGED <<podStates, nodes, snapshot>>
    ELSE UNCHANGED cacheVars

RemovePod(p) == IF podStates[p].st = "added" THEN Drop(p) ELSE UNCHANGED cacheVars

\* mutant: a pod expires while its binding still runs
expirePodEarly(p) == IsAssumedPod(p) /\ Drop(p)

\* cleanupAssumedPods, for a pod whose deadline has passed
expirePod(p) == podStates[p].st = "expirable" /\ Drop(p)

-----------------------------------------------------------------------------
(* the operations on nodes, and the snapshot *)

\* AddNode and UpdateNode: the v1.Node is set, the pods of the item stay
SetNode(n, st) ==
    /\ nodes' = [nodes EXCEPT ![n].st = st]
    /\ dirty' = dirty \cup {n}
    /\ UNCHANGED <<podStates, snapshot, panicked>>

\* the item goes, with the pods counted on it
RemoveNode(n) ==
    /\ nodes' = [nodes EXCEPT ![n] = NoItem]
    /\ dirty' = dirty \ {n}
    /\ UNCHANGED <<podStates, snapshot, panicked>>

\* whether nodeInfoList must be made anew
ListChanged(added, excess) == added # {} \/ excess > 0

\* mutant: a node that the snapshot has is not cloned again
ClonedOnce == {n \in dirty \cap NodeTree : snapshot.map[n].st = "absent"}

\* mutant: nodes without a v1.Node are cloned as well
ClonedAll == dirty

Cloned == dirty \cap NodeTree

(***************************************************************************)
(* Dirty nodes are cloned into the map.  As many surplus entries as the    *)
(* map has more than the cache has items are deleted, whichever the        *)
(* iteration meets first.  A list that is then not as long as nodeTree is  *)
(* an error, and is made anew for the next cycle; ok says which.           *)
(***************************************************************************)
UpdateSnapshot(ok) ==
    LET map == [n \in Nodes |-> IF n \in Cloned THEN nodes[n] ELSE snapshot.map[n]]
        excess == Cardinality(Cached(map)) - Cardinality(Cached(nodes))
        list == IF ListChanged({n \in Cloned : snapshot.map[n].st = "absent"}, excess)
                THEN NodeTree ELSE snapshot.list
    IN  /\ \E D \in kSubset(IF excess > 0 THEN excess ELSE 0, Cached(map) \ Cached(nodes)) :
               snapshot' = [map |-> [n \in Nodes |-> IF n \in D THEN NoItem ELSE map[n]],
                            list |-> IF ok THEN list ELSE NodeTree]
        /\ ok <=> Cardinality(list) = Cardinality(NodeTree)
        /\ dirty' = {}
        /\ UNCHANGED <<podStates, nodes, panicked>>

=============================================================================
