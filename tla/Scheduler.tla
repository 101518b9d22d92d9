----------------------------- MODULE Scheduler ------------------------------
(***************************************************************************)
(* The scheduler (pkg/scheduler) around its cache and its queue: the       *)
(* thread of scheduleOne, one binding goroutine per assumed pod, the       *)
(* goroutines that bring failed pods back, the event handlers of the pod   *)
(* and the node informer, and the API server they all talk to.             *)
(*                                                                         *)
(* A handler first changes the cache and then asks the queue to move pods; *)
(* the two steps of a handler, and those of two handlers, interleave with  *)
(* everything else.  The handlers of bound pods, of pending pods and of    *)
(* nodes each get their events in order, at any delay, and after a relist  *)
(* only the last of them.  A request to bind or its answer may be lost; the *)
(* process may be killed and is started again, as it is after a panic, by  *)
(* the kubelet.  These, and what users and nodes do besides creating pods, *)
(* are upsets, of which there are at most MaxUpsets.                       *)
(***************************************************************************)
EXTENDS SchedulerCache, SchedulingQueue

CONSTANTS
    NoPod,
    Ready,      \* nodes that offer SLOs when the scheduler starts
    MaxUpsets

ASSUME NoPodAssumption == NoPod \notin Pods
ASSUME ReadyAssumption == Ready \subseteq Nodes
ASSUME UpsetsAssumption == MaxUpsets \in Nat

VARIABLES
    apiPod,     \* the pod in the API server, and the node it was bound to
    apiNode,    \* the node there: "none", "plain", "slo", "gone"
    seenQ,      \* pods that the handlers of pending pods know of
    seenC,      \* what the handlers of bound pods have been told: "no", "yes", "done"
    podStep,    \* what the handler of bound pods has yet to ask of the queue
    nodeStep,   \* what the handler of nodes has yet to ask
    cycle,      \* scheduleOne: where it is, its pod, the host found
    bind,       \* the binding goroutine of a pod, and its host
    upsets,     \* how many there have been
    lapsed,     \* history: pods that snapshots have ceased to count, or never did
    unwoken     \* history: pods that got room, or failed otherwise, with no move request

apiVars == <<apiPod, apiNode>>
toldVars == <<seenQ, seenC, podStep, nodeStep>>
vars == <<cacheVars, queueVars, apiVars, toldVars, cycle, bind, upsets, lapsed, unwoken>>

Rest == [pc |-> "pop", pod |-> NoPod, host |-> NoNode]
NoBind == [step |-> "none", host |-> NoNode]
Bound(p) == apiPod[p].st = "bound"
Upset == upsets < MaxUpsets /\ upsets' = upsets + 1
Pending(p) == apiPod[p].st = "pending"

Init ==
    /\ InitCache /\ InitQueue
    /\ apiPod = [p \in Pods |-> [st |-> "none", node |-> NoNode]]
    /\ apiNode = [n \in Nodes |-> IF n \in Ready THEN "slo" ELSE "none"]
    /\ seenQ = {} /\ seenC = [p \in Pods |-> "no"]
    /\ podStep = "none" /\ nodeStep = "none"
    /\ cycle = Rest
    /\ bind = [p \in Pods |-> NoBind]
    /\ upsets = 0
    /\ lapsed = {} /\ unwoken = {}

-----------------------------------------------------------------------------
(* scheduleOne *)

\* NextPod
PopPod(p) ==
    /\ ~ panicked /\ cycle.pc = "pop"
    /\ Pop(p)
    /\ cycle' = [cycle EXCEPT !.pc = "schedule", !.pod = p]
    /\ unwoken' = unwoken \ {p}
    /\ UNCHANGED <<cacheVars, apiVars, toldVars, bind, upsets, lapsed>>

\* skipPodSchedule: p is assumed, as it was popped
SkipPod(p) ==
    /\ ~ panicked /\ cycle.pc = "schedule" /\ cycle.pod = p
    /\ IsAssumedPod(p)
    /\ cycle' = Rest
    /\ UNCHANGED <<cacheVars, queueVars, apiVars, toldVars, bind, upsets, lapsed, unwoken>>

(***************************************************************************)
(* Schedule reads the cache through a new snapshot and scores the nodes    *)
(* that fit; whichever scores best.  That none fits is the one failure     *)
(* that waits for a move request, if no node is missing from the list.     *)
(***************************************************************************)
Schedule(p) ==
    /\ ~ panicked /\ cycle.pc = "schedule" /\ cycle.pod = p
    /\ \E ok \in BOOLEAN :
           /\ UpdateSnapshot(ok)
           /\ LET fit == {n \in snapshot'.list : Fits(p, n, snapshot'.map[n])} IN
              IF ok /\ fit # {}
              THEN \E n \in fit : cycle' = [cycle EXCEPT !.pc = "assume", !.host = n]
              ELSE cycle' = [cycle EXCEPT !.pc = "fail"]
           /\ unwoken' = IF ok /\ NodeTree \subseteq snapshot'.list
                         THEN unwoken ELSE unwoken \cup {p}
    /\ UNCHANGED <<queueVars, apiVars, toldVars, bind, upsets, lapsed>>

\* assume, and the start of the binding goroutine; the node may have gone since Schedule, or
\* have been a stale entry of the snapshot: then a NodeInfo without a v1.Node counts the pod,
\* which no snapshot shows
Assume(p) ==
    /\ ~ panicked /\ cycle.pc = "assume" /\ cycle.pod = p
    /\ AssumePod(p, cycle.host)
    /\ bind' = [bind EXCEPT ![p] = [step |-> "call", host |-> cycle.host]]
    /\ lapsed' = IF cycle.host \in NodeTree THEN lapsed ELSE lapsed \cup {p}
    /\ cycle' = Rest
    /\ UNCHANGED <<queueVars, apiVars, toldVars, upsets, unwoken>>

\* the pod is in the cache already
AssumeFails(p) ==
    /\ ~ panicked /\ cycle.pc = "assume" /\ cycle.pod = p
    /\ podStates[p] # NoState
    /\ cycle' = [cycle EXCEPT !.pc = "fail", !.host = NoNode]
    /\ unwoken' = unwoken \cup {p}
    /\ UNCHANGED <<cacheVars, queueVars, apiVars, toldVars, bind, upsets, lapsed>>

\* recordSchedulingFailure
FailPod(p) ==
    /\ ~ panicked /\ cycle.pc = "fail" /\ cycle.pod = p
    /\ retry' = Failed(p)
    /\ cycle' = Rest
    /\ UNCHANGED <<cacheVars, activeQ, backoffQ, unschedulableQ, moved,
                   apiVars, toldVars, bind, upsets, lapsed, unwoken>>

-----------------------------------------------------------------------------
(* the binding goroutine *)

\* assignPod refuses a pod that is gone or has a node
Bindable(p) == Pending(p)

\* the API server answers, or the answer is lost
Bind(p) ==
    /\ ~ panicked /\ bind[p].step = "call"
    /\ IF Bindable(p)
       THEN \/ /\ apiPod' = [apiPod EXCEPT ![p] = [st |-> "bound", node |-> bind[p].host]]
               /\ \/ bind' = [bind EXCEPT ![p].step = "ok"] /\ UNCHANGED upsets
                  \/ /\ Upset
                     /\ bind' = [bind EXCEPT ![p].step = "err"]
            \/ /\ Upset
               /\ bind' = [bind EXCEPT ![p].step = "err"]
               /\ UNCHANGED apiPod
       ELSE bind' = [bind EXCEPT ![p].step = "err"] /\ UNCHANGED <<apiPod, upsets>>
    /\ UNCHANGED <<cacheVars, queueVars, apiNode, toldVars, cycle, lapsed, unwoken>>

\* room that a Drop gives back is announced to nobody
Released == unwoken' = unwoken \cup {p \in Pods : Pending(p) /\ p \notin activeQ}

Bound_ok(p) ==
    /\ ~ panicked /\ bind[p].step = "ok"
    /\ FinishBinding(p)
    /\ bind' = [bind EXCEPT ![p] = NoBind]
    /\ UNCHANGED <<queueVars, apiVars, toldVars, cycle, upsets, lapsed, unwoken>>

\* finishBinding with an error
BindFails(p) ==
    /\ ~ panicked /\ bind[p].step = "err"
    /\ ForgetPod(p, bind[p].host)
    /\ lapsed' = IF podStates'[p] = NoState /\ podStates[p] # NoState /\ apiPod[p].node # NoNode
                 THEN lapsed \cup {p} ELSE lapsed
    /\ bind' = [bind EXCEPT ![p].step = "record"]
    /\ Released
    /\ UNCHANGED <<queueVars, apiVars, toldVars, cycle, upsets>>

\* recordSchedulingFailure
BindRecorded(p) ==
    /\ ~ panicked /\ bind[p].step = "record"
    /\ retry' = Failed(p)
    /\ bind' = [bind EXCEPT ![p] = NoBind]
    /\ unwoken' = unwoken \cup {p}
    /\ UNCHANGED <<cacheVars, activeQ, backoffQ, unschedulableQ, moved,
                   apiVars, toldVars, cycle, upsets, lapsed>>

-----------------------------------------------------------------------------
(* the other goroutines *)

Retry(p) ==
    /\ ~ panicked
    /\ GetPod(p, Pending(p)) \/ AddUnschedulableIfNotPresent(p)
    /\ UNCHANGED <<cacheVars, apiVars, toldVars, cycle, bind, upsets, lapsed, unwoken>>

FlushBackoff(p) ==
    /\ ~ panicked /\ flushBackoffQCompleted(p)
    /\ UNCHANGED <<cacheVars, apiVars, toldVars, cycle, bind, upsets, lapsed, unwoken>>

FlushUnschedulable(p) ==
    /\ ~ panicked /\ flushUnschedulableQLeftover(p)
    /\ UNCHANGED <<cacheVars, apiVars, toldVars, cycle, bind, upsets, lapsed, unwoken>>

\* the deadline is half a minute away: the goroutine of p is past finishBinding
Expire(p) ==
    /\ ~ panicked /\ expirePod(p)
    /\ lapsed' = IF apiPod[p].node # NoNode THEN lapsed \cup {p} ELSE lapsed
    /\ Released
    /\ UNCHANGED <<queueVars, apiVars, toldVars, cycle, bind, upsets>>

-----------------------------------------------------------------------------
(* the event handlers of pods *)

\* nothing else of the scheduler sees a pod earlier: the event need not be delayed
addPodToSchedulingQueue(p) ==
    /\ ~ panicked /\ apiPod[p].st = "none"
    /\ apiPod' = [apiPod EXCEPT ![p].st = "pending"]
    /\ Add(p)
    /\ seenQ' = seenQ \cup {p}
    /\ UNCHANGED <<cacheVars, apiNode, seenC, podStep, nodeStep, cycle, bind, upsets,
                   lapsed, unwoken>>

\* skipPodUpdate: an assumed pod of which nothing that matters has changed is skipped
updatePodInSchedulingQueue(p) ==
    /\ ~ panicked /\ p \in seenQ
    /\ \E changed \in BOOLEAN : Update(p, changed)
    /\ Upset
    /\ UNCHANGED <<cacheVars, apiVars, toldVars, cycle, bind, lapsed, unwoken>>

deletePodFromSchedulingQueue(p) ==
    /\ ~ panicked /\ p \in seenQ /\ apiPod[p].st \in {"bound", "gone"}
    /\ Delete(p)
    /\ seenQ' = seenQ \ {p}
    /\ unwoken' = unwoken \ {p}
    /\ UNCHANGED <<cacheVars, apiVars, seenC, podStep, nodeStep, cycle, bind, upsets, lapsed>>

addPodToCache(p) ==
    /\ ~ panicked /\ podStep = "none" /\ seenC[p] = "no" /\ apiPod[p].node # NoNode
    /\ AddPod(p, apiPod[p].node)
    /\ seenC' = [seenC EXCEPT ![p] = "yes"]
    /\ podStep' = "assigned"
    /\ IF podStates[p].node \in {NoNode, apiPod[p].node} THEN UNCHANGED unwoken ELSE Released
    /\ UNCHANGED <<queueVars, apiVars, seenQ, nodeStep, cycle, bind, upsets, lapsed>>

updatePodInCache(p) ==
    /\ ~ panicked /\ podStep = "none" /\ seenC[p] = "yes"
    /\ UpdatePod(p)
    /\ podStep' = "assigned"
    /\ Upset
    /\ UNCHANGED <<queueVars, apiVars, seenQ, seenC, nodeStep, cycle, bind,
                   lapsed, unwoken>>

deletePodFromCache(p) ==
    /\ ~ panicked /\ podStep = "none" /\ seenC[p] = "yes" /\ apiPod[p].st = "gone"
    /\ RemovePod(p)
    /\ seenC' = [seenC EXCEPT ![p] = "done"]
    /\ podStep' = "all"
    /\ UNCHANGED <<queueVars, apiVars, seenQ, nodeStep, cycle, bind, upsets,
                   lapsed, unwoken>>

\* a relist finds that p is gone, never having told that it was bound
Missed(p) ==
    /\ ~ panicked /\ seenC[p] = "no" /\ apiPod[p].st = "gone"
    /\ seenC' = [seenC EXCEPT ![p] = "done"]
    /\ UNCHANGED <<cacheVars, queueVars, apiVars, seenQ, podStep, nodeStep, cycle, bind,
                   upsets, lapsed, unwoken>>

\* the handler's second step
PodHandlerMoves ==
    /\ ~ panicked
    /\ \/ podStep = "assigned" /\ AssignedPod
       \/ podStep = "all" /\ MoveAllToActiveOrBackoffQueue
    /\ podStep' = "none"
    /\ UNCHANGED <<cacheVars, apiVars, seenQ, seenC, nodeStep, cycle, bind, upsets,
                   lapsed, unwoken>>

-----------------------------------------------------------------------------
(* the event handlers of nodes *)

addNodeToCache(n) ==
    /\ ~ panicked /\ nodeStep = "none"
    /\ n \notin NodeTree /\ apiNode[n] \in {"plain", "slo"}
    /\ SetNode(n, apiNode[n])
    /\ nodeStep' = "all"
    /\ UNCHANGED <<queueVars, apiVars, seenQ, seenC, podStep, cycle, bind, upsets,
                   lapsed, unwoken>>

\* pods are moved when the node offers something else or none are unschedulable
updateNodeInCache(n) ==
    /\ ~ panicked /\ nodeStep = "none"
    /\ n \in NodeTree /\ apiNode[n] \in {"plain", "slo"}
    /\ SetNode(n, apiNode[n])
    /\ IF nodes[n].st # apiNode[n]
       THEN nodeStep' = "all" /\ UNCHANGED upsets
       ELSE nodeStep' = "unless" /\ Upset
    /\ UNCHANGED <<queueVars, apiVars, seenQ, seenC, podStep, cycle, bind,
                   lapsed, unwoken>>

deleteNodeFromCache(n) ==
    /\ ~ panicked /\ nodeStep = "none"
    /\ n \in NodeTree /\ apiNode[n] = "gone"
    /\ RemoveNode(n)
    /\ lapsed' = lapsed \cup {p \in Pods : podStates[p].node = n}
    /\ UNCHANGED <<queueVars, apiVars, toldVars, cycle, bind, upsets, unwoken>>

\* the handler's second step
NodeHandlerMoves ==
    /\ ~ panicked
    /\ \/ nodeStep = "all" /\ MoveAllToActiveOrBackoffQueue
       \/ /\ nodeStep = "unless"
          /\ IF unschedulableQ = {} THEN MoveAllToActiveOrBackoffQueue ELSE UNCHANGED queueVars
    /\ nodeStep' = "none"
    /\ UNCHANGED <<cacheVars, apiVars, seenQ, seenC, podStep, cycle, bind, upsets,
                   lapsed, unwoken>>

-----------------------------------------------------------------------------
(* the world *)

World == <<cacheVars, queueVars, toldVars, cycle, bind, lapsed, unwoken>>

PodDeleted(p) ==
    /\ apiPod[p].st \in {"pending", "bound"}
    /\ apiPod' = [apiPod EXCEPT ![p].st = "gone"]
    /\ Upset
    /\ UNCHANGED <<World, apiNode>>

\* a node registers, is patched with an SLO, is deleted and registers again
NodeChanges(n) ==
    /\ \/ apiNode[n] = "none" /\ apiNode' = [apiNode EXCEPT ![n] = "plain"]
       \/ apiNode[n] = "plain" /\ apiNode' = [apiNode EXCEPT ![n] = "slo"]
       \/ apiNode[n] \in {"plain", "slo"} /\ apiNode' = [apiNode EXCEPT ![n] = "gone"]
       \/ apiNode[n] = "gone" /\ apiNode' = [apiNode EXCEPT ![n] = "plain"]
    /\ Upset
    /\ UNCHANGED <<World, apiPod>>

(***************************************************************************)
(* The process is killed or has panicked and starts anew: it waits for the *)
(* informer to have listed the pods, not for the handlers to have been     *)
(* told of them.  A request under way is lost with it.                     *)
(***************************************************************************)
Restart ==
    /\ IF panicked THEN UNCHANGED upsets ELSE Upset
    /\ EmptyCache
    /\ RestartQueue({p \in Pods : Pending(p)})
    /\ seenQ' = {p \in Pods : Pending(p)}
    /\ seenC' = [p \in Pods |-> IF apiPod[p].st = "gone" THEN "done" ELSE "no"]
    /\ podStep' = "none" /\ nodeStep' = "none"
    /\ cycle' = Rest
    /\ bind' = [p \in Pods |-> NoBind]
    /\ lapsed' = lapsed \cup {p \in Pods : podStates[p] # NoState /\ apiPod[p].node # NoNode}
    /\ unwoken' = {}
    /\ UNCHANGED apiVars

-----------------------------------------------------------------------------

ScheduleOne(p) == SkipPod(p) \/ Schedule(p) \/ Assume(p) \/ AssumeFails(p) \/ FailPod(p)
Binding(p) == Bind(p) \/ Bound_ok(p) \/ BindFails(p) \/ BindRecorded(p)

Next ==
    \/ \E p \in Pods :
         \/ PopPod(p) \/ ScheduleOne(p) \/ Binding(p) \/ Retry(p)
         \/ FlushBackoff(p) \/ FlushUnschedulable(p) \/ Expire(p)
         \/ addPodToSchedulingQueue(p) \/ updatePodInSchedulingQueue(p)
         \/ deletePodFromSchedulingQueue(p)
         \/ addPodToCache(p) \/ updatePodInCache(p) \/ deletePodFromCache(p) \/ Missed(p)
         \/ PodDeleted(p)
    \/ \E n \in Nodes :
         \/ addNodeToCache(n) \/ updateNodeInCache(n) \/ deleteNodeFromCache(n) \/ NodeChanges(n)
    \/ PodHandlerMoves \/ NodeHandlerMoves \/ Restart

Spec == Init /\ [][Next]_vars

(***************************************************************************)
(* Every goroutine goes on; the timers fire; events arrive.  activeQ is    *)
(* ordered by the time a pod was added, so a pod is not overtaken forever. *)
(***************************************************************************)
Fairness ==
    /\ \A p \in Pods :
         /\ SF_vars(PopPod(p))
         /\ WF_vars(Binding(p)) /\ WF_vars(Retry(p))
         /\ WF_vars(FlushBackoff(p)) /\ WF_vars(FlushUnschedulable(p))
    /\ WF_vars(\E p \in Pods : ScheduleOne(p)) /\ WF_vars(\E p \in Pods : Expire(p))
    /\ WF_vars(\E p \in Pods : deletePodFromSchedulingQueue(p))
    /\ SF_vars(\E p \in Pods : addPodToCache(p) \/ deletePodFromCache(p) \/ Missed(p))
    /\ SF_vars(\E n \in Nodes : addNodeToCache(n) \/ deleteNodeFromCache(n)
                                \/ (nodes[n].st # apiNode[n] /\ updateNodeInCache(n)))
    /\ WF_vars(PodHandlerMoves) /\ WF_vars(NodeHandlerMoves)
    /\ WF_vars(panicked /\ Restart)

FairSpec == Spec /\ Fairness

-----------------------------------------------------------------------------
(* Properties *)

\* Every variable has its type.  In particular the snapshot holds no node without a v1.Node
\* (UpdateSnapshot) and only nodes that are cached are ever dirty.
TypeOK ==
    /\ CacheTypeOK /\ QueueTypeOK
    /\ apiPod \in [Pods -> [st : {"none", "pending", "bound", "gone"}, node : Nodes \cup {NoNode}]]
    /\ apiNode \in [Nodes -> {"none", "plain", "slo", "gone"}]
    /\ seenQ \subseteq Pods /\ seenC \in [Pods -> {"no", "yes", "done"}]
    /\ podStep \in {"none", "assigned", "all"} /\ nodeStep \in {"none", "all", "unless"}
    /\ cycle \in [pc : {"pop", "schedule", "assume", "fail"},
                  pod : Pods \cup {NoPod}, host : Nodes \cup {NoNode}]
    /\ bind \in [Pods -> [step : {"none", "call", "ok", "err", "record"},
                          host : Nodes \cup {NoNode}]]
    /\ upsets \in 0..MaxUpsets /\ lapsed \subseteq Pods /\ unwoken \subseteq Pods

\* The pods bound to a node never ask together for more SLOs than it has (fit.go,
\* insufficient resources), but for pods that the snapshots do not count: through a restart,
\* the expiry of an assumed pod, a lost answer to a binding, or the deletion of the node it
\* is or was about to be assumed on.
NoOvercommit ==
    \A n \in Nodes :
        Requested({p \in Pods : Bound(p) /\ apiPod[p].node = n} \ lapsed) <= Capacity[n]

\* A pod is counted on the node that podStates tells, on no other, and on that one always
\* unless the node has been deleted meanwhile (addPod and removePod of cache.go change the two
\* maps together).
Accounted ==
    \A p \in Pods, n \in Nodes :
        /\ p \in nodes[n].pods => podStates[p].node = n
        /\ podStates[p].node = n /\ p \notin lapsed => p \in nodes[n].pods

\* While the handlers of bound pods know a pod, the cache has it as added, on the node it was
\* bound to: otherwise updatePod and removePod in cache.go end the process (klog.Fatalf,
\* "Schedulercache is corrupted and can badly affect scheduling decisions").
Confirmed ==
    \A p \in Pods : seenC[p] = "yes" => podStates[p] = [node |-> apiPod[p].node, st |-> "added"]

\* A pod is in one of activeQ, backoffQ and unschedulableQ at most: Update and Delete of
\* scheduling_queue.go stop at the first one that holds it.
OneQueue ==
    /\ activeQ \cap backoffQ = {} /\ activeQ \cap unschedulableQ = {}
    /\ backoffQ \cap unschedulableQ = {}

\* No wake-up is lost: a pod waits in unschedulableQ only while no node has room for it, unless
\* it is on its way to a node, a handler is about to move it, or it got there (by a stale list, a
\* failed binding) or was given room in a way that nothing announces (moveRequestCycle and
\* AddUnschedulableIfNotPresent).
Parked ==
    \A p \in unschedulableQ \ unwoken :
        Pending(p) /\ ~ IsAssumedPod(p) /\ cycle.pod # p
            /\ podStep = "none" /\ nodeStep = "none" => \A n \in NodeTree : ~ Fits(p, n, nodes[n])

\* A host is chosen from a snapshot that agrees with the cache at that moment on what nodes
\* there are, on what they offer and on the pods they hold (UpdateSnapshot), as long as no pod
\* is counted on a node that is gone.
SnapshotFresh ==
    [][cycle.pc = "schedule" /\ cycle'.pc = "assume" /\ NodeTree = Cached(nodes) =>
           /\ snapshot'.list = NodeTree
           /\ \A n \in NodeTree : snapshot'.map[n] = nodes[n]]_vars

-----------------------------------------------------------------------------
(* the ledger that the scheduler keeps *)

Ledger == INSTANCE SloLedger WITH
    claim <- [p \in Pods |-> podStates[p].node],
    placed <- [p \in Pods |-> apiPod[p].node],
    over <- {p \in Pods : apiPod[p].st = "gone"},
    excused <- lapsed

\* Cache, queue and goroutines together implement the ledger of SLOs: what assumes, confirms,
\* expires, forgets and removes pods in cache.go grants, keeps and drops claims as it promises.
KeepsLedger == Ledger!Spec

-----------------------------------------------------------------------------

\* There is room for p, as the API server knows it
Room(p) == \E n \in Nodes :
    apiNode[n] = "slo" /\ FitsAmong(p, {q \in Pods : Bound(q) /\ apiPod[q].node = n}, Capacity[n])

\* The node of p was deleted and has registered again: the item no longer counts p, and
\* expirePod, ForgetPod and RemovePod of cache.go fail to subtract it, every time.
Stranded(p) == podStates[p] # NoState /\ ~ Removable(podStates[p].node, p)

\* No pod is pending for ever while there is room for it (scheduleOne, its failure paths, and the
\* ways back to activeQ), but for one that is stranded: it counts as assumed and is skipped.
NotStarved == \A p \in Pods : []<>~ (Pending(p) /\ Room(p) /\ ~ Stranded(p))

\* A pod that is gone does not stay in the queue for ever, nor does it keep its room on a node,
\* whichever of its events and goroutines came late.
Forgotten ==
    \A p \in Pods : <>[](apiPod[p].st = "gone" =>
        p \notin Queued /\ \A n \in Nodes : p \notin nodes[n].pods)

\* cache.go says of what RemoveNode leaves behind in podStates and assumedPods: "These caches will
\* be eventually consistent as pod deletion events arrive."  They are not if the node comes back.
EventuallyConsistent ==
    \A p \in Pods : <>[](apiPod[p].st = "gone" /\ apiPod[p].node # NoNode => podStates[p] = NoState)

=============================================================================
