-------------------------- MODULE SchedulingQueue ---------------------------
(***************************************************************************)
(* The priority queue of the scheduler (scheduling_queue.go) and the       *)
(* goroutines of MakeDefaultErrorFunc that bring failed pods back to it.   *)
(* Every operation holds the lock of the queue, so each is one action.     *)
(*                                                                         *)
(* The pods have one priority and the order of activeQ is not kept: any    *)
(* pod in it may be popped.  Of a pod's timestamp only whether its backoff *)
(* is over matters, which may be either.  schedulingCycle and              *)
(* moveRequestCycle only ever grow and are only compared with each other   *)
(* and with the cycle a failure was noticed in; so moved stands for        *)
(* moveRequestCycle = schedulingCycle, and every failed pod on its way     *)
(* back carries moveRequestCycle >= podSchedulingCycle.                    *)
(***************************************************************************)
EXTENDS SloDemand

VARIABLES
    activeQ, backoffQ, unschedulableQ,
    moved,
    retry       \* per pod, the goroutines of its failures: what each does next, and its comparison

queueVars == <<activeQ, backoffQ, unschedulableQ, moved, retry>>

\* a new queue, the pending pods added
RestartQueue(pending) ==
    /\ activeQ' = pending /\ backoffQ' = {} /\ unschedulableQ' = {}
    /\ moved' = FALSE
    /\ retry' = [p \in Pods |-> {}]

InitQueue ==
    /\ activeQ = {} /\ backoffQ = {} /\ unschedulableQ = {}
    /\ moved = FALSE
    /\ retry = [p \in Pods |-> {}]

Queued == activeQ \cup backoffQ \cup unschedulableQ

QueueTypeOK ==
    /\ Queued \subseteq Pods /\ moved \in BOOLEAN
    /\ retry \in [Pods -> SUBSET [step : {"get", "add"}, moved : BOOLEAN]]

-----------------------------------------------------------------------------

Add(p) ==
    /\ activeQ' = activeQ \cup {p}
    /\ backoffQ' = backoffQ \ {p}
    /\ unschedulableQ' = unschedulableQ \ {p}
    /\ UNCHANGED <<moved, retry>>

\* the next pod; a new scheduling cycle begins
Pop(p) ==
    /\ p \in activeQ
    /\ activeQ' = activeQ \ {p}
    /\ moved' = FALSE
    /\ UNCHANGED <<backoffQ, unschedulableQ, retry>>

\* changed: more than its status differs
Update(p, changed) ==
    IF p \in activeQ \/ (p \in unschedulableQ \ backoffQ /\ ~ changed)
    THEN UNCHANGED queueVars
    ELSE /\ activeQ' = activeQ \cup {p}
         /\ backoffQ' = backoffQ \ {p}
         /\ unschedulableQ' = IF p \in backoffQ THEN unschedulableQ ELSE unschedulableQ \ {p}
         /\ UNCHANGED <<moved, retry>>

Delete(p) ==
    /\ activeQ' = activeQ \ {p}
    /\ backoffQ' = IF p \in activeQ THEN backoffQ ELSE backoffQ \ {p}
    /\ unschedulableQ' = IF p \in activeQ THEN unschedulableQ ELSE unschedulableQ \ {p}
    /\ UNCHANGED <<moved, retry>>

\* mutant: the move request is not remembered
movePodsForgets(P) ==
    /\ \E B \in SUBSET P :
           /\ backoffQ' = backoffQ \cup B
           /\ activeQ' = activeQ \cup (P \ B)
    /\ unschedulableQ' = unschedulableQ \ P
    /\ UNCHANGED <<moved, retry>>

\* movePodsToActiveOrBackoffQueue: those that are backing off go to backoffQ
movePods(P) ==
    /\ \E B \in SUBSET P :
           /\ backoffQ' = backoffQ \cup B
           /\ activeQ' = activeQ \cup (P \ B)
    /\ unschedulableQ' = unschedulableQ \ P
    /\ moved' = TRUE
    /\ retry' = [p \in Pods |-> {[r EXCEPT !.moved = TRUE] : r \in retry[p]}]

MoveAllToActiveOrBackoffQueue == movePods(unschedulableQ)

\* AssignedPodAdded and AssignedPodUpdated, no pod having an affinity term
AssignedPod == movePods({})

flushBackoffQCompleted(p) ==
    /\ p \in backoffQ
    /\ backoffQ' = backoffQ \ {p}
    /\ activeQ' = activeQ \cup {p}
    /\ UNCHANGED <<unschedulableQ, moved, retry>>

\* mutant: the pods found are not moved
flushUnschedulableQLeftoverNone(p) == p \in unschedulableQ /\ movePods({})

\* p has been unschedulable for a minute
flushUnschedulableQLeftover(p) == p \in unschedulableQ /\ movePods({p})

-----------------------------------------------------------------------------
(* a failed pod on its way back *)

\* MakeDefaultErrorFunc reads the cycle; goroutines in the same state count as one
Failed(p) == [retry EXCEPT ![p] = @ \cup {[step |-> "get", moved |-> moved]}]

\* the goroutine asks the API server for the pod; pending: it is there and without a node
GetPod(p, pending) ==
    /\ \E r \in retry[p] :
           /\ r.step = "get"
           /\ retry' = [retry EXCEPT ![p] =
                  (@ \ {r}) \cup (IF pending THEN {[r EXCEPT !.step = "add"]} ELSE {})]
    /\ UNCHANGED <<activeQ, backoffQ, unschedulableQ, moved>>

\* mutant: a pod is parked though it is in activeQ again
AddUnschedulableTwice(p) ==
    /\ \E r \in retry[p] :
           /\ r.step = "add"
           /\ retry' = [retry EXCEPT ![p] = @ \ {r}]
           /\ backoffQ' = IF r.moved THEN backoffQ \cup {p} ELSE backoffQ
           /\ unschedulableQ' = IF r.moved THEN unschedulableQ ELSE unschedulableQ \cup {p}
    /\ UNCHANGED <<activeQ, moved>>

AddUnschedulableIfNotPresent(p) ==
    /\ \E r \in retry[p] :
           /\ r.step = "add"
           /\ retry' = [retry EXCEPT ![p] = @ \ {r}]
           /\ backoffQ' = IF p \notin Queued /\ r.moved THEN backoffQ \cup {p} ELSE backoffQ
           /\ unschedulableQ' = IF p \notin Queued /\ ~ r.moved
                                THEN unschedulableQ \cup {p} ELSE unschedulableQ
    /\ UNCHANGED <<activeQ, moved>>

=============================================================================
