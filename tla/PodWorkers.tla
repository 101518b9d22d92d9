----------------------------- MODULE PodWorkers -----------------------------
(***************************************************************************)
(* The kubelet's pod workers (pod_workers.go, work_queue.go) and the part  *)
(* of its sync loop that drives them: one goroutine for every pod, fed     *)
(* through a channel of capacity one, calls syncPod.  NeconAgent rests on  *)
(* it: syncPod runs for several pods at a time, never twice for one.       *)
(*                                                                         *)
(* A pod that is forgotten and comes back under its uid (a static pod)     *)
(* gets a new channel and a new goroutine while the old one may still be   *)
(* at work; worker[u][g] is the g-th of pod u.  A step under podLock is    *)
(* one action.  Delays, backoffs and the causes of errors are left out:    *)
(* a queued uid may become ready at any time.  Of a pod's status only one  *)
(* thing is kept: whether it is terminal, so that dispatchWork passes no   *)
(* more work for the pod to its worker.                                    *)
(***************************************************************************)
EXTENDS Naturals, FiniteSets

CONSTANTS Uids,
          Killers,   \* callers of killPodNow, such as the eviction manager
          MaxVer,    \* bound: versions of a pod
          MaxGens    \* bound: workers of a pod; the last one is not forgotten

ASSUME WorkersAssumption == MaxVer \in Nat /\ MaxGens \in Nat

VARIABLES
    known,       \* pods in the pod manager
    ver,         \* the version of a pod's specification there
    terminal,    \* pods that podIsTerminated, going by the status manager
    podUpdates,  \* the current channel of a pod, 0 when there is none
    gens,        \* channels made for a pod so far
    worker,      \* every channel and the goroutine that reads it
    isWorking,   \* as in podWorkers
    last,        \* lastUndeliveredWorkUpdate
    queue,       \* workQueue
    todo,        \* pods the sync loop has taken from the queue
    killer,      \* callers of killPodNow
    fault,       \* a send met a channel that is closed, full or not there
    synced       \* history: the latest version a sync has begun with

workers == <<podUpdates, gens, worker, isWorking, last, fault>>
vars == <<known, ver, terminal, workers, queue, todo, killer, synced>>

Gens == 1 .. MaxGens
Busy == {"fetch", "sync", "enqueue", "check"}

NoKiller == "nobody"
NoUpdate == [kind |-> "none", ver |-> 0, killer |-> NoKiller]
SyncOf(v) == [kind |-> "sync", ver |-> v, killer |-> NoKiller]
KillBy(k) == [kind |-> "kill", ver |-> 0, killer |-> k]

Updates == {NoUpdate} \cup {SyncOf(v) : v \in 0 .. MaxVer} \cup {KillBy(k) : k \in Killers}

\* a worker not started yet, and one that waits at its empty channel
Unborn == [open |-> FALSE, buf |-> NoUpdate, st |-> "none", cur |-> NoUpdate]
Waiting == [Unborn EXCEPT !.open = TRUE, !.st = "wait"]

Init ==
    /\ known = {}
    /\ ver = [u \in Uids |-> 0]
    /\ terminal = {}
    /\ podUpdates = [u \in Uids |-> 0]
    /\ gens = [u \in Uids |-> 0]
    /\ worker = [u \in Uids |-> [g \in Gens |-> Unborn]]
    /\ isWorking = [u \in Uids |-> FALSE]
    /\ last = [u \in Uids |-> NoUpdate]
    /\ queue = {}
    /\ todo = {}
    /\ killer = [k \in Killers |-> "idle"]
    /\ fault = FALSE
    /\ synced = [u \in Uids |-> 0]

\* no goroutine hangs with podLock, or has panicked
Up == ~ fault

-----------------------------------------------------------------------------
(* podWorkers *)

\* a send on channel g of w goes through: it is open and empty
Sendable(w, u, g) == g # 0 /\ w[u][g].open /\ w[u][g].buf = NoUpdate

\* a pod's work update is put into its channel, or podLock is never released
Send(w, u, g, update) ==
    \/ /\ Sendable(w, u, g)
       /\ worker' = [w EXCEPT ![u][g].buf = update]
       /\ UNCHANGED fault
    \/ /\ ~ Sendable(w, u, g)
       /\ worker' = w
       /\ fault' = TRUE

\* mutant: the newest update wins
UndeliveredNewest(u, update) == update

\* nothing overwrites a request to kill
Undelivered(u, update) == IF last[u].kind = "kill" THEN last[u] ELSE update

UpdatePod(u, update) ==
    LET exists == podUpdates[u] # 0
        g == IF exists THEN podUpdates[u] ELSE gens[u] + 1
        w == IF exists THEN worker ELSE [worker EXCEPT ![u][g] = Waiting]
    IN  /\ g \in Gens
        /\ podUpdates' = [podUpdates EXCEPT ![u] = g]
        /\ gens' = [gens EXCEPT ![u] = IF exists THEN @ ELSE g]
        /\ \/ /\ ~ isWorking[u]
              /\ isWorking' = [isWorking EXCEPT ![u] = TRUE]
              /\ Send(w, u, g, update)
              /\ UNCHANGED last
           \/ /\ isWorking[u]
              /\ last' = [last EXCEPT ![u] = Undelivered(u, update)]
              /\ worker' = w
              /\ UNCHANGED <<isWorking, fault>>

\* mutant: isWorking is forgotten too
RemoveWorkersResets(S) ==
    /\ podUpdates' = [u \in Uids |-> IF u \in S THEN 0 ELSE podUpdates[u]]
    /\ worker' = [u \in Uids |-> [g \in Gens |->
                    IF u \in S /\ podUpdates[u] = g THEN [worker[u][g] EXCEPT !.open = FALSE]
                                                    ELSE worker[u][g]]]
    /\ last' = [u \in Uids |-> IF u \in S /\ podUpdates[u] # 0 THEN NoUpdate ELSE last[u]]
    /\ isWorking' = [u \in Uids |-> u \notin S /\ isWorking[u]]
    /\ UNCHANGED <<gens, fault>>

\* mutant: the undelivered update stays
RemoveWorkersKeepsLast(S) ==
    /\ podUpdates' = [u \in Uids |-> IF u \in S THEN 0 ELSE podUpdates[u]]
    /\ worker' = [u \in Uids |-> [g \in Gens |->
                    IF u \in S /\ podUpdates[u] = g THEN [worker[u][g] EXCEPT !.open = FALSE]
                                                    ELSE worker[u][g]]]
    /\ UNCHANGED <<last, gens, isWorking, fault>>

\* the bound MaxGens: these pods can come back
Forgettable(S) == \A u \in S : podUpdates[u] # 0 => gens[u] < MaxGens

\* removeWorker for every pod of S: the channel is closed and forgotten
RemoveWorkers(S) ==
    /\ podUpdates' = [u \in Uids |-> IF u \in S THEN 0 ELSE podUpdates[u]]
    /\ worker' = [u \in Uids |-> [g \in Gens |->
                    IF u \in S /\ podUpdates[u] = g THEN [worker[u][g] EXCEPT !.open = FALSE]
                                                    ELSE worker[u][g]]]
    /\ last' = [u \in Uids |-> IF u \in S /\ podUpdates[u] # 0 THEN NoUpdate ELSE last[u]]
    /\ UNCHANGED <<gens, isWorking, fault>>

\* the worker takes an update from its channel, closed or not ...
Receive(u, g) ==
    /\ Up /\ worker[u][g].st = "wait"
    /\ worker[u][g].buf # NoUpdate
    /\ worker' = [worker EXCEPT ![u][g].st = "fetch", ![u][g].cur = worker[u][g].buf,
                                ![u][g].buf = NoUpdate]
    /\ UNCHANGED <<known, ver, terminal, podUpdates, gens, isWorking, last, fault, queue, todo,
                   killer, synced>>

\* ... waits for a status newer than its last sync, and begins a sync: to kill the pod is
\* to set PodFailed first, otherwise the phase is worked out from the containers anew ...
syncPod(u, g) ==
    /\ Up /\ worker[u][g].st = "fetch"
    /\ worker' = [worker EXCEPT ![u][g].st = "sync"]
    /\ LET v == worker[u][g].cur.ver
       IN  synced' = [synced EXCEPT ![u] = IF v > @ THEN v ELSE @]
    /\ \/ terminal' = terminal \cup {u}
       \/ worker[u][g].cur.kind # "kill" /\ terminal' = terminal \ {u}
    /\ UNCHANGED <<known, ver, podUpdates, gens, isWorking, last, fault, queue, todo, killer>>

\* ... which ends, or GetNewerThan failed: the callback of the update is called
OnComplete(u, g) ==
    /\ Up /\ worker[u][g].st \in {"fetch", "sync"}
    /\ LET k == worker[u][g].cur.killer
       IN  killer' = [j \in Killers |-> IF j = k /\ killer[j] = "waiting" THEN "answered"
                                                                         ELSE killer[j]]
    /\ worker' = [worker EXCEPT ![u][g].st = "enqueue", ![u][g].cur = NoUpdate]
    /\ UNCHANGED <<known, ver, terminal, podUpdates, gens, isWorking, last, fault, queue, todo,
                   synced>>

\* mutant: nothing is queued
wrapUpForgets(u, g) ==
    /\ Up /\ worker[u][g].st = "enqueue"
    /\ worker' = [worker EXCEPT ![u][g].st = "check"]
    /\ UNCHANGED <<known, ver, terminal, podUpdates, gens, isWorking, last, fault, queue, todo,
                   killer, synced>>

\* wrapUp queues the pod for another sync ...
wrapUp(u, g) ==
    /\ Up /\ worker[u][g].st = "enqueue"
    /\ queue' = queue \cup {u}
    /\ worker' = [worker EXCEPT ![u][g].st = "check"]
    /\ UNCHANGED <<known, ver, terminal, podUpdates, gens, isWorking, last, fault, todo,
                   killer, synced>>

\* mutant: isWorking stays set
checkForUpdatesStaysWorking(u, g) ==
    /\ Up /\ worker[u][g].st = "check"
    /\ LET w == [worker EXCEPT ![u][g].st = "wait"]
       IN  \/ last[u] # NoUpdate /\ Send(w, u, podUpdates[u], last[u])
           \/ last[u] = NoUpdate /\ worker' = w /\ UNCHANGED fault
    /\ last' = [last EXCEPT ![u] = NoUpdate]
    /\ UNCHANGED <<known, ver, terminal, podUpdates, gens, isWorking, queue, todo, killer,
                   synced>>

\* ... and passes the undelivered update to the channel the pod has by now
checkForUpdates(u, g) ==
    /\ Up /\ worker[u][g].st = "check"
    /\ LET w == [worker EXCEPT ![u][g].st = "wait"]
       IN  \/ /\ last[u] # NoUpdate
              /\ Send(w, u, podUpdates[u], last[u])
              /\ UNCHANGED isWorking
           \/ /\ last[u] = NoUpdate
              /\ isWorking' = [isWorking EXCEPT ![u] = FALSE]
              /\ worker' = w
              /\ UNCHANGED fault
    /\ last' = [last EXCEPT ![u] = NoUpdate]
    /\ UNCHANGED <<known, ver, terminal, podUpdates, gens, queue, todo, killer, synced>>

\* the channel is closed and drained: managePodLoop returns
Exits(u, g) ==
    /\ Up /\ worker[u][g].st = "wait"
    /\ ~ worker[u][g].open
    /\ worker[u][g].buf = NoUpdate
    /\ worker' = [worker EXCEPT ![u][g].st = "done"]
    /\ UNCHANGED <<known, ver, terminal, podUpdates, gens, isWorking, last, fault, queue, todo,
                   killer, synced>>

-----------------------------------------------------------------------------
(* the sync loop, one goroutine: it does nothing else while todo is not empty *)

\* dispatchWork ignores remaining work for a pod that has ended
dispatchWork(u, update, ended) ==
    \/ u \in ended /\ UNCHANGED workers
    \/ u \notin ended /\ UpdatePod(u, update)

\* a pod is added, or changed; it may be rejected, or have ended with this version
HandlePodUpdates(u) ==
    /\ Up /\ todo = {}
    /\ ver[u] < MaxVer
    /\ known' = known \cup {u}
    /\ ver' = [ver EXCEPT ![u] = @ + 1]
    /\ \E ended \in {terminal, terminal \cup {u}} :
          /\ terminal' = ended
          /\ dispatchWork(u, SyncOf(ver[u] + 1), ended)
    /\ UNCHANGED <<queue, todo, killer, synced>>

\* the pod leaves the pod manager; ForgetWorker is skipped while sources are not ready
HandlePodRemoves(u) ==
    /\ Up /\ todo = {}
    /\ u \in known
    /\ known' = known \ {u}
    /\ \/ Forgettable({u}) /\ RemoveWorkers({u})
       \/ UNCHANGED workers
    /\ UNCHANGED <<ver, terminal, queue, todo, killer, synced>>

\* the workers of pods that are gone, or have ended, are forgotten; unless the containers
\* cannot be listed, the statuses of pods that are gone are, too
HandlePodCleanups ==
    /\ Up /\ todo = {}
    /\ LET undesired == (Uids \ known) \cup terminal
       IN  Forgettable(undesired) /\ RemoveWorkers(undesired)
    /\ terminal' \in {terminal \cap known, terminal}
    /\ UNCHANGED <<known, ver, queue, todo, killer, synced>>

\* mutant: uids of pods that are gone are kept
GetWorkAll(ready) ==
    /\ Up /\ todo = {}
    /\ ready # {}
    /\ queue' = queue \ ready
    /\ todo' = ready
    /\ UNCHANGED <<known, ver, terminal, workers, killer, synced>>

\* getPodsToSync takes the uids that are ready and keeps those of known pods
GetWork(ready) ==
    /\ Up /\ todo = {}
    /\ ready # {}
    /\ queue' = queue \ ready
    /\ todo' = ready \cap known
    /\ UNCHANGED <<known, ver, terminal, workers, killer, synced>>

\* HandlePodSyncs, for these pods or for one of which the PLEG has news
HandlePodSyncs(u) ==
    /\ Up
    /\ u \in todo \/ (todo = {} /\ u \in known)
    /\ todo' = todo \ {u}
    /\ dispatchWork(u, SyncOf(ver[u]), terminal)
    /\ UNCHANGED <<known, ver, terminal, queue, killer, synced>>

\* killPodNow asks for the pod to be killed and waits, but not for ever; its caller may
\* have listed the pods before this one ended or was removed
killPodNow(k, u) ==
    /\ Up /\ killer[k] = "idle"
    /\ ver[u] > 0
    /\ killer' = [killer EXCEPT ![k] = "waiting"]
    /\ UpdatePod(u, KillBy(k))
    /\ UNCHANGED <<known, ver, terminal, queue, todo, synced>>

KillTimesOut(k) ==
    /\ Up /\ killer[k] = "waiting"
    /\ killer' = [killer EXCEPT ![k] = "timed_out"]
    /\ UNCHANGED <<known, ver, terminal, workers, queue, todo, synced>>

WorkerStep(u, g) ==
    \/ Receive(u, g) \/ syncPod(u, g) \/ OnComplete(u, g)
    \/ wrapUp(u, g) \/ checkForUpdates(u, g) \/ Exits(u, g)

\* nothing is left to do, or the kubelet hangs
Idle == (fault \/ known = {}) /\ UNCHANGED vars

Next ==
    \/ \E u \in Uids, g \in Gens : WorkerStep(u, g)
    \/ \E u \in Uids : HandlePodUpdates(u) \/ HandlePodRemoves(u) \/ HandlePodSyncs(u)
    \/ HandlePodCleanups
    \/ \E ready \in SUBSET queue : GetWork(ready)
    \/ \E k \in Killers : KillTimesOut(k) \/ \E u \in Uids : killPodNow(k, u)
    \/ Idle

Spec == Init /\ [][Next]_vars

(***************************************************************************)
(* Goroutines run and the sync loop looks at the queue once a second.  The *)
(* pod cache comes up with a status again and again; nothing says that it  *)
(* does so every time, nor that pods are updated, removed or killed.       *)
(***************************************************************************)
Fairness ==
    /\ \A u \in Uids, g \in Gens : WF_vars(WorkerStep(u, g))
    /\ \A u \in Uids :
          /\ SF_vars(\E g \in Gens : worker[u][g].cur.kind = "sync" /\ syncPod(u, g))
          /\ WF_vars(\E ready \in SUBSET queue : u \in ready /\ GetWork(ready))
          /\ WF_vars(u \in todo /\ HandlePodSyncs(u))

FairSpec == Spec /\ Fairness

-----------------------------------------------------------------------------
\* Type invariant.
TypeOK ==
    /\ known \subseteq Uids
    /\ ver \in [Uids -> 0 .. MaxVer]
    /\ terminal \subseteq Uids
    /\ podUpdates \in [Uids -> 0 .. MaxGens]
    /\ gens \in [Uids -> 0 .. MaxGens]
    /\ worker \in [Uids -> [Gens -> [open : BOOLEAN, buf : Updates, cur : Updates,
                                     st : Busy \cup {"none", "wait", "done"}]]]
    /\ isWorking \in [Uids -> BOOLEAN]
    /\ last \in [Uids -> Updates]
    /\ queue \subseteq Uids
    /\ todo \subseteq known
    /\ killer \in [Killers -> {"idle", "waiting", "answered", "timed_out"}]
    /\ fault \in BOOLEAN
    /\ synced \in [Uids -> 0 .. MaxVer]

(***************************************************************************)
(* syncPod never runs twice at a time for a pod, not even when the pod is  *)
(* forgotten and comes back while its old worker is still in syncPod.      *)
(***************************************************************************)
OneSync ==
    \A u \in Uids, g, h \in Gens :
        worker[u][g].st \in Busy /\ worker[u][h].st \in Busy => g = h

(***************************************************************************)
(* UpdatePod: "it is guaranteed that in such case the channel is empty, so *)
(* buffer of size 1 is enough."  No send under podLock finds its channel   *)
(* full, closed or missing: it would keep podLock, or panic.               *)
(***************************************************************************)
SendsSafe == ~ fault

(***************************************************************************)
(* isWorking tells the truth, also across ForgetWorker, which leaves it    *)
(* alone: it is set exactly while an update is in a channel or a worker at *)
(* work.  Set wrongly, it would keep the pod from ever being synced again. *)
(***************************************************************************)
WorkingExact ==
    \A u \in Uids : isWorking[u] <=>
        \E g \in Gens : worker[u][g].buf # NoUpdate \/ worker[u][g].st \in Busy

\* the request of killer k is in a channel, with a worker, or undelivered
Held(k) ==
    \E u \in Uids :
        \/ last[u] = KillBy(k)
        \/ \E g \in Gens : KillBy(k) \in {worker[u][g].buf, worker[u][g].cur}

(***************************************************************************)
(* A request to kill a pod that was accepted goes away only when a worker  *)
(* has answered it or when the pod's worker is forgotten: updates of the   *)
(* pod and other requests do not displace it.                              *)
(***************************************************************************)
KillNotLost ==
    [][\A k \in Killers : Held(k) /\ ~ Held(k)' =>
          \/ \E u \in Uids, g \in Gens : OnComplete(u, g)
          \/ \E u \in Uids : podUpdates[u] # 0 /\ podUpdates'[u] = 0]_vars

(***************************************************************************)
(* Every version of a pod is synced or superseded by one that is, as long  *)
(* as the pod stays and does not end for good: an update that UpdatePod    *)
(* drops because a kill is pending, or that dispatchWork ignores because   *)
(* the status is terminal, comes back through the work queue if a later    *)
(* sync finds that the pod has not ended after all.                        *)
(***************************************************************************)
LatestSynced ==
    \A u \in Uids, v \in 1 .. MaxVer :
        u \in known /\ ver[u] = v
            ~> synced[u] >= v \/ u \notin known \/ [](u \in terminal)

=============================================================================
