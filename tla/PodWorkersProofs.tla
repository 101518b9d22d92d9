-------------------------- MODULE PodWorkersProofs --------------------------
(***************************************************************************)
(* Proofs about PodWorkers, for any pods, killers and bounds: the state    *)
(* has its types, syncPod never runs twice at a time for a pod, no send    *)
(* under podLock blocks or panics, and no request to kill a pod is lost.   *)
(***************************************************************************)
EXTENDS PodWorkers, TLAPS

WorkerRec == [open : BOOLEAN, buf : Updates, cur : Updates,
              st : Busy \cup {"none", "wait", "done"}]

\* an update is in channel g of pod u, or its worker is at work
Active(u, g) == worker[u][g].buf # NoUpdate \/ worker[u][g].st \in Busy

\* the current channel of a pod, if it has one, is the last one made for it,
\* and the only one that is open
Channels ==
    \A u \in Uids :
        /\ podUpdates[u] \in {0, gens[u]}
        /\ \A g \in Gens : worker[u][g].open <=> podUpdates[u] = g

\* a channel with an update in it, or an open one, has a worker that waits or works
Workers ==
    \A u \in Uids, g \in Gens :
        /\ g > gens[u] <=> worker[u][g].st = "none"
        /\ worker[u][g].buf # NoUpdate => worker[u][g].st = "wait"
        /\ worker[u][g].open => worker[u][g].st \in Busy \cup {"wait"}

\* isWorking stands for the one channel or worker that has an update
OneActive ==
    \A u \in Uids :
        /\ \A g, h \in Gens : Active(u, g) /\ Active(u, h) => g = h
        /\ isWorking[u] <=> \E g \in Gens : Active(u, g)

\* an update is left undelivered only while the pod has a channel and is at work
Pending == \A u \in Uids : last[u] # NoUpdate => podUpdates[u] # 0 /\ isWorking[u]

IInv == TypeOK /\ Channels /\ Workers /\ OneActive /\ Pending /\ ~ fault

\* what IInv says of podWorkers
WInv ==
    /\ podUpdates \in [Uids -> 0 .. MaxGens] /\ gens \in [Uids -> 0 .. MaxGens]
    /\ worker \in [Uids -> [Gens -> WorkerRec]]
    /\ isWorking \in [Uids -> BOOLEAN] /\ last \in [Uids -> Updates]
    /\ Channels /\ Workers /\ OneActive /\ Pending /\ fault = FALSE

\* what it says of the sync loop and the killers
LInv ==
    /\ known \subseteq Uids /\ todo \subseteq known /\ queue \subseteq Uids
    /\ terminal \subseteq Uids
    /\ ver \in [Uids -> 0 .. MaxVer] /\ synced \in [Uids -> 0 .. MaxVer]
    /\ killer \in [Killers -> {"idle", "waiting", "answered", "timed_out"}]

-----------------------------------------------------------------------------
\* NoUpdate is an update, and not one that is sent.
LEMMA UpdateFacts ==
    /\ NoUpdate \in Updates
    /\ \A v \in 0 .. MaxVer : SyncOf(v) \in Updates /\ SyncOf(v) # NoUpdate
    /\ \A k \in Killers : KillBy(k) \in Updates /\ KillBy(k) # NoUpdate
  BY DEF Updates, NoUpdate, SyncOf, KillBy

\* The initial state.
LEMMA InitIInv == Init => IInv
  <1>. SUFFICES ASSUME Init PROVE IInv
    OBVIOUS
  <1>1. Unborn \in WorkerRec
    BY UpdateFacts DEF Unborn, WorkerRec
  <1>2. TypeOK
    <2>1. worker \in [Uids -> [Gens -> WorkerRec]]
      BY <1>1 DEF Init
    <2>2. last \in [Uids -> Updates]
      BY UpdateFacts DEF Init
    <2>3. 0 \in 0 .. MaxVer /\ 0 \in 0 .. MaxGens
      BY WorkersAssumption
    <2>4. /\ ver \in [Uids -> 0 .. MaxVer] /\ synced \in [Uids -> 0 .. MaxVer]
          /\ podUpdates \in [Uids -> 0 .. MaxGens] /\ gens \in [Uids -> 0 .. MaxGens]
          /\ isWorking \in [Uids -> BOOLEAN]
          /\ killer \in [Killers -> {"idle", "waiting", "answered", "timed_out"}]
          /\ known \subseteq Uids /\ queue \subseteq Uids /\ todo \subseteq known
          /\ terminal \subseteq Uids /\ fault \in BOOLEAN
      BY <2>3 DEF Init
    <2>. QED  BY <2>1, <2>2, <2>4 DEF TypeOK, WorkerRec
  <1>3. Channels /\ Workers /\ OneActive /\ Pending
    BY WorkersAssumption, UpdateFacts
    DEF Init, Channels, Workers, OneActive, Active, Pending, Unborn, Busy, Gens
  <1>. QED  BY <1>2, <1>3 DEF Init, IInv

(***************************************************************************)
(* A step of one worker that changes neither its channel's being open nor  *)
(* whether it has an update, and nothing else that IInv is about.          *)
(***************************************************************************)
LEMMA WorkerMoves ==
    ASSUME WInv, NEW u \in Uids, NEW g \in Gens, NEW r \in WorkerRec,
           worker' = [worker EXCEPT ![u][g] = r],
           r.open = worker[u][g].open,
           r.st \in Busy \cup {"wait"} \/ (r.st = "done" /\ ~ r.open),
           r.buf = NoUpdate,
           r.st \in Busy <=> Active(u, g),
           worker[u][g].st # "none",
           UNCHANGED <<podUpdates, gens, isWorking, last, fault>>
    PROVE  WInv'
  <1>1. worker \in [Uids -> [Gens -> WorkerRec]]
    BY DEF WInv
  <1>2. worker' \in [Uids -> [Gens -> WorkerRec]]
    BY <1>1
  <1>3. worker'[u][g] = r
    BY <1>1
  <1>4. \A v \in Uids, h \in Gens : v # u \/ h # g => worker'[v][h] = worker[v][h]
    BY <1>1
  <1>5. \A v \in Uids, h \in Gens : worker'[v][h].open = worker[v][h].open
    BY <1>3, <1>4
  <1>6. Channels'
    BY <1>5 DEF WInv, Channels
  <1>7. Workers'
    BY <1>3, <1>4 DEF WInv, Workers, Busy
  <1>8. \A v \in Uids, h \in Gens : Active(v, h)' <=> Active(v, h)
    BY <1>3, <1>4 DEF Active
  <1>9. OneActive'
    BY <1>8 DEF WInv, OneActive
  <1>. QED  BY <1>2, <1>6, <1>7, <1>9 DEF WInv, Pending

\* UpdatePod: the update is sent to an idle worker, or kept for a busy one.
LEMMA UpdatePodStep ==
    ASSUME WInv, NEW u \in Uids, NEW update \in Updates, update # NoUpdate,
           UpdatePod(u, update)
    PROVE  WInv'
  <1>. DEFINE exists == podUpdates[u] # 0
              g == IF exists THEN podUpdates[u] ELSE gens[u] + 1
              w == IF exists THEN worker ELSE [worker EXCEPT ![u][g] = Waiting]
  <1>1. /\ g \in Gens
        /\ podUpdates' = [podUpdates EXCEPT ![u] = g]
        /\ gens' = [gens EXCEPT ![u] = IF exists THEN @ ELSE g]
    BY DEF UpdatePod
  <1>2. \/ /\ ~ isWorking[u]
           /\ isWorking' = [isWorking EXCEPT ![u] = TRUE]
           /\ Send(w, u, g, update)
           /\ UNCHANGED last
        \/ /\ isWorking[u]
           /\ last' = [last EXCEPT ![u] = Undelivered(u, update)]
           /\ worker' = w
           /\ UNCHANGED <<isWorking, fault>>
    BY DEF UpdatePod
  <1>3. Waiting \in WorkerRec /\ Waiting.open /\ Waiting.buf = NoUpdate /\ Waiting.st = "wait"
    BY UpdateFacts DEF Waiting, Unborn, WorkerRec
  <1>4. gens[u] \in Nat /\ g \in 1 .. MaxGens /\ g # 0 /\ (exists => g = gens[u])
        /\ (~ exists => g = gens[u] + 1)
    BY <1>1, WorkersAssumption DEF Gens, WInv, Channels
  <1>5. w \in [Uids -> [Gens -> WorkerRec]]
    BY <1>1, <1>3 DEF WInv
  <1>6. \A v \in Uids, h \in Gens : v # u \/ h # g => w[v][h] = worker[v][h]
    BY <1>1 DEF WInv
  <1>7. w[u][g].open /\ w[u][g].st \in Busy \cup {"wait"}
        /\ (~ exists => w[u][g] = Waiting) /\ (exists => w[u][g] = worker[u][g])
    BY <1>1, <1>3 DEF WInv, Channels, Workers
  <1>8. \A v \in Uids, h \in Gens :
            (w[v][h].buf # NoUpdate <=> worker[v][h].buf # NoUpdate)
            /\ (w[v][h].st \in Busy <=> worker[v][h].st \in Busy)
    BY <1>1, <1>3, <1>4, <1>6, <1>7 DEF WInv, Workers, Busy
  <1>. HIDE DEF w, g, exists
  <1>9. podUpdates' \in [Uids -> 0 .. MaxGens] /\ gens' \in [Uids -> 0 .. MaxGens]
    BY <1>1, <1>4 DEF WInv
  <1>10. podUpdates'[u] = g /\ gens'[u] = g
         /\ \A v \in Uids : v # u => podUpdates'[v] = podUpdates[v] /\ gens'[v] = gens[v]
    BY <1>1, <1>4 DEF WInv
  <1>11. \A h \in Gens : h # g => ~ worker[u][h].open
    BY <1>4, WorkersAssumption DEF WInv, Channels, Gens, exists, g
  <1>12. \A h \in Gens : h > g <=> w[u][h].st = "none"
    BY <1>4, <1>6, <1>7, <1>1 DEF WInv, Workers, Gens, Busy, exists
  <1>13. CASE isWorking[u]
    <2>1. /\ worker' = w /\ isWorking' = isWorking /\ fault' = fault
          /\ last' = [last EXCEPT ![u] = Undelivered(u, update)]
      BY <1>2, <1>13
    <2>2. last' \in [Uids -> Updates]
      BY <2>1 DEF WInv, Undelivered
    <2>3. Channels'
      BY <2>1, <1>1, <1>6, <1>7, <1>10, <1>11 DEF Channels, WInv
    <2>4. Workers'
      BY <2>1, <1>1, <1>4, <1>6, <1>7, <1>8, <1>10, <1>12 DEF Workers, WInv
    <2>5. OneActive'
      BY <2>1, <1>8 DEF OneActive, Active, WInv
    <2>6. Pending'
      BY <2>1, <1>4, <1>10, <1>13 DEF Pending, WInv
    <2>. QED  BY <2>1, <2>2, <2>3, <2>4, <2>5, <2>6, <1>5, <1>9 DEF WInv
  <1>14. CASE ~ isWorking[u]
    <2>1. /\ isWorking' = [isWorking EXCEPT ![u] = TRUE] /\ last' = last
          /\ Send(w, u, g, update)
      BY <1>2, <1>14
    <2>2. \A h \in Gens : w[u][h].buf = NoUpdate /\ w[u][h].st \notin Busy
      BY <1>8, <1>14 DEF WInv, OneActive, Active
    <2>3. Sendable(w, u, g)
      BY <2>2, <1>1, <1>4, <1>7 DEF Sendable
    <2>4. worker' = [w EXCEPT ![u][g].buf = update] /\ fault' = fault
      BY <2>1, <2>3 DEF Send
    <2>. DEFINE r == [w[u][g] EXCEPT !.buf = update]
    <2>5. r \in WorkerRec /\ r.buf = update /\ r.open /\ r.st = "wait"
      BY <2>2, <1>5, <1>7, <1>1 DEF WorkerRec
    <2>. HIDE DEF r
    <2>6. worker' = [w EXCEPT ![u][g] = r]
      BY <2>4, <1>5, <1>1 DEF r
    <2>7. /\ worker' \in [Uids -> [Gens -> WorkerRec]]
          /\ worker'[u][g] = r
          /\ \A v \in Uids, h \in Gens : v # u \/ h # g => worker'[v][h] = w[v][h]
      BY <2>5, <2>6, <1>5, <1>1
    <2>8. Channels'
      <3>1. \A h \in Gens : worker'[u][h].open <=> podUpdates'[u] = h
        BY <2>5, <2>7, <1>1, <1>6, <1>10, <1>11
      <3>2. \A v \in Uids, h \in Gens :
                v # u => (worker'[v][h].open <=> podUpdates'[v] = h)
        BY <2>7, <1>6, <1>10 DEF Channels, WInv
      <3>. QED  BY <3>1, <3>2, <1>10 DEF Channels, WInv
    <2>9. Workers'
      <3>1. \A h \in Gens :
               /\ h > gens'[u] <=> worker'[u][h].st = "none"
               /\ worker'[u][h].buf # NoUpdate => worker'[u][h].st = "wait"
               /\ worker'[u][h].open => worker'[u][h].st \in Busy \cup {"wait"}
        <4>1. g > gens'[u] <=> worker'[u][g].st = "none"
          BY <2>5, <2>7, <1>4, <1>10
        <4>2. \A h \in Gens : h # g => (h > gens'[u] <=> worker'[u][h].st = "none")
          BY <2>7, <1>10, <1>12
        <4>. QED  BY <4>1, <4>2, <2>2, <2>5, <2>7, <1>6, <1>11
      <3>2. \A v \in Uids, h \in Gens : v # u =>
               /\ h > gens'[v] <=> worker'[v][h].st = "none"
               /\ worker'[v][h].buf # NoUpdate => worker'[v][h].st = "wait"
               /\ worker'[v][h].open => worker'[v][h].st \in Busy \cup {"wait"}
        BY <2>7, <1>6, <1>10 DEF Workers, WInv
      <3>. QED  BY <3>1, <3>2 DEF Workers
    <2>10. OneActive'
      <3>1. \A v \in Uids, h \in Gens : v # u => (Active(v, h)' <=> Active(v, h))
        BY <2>7, <1>8 DEF Active
      <3>2. \A h \in Gens : Active(u, h)' <=> h = g
        BY <2>2, <2>5, <2>7, <1>1 DEF Active
      <3>3. isWorking'[u] /\ \A v \in Uids : v # u => isWorking'[v] = isWorking[v]
        BY <2>1 DEF WInv
      <3>. QED  BY <3>1, <3>2, <3>3, <1>1 DEF OneActive, WInv
    <2>11. Pending'
      BY <2>1, <1>4, <1>10 DEF Pending, WInv
    <2>. QED  BY <2>1, <2>4, <2>7, <2>8, <2>9, <2>10, <2>11, <1>9 DEF WInv
  <1>. QED  BY <1>13, <1>14

\* removeWorker: the pod's channel is closed, its undelivered update dropped, and
\* isWorking left to the worker that may still be at work.
LEMMA RemoveWorkersStep ==
    ASSUME WInv, NEW R \in SUBSET Uids, RemoveWorkers(R)
    PROVE  WInv'
  <1>1. \A v \in Uids, h \in Gens :
            worker'[v][h] = IF v \in R /\ podUpdates[v] = h
                            THEN [worker[v][h] EXCEPT !.open = FALSE] ELSE worker[v][h]
    BY DEF RemoveWorkers
  <1>2. \A v \in Uids, h \in Gens : worker[v][h] \in WorkerRec
    BY DEF WInv
  <1>3. \A v \in Uids, h \in Gens :
            /\ worker'[v][h] \in WorkerRec
            /\ worker'[v][h].buf = worker[v][h].buf
            /\ worker'[v][h].st = worker[v][h].st
            /\ v \in R /\ podUpdates[v] = h => ~ worker'[v][h].open
            /\ ~ (v \in R /\ podUpdates[v] = h) => worker'[v][h] = worker[v][h]
    <2>1. SUFFICES ASSUME NEW v \in Uids, NEW h \in Gens
                   PROVE  /\ worker'[v][h] \in WorkerRec
                          /\ worker'[v][h].buf = worker[v][h].buf
                          /\ worker'[v][h].st = worker[v][h].st
                          /\ v \in R /\ podUpdates[v] = h => ~ worker'[v][h].open
                          /\ ~ (v \in R /\ podUpdates[v] = h) => worker'[v][h] = worker[v][h]
      OBVIOUS
    <2>. DEFINE closed == [worker[v][h] EXCEPT !.open = FALSE]
    <2>2. /\ closed \in WorkerRec /\ ~ closed.open
          /\ closed.buf = worker[v][h].buf /\ closed.st = worker[v][h].st
      BY <1>2 DEF WorkerRec
    <2>. HIDE DEF closed
    <2>3. worker'[v][h] = IF v \in R /\ podUpdates[v] = h THEN closed ELSE worker[v][h]
      BY <1>1 DEF closed
    <2>4. CASE v \in R /\ podUpdates[v] = h
      BY <2>2, <2>3, <2>4
    <2>5. CASE ~ (v \in R /\ podUpdates[v] = h)
      BY <2>3, <2>5, <1>2
    <2>. QED  BY <2>4, <2>5
  <1>4. worker' \in [Uids -> [Gens -> WorkerRec]]
    <2>1. \A v \in Uids : worker'[v] \in [Gens -> WorkerRec]
      BY <1>3 DEF RemoveWorkers
    <2>. QED  BY <2>1 DEF RemoveWorkers
  <1>5. /\ podUpdates' \in [Uids -> 0 .. MaxGens] /\ last' \in [Uids -> Updates]
        /\ gens' = gens /\ isWorking' = isWorking /\ fault' = fault
        /\ \A v \in Uids : podUpdates'[v] = IF v \in R THEN 0 ELSE podUpdates[v]
        /\ \A v \in Uids : last'[v] = IF v \in R /\ podUpdates[v] # 0 THEN NoUpdate ELSE last[v]
    BY WorkersAssumption, UpdateFacts DEF RemoveWorkers, WInv
  <1>6. Channels'
    <2>1. \A v \in R, h \in Gens : ~ worker'[v][h].open /\ podUpdates'[v] # h
      <3>1. \A v \in R, h \in Gens : podUpdates'[v] # h
        BY <1>5, WorkersAssumption DEF Gens
      <3>2. \A v \in R, h \in Gens : podUpdates[v] = h => ~ worker'[v][h].open
        BY <1>3
      <3>3. \A v \in R, h \in Gens :
                podUpdates[v] # h => worker'[v][h] = worker[v][h] /\ ~ worker[v][h].open
        BY <1>3 DEF Channels, WInv
      <3>. QED  BY <3>1, <3>2, <3>3
    <2>2. \A v \in Uids \ R, h \in Gens : worker'[v][h].open <=> podUpdates'[v] = h
      BY <1>3, <1>5 DEF Channels, WInv
    <2>. QED  BY <2>1, <2>2, <1>5 DEF Channels, WInv
  <1>7. Workers'
    <2>1. \A v \in Uids, h \in Gens : worker'[v][h].open => worker[v][h].open
      BY <1>3
    <2>. QED  BY <2>1, <1>3, <1>5 DEF Workers, WInv
  <1>8. OneActive'
    <2>1. \A v \in Uids, h \in Gens : Active(v, h)' <=> Active(v, h)
      BY <1>3 DEF Active
    <2>. QED  BY <2>1, <1>5 DEF OneActive, WInv
  <1>9. Pending'
    BY <1>5 DEF Pending, WInv
  <1>. QED  BY <1>4, <1>5, <1>6, <1>7, <1>8, <1>9 DEF WInv

\* checkForUpdates: what was left undelivered finds the pod's channel open and empty.
LEMMA CheckForUpdatesStep ==
    ASSUME WInv, NEW u \in Uids, NEW g \in Gens, checkForUpdates(u, g)
    PROVE  WInv'
  <1>. DEFINE r == [worker[u][g] EXCEPT !.st = "wait"]
              w == [worker EXCEPT ![u][g].st = "wait"]
  <1>1. worker[u][g].st = "check" /\ worker[u][g] \in WorkerRec
    BY DEF checkForUpdates, WInv
  <1>2. r \in WorkerRec /\ r.st = "wait" /\ r.open = worker[u][g].open
        /\ r.buf = worker[u][g].buf /\ (r.open <=> worker[u][g].open)
    BY <1>1 DEF WorkerRec
  <1>3. worker[u][g].buf = NoUpdate /\ worker[u][g].st \in Busy /\ Active(u, g)
    BY <1>1 DEF WInv, Workers, Active, Busy
  <1>4. isWorking[u] /\ \A h \in Gens : h # g => ~ Active(u, h)
    BY <1>3 DEF WInv, OneActive
  <1>. HIDE DEF r
  <1>5. /\ w \in [Uids -> [Gens -> WorkerRec]] /\ w[u][g] = r
        /\ \A v \in Uids, h \in Gens : v # u \/ h # g => w[v][h] = worker[v][h]
    BY <1>2 DEF WInv, r
  <1>6. \A h \in Gens : w[u][h].buf = NoUpdate /\ w[u][h].st \notin Busy
    BY <1>2, <1>3, <1>4, <1>5 DEF Active, Busy
  <1>7. \A v \in Uids, h \in Gens :
            /\ w[v][h].open <=> worker[v][h].open
            /\ w[v][h].buf = worker[v][h].buf
            /\ w[v][h].st = "none" <=> worker[v][h].st = "none"
            /\ worker[v][h].st \in Busy \cup {"wait"} => w[v][h].st \in Busy \cup {"wait"}
            /\ worker[v][h].st = "wait" => w[v][h].st = "wait"
    BY <1>1, <1>2, <1>5
  <1>T7. \A v \in Uids, h \in Gens :
            /\ h > gens[v] <=> w[v][h].st = "none"
            /\ w[v][h].buf # NoUpdate => w[v][h].st = "wait"
            /\ w[v][h].open => w[v][h].st \in Busy \cup {"wait"}
    <2>1. \A v \in Uids, h \in Gens :
            /\ h > gens[v] <=> worker[v][h].st = "none"
            /\ worker[v][h].buf # NoUpdate => worker[v][h].st = "wait"
            /\ worker[v][h].open => worker[v][h].st \in Busy \cup {"wait"}
      BY DEF Workers, WInv
    <2>2. \A v \in Uids, h \in Gens : h > gens[v] <=> w[v][h].st = "none"
      BY <2>1, <1>7
    <2>3. \A v \in Uids, h \in Gens : w[v][h].buf # NoUpdate => w[v][h].st = "wait"
      BY <2>1, <1>7
    <2>4. \A v \in Uids, h \in Gens : w[v][h].open => w[v][h].st \in Busy \cup {"wait"}
      BY <2>1, <1>7
    <2>. QED  BY <2>2, <2>3, <2>4
  <1>8. /\ last' = [last EXCEPT ![u] = NoUpdate]
        /\ podUpdates' = podUpdates /\ gens' = gens
    BY DEF checkForUpdates
  <1>9. last' \in [Uids -> Updates] /\ last'[u] = NoUpdate
        /\ \A v \in Uids : v # u => last'[v] = last[v]
    BY <1>8, UpdateFacts DEF WInv
  <1>10. \/ /\ last[u] # NoUpdate
            /\ Send(w, u, podUpdates[u], last[u])
            /\ UNCHANGED isWorking
         \/ /\ last[u] = NoUpdate
            /\ isWorking' = [isWorking EXCEPT ![u] = FALSE]
            /\ worker' = w
            /\ UNCHANGED fault
    BY DEF checkForUpdates
  <1>. HIDE DEF w
  <1>11. CASE last[u] = NoUpdate
    <2>1. /\ isWorking' = [isWorking EXCEPT ![u] = FALSE]
          /\ worker' = w /\ fault' = fault
      BY <1>10, <1>11
    <2>2. isWorking' \in [Uids -> BOOLEAN] /\ ~ isWorking'[u]
          /\ \A v \in Uids : v # u => isWorking'[v] = isWorking[v]
      BY <2>1 DEF WInv
    <2>3. Channels'
      BY <2>1, <1>7, <1>8 DEF Channels, WInv
    <2>T3. Workers'
      BY <2>1, <1>T7, <1>8 DEF Workers
    <2>4. OneActive'
      <3>1. \A h \in Gens : ~ Active(u, h)'
        BY <2>1, <1>6 DEF Active
      <3>2. \A v \in Uids, h \in Gens : v # u => (Active(v, h)' <=> Active(v, h))
        BY <2>1, <1>5 DEF Active
      <3>. QED  BY <3>1, <3>2, <2>2 DEF OneActive, WInv
    <2>5. Pending'
      BY <2>2, <1>8, <1>9 DEF Pending, WInv
    <2>. QED  BY <2>1, <2>2, <2>3, <2>T3, <2>4, <2>5, <1>5, <1>8, <1>9 DEF WInv
  <1>12. CASE last[u] # NoUpdate
    <2>. DEFINE h == podUpdates[u]
                q == [w[u][h] EXCEPT !.buf = last[u]]
    <2>1. Send(w, u, h, last[u]) /\ isWorking' = isWorking
      BY <1>10, <1>12
    <2>2. h # 0 /\ h \in Gens /\ worker[u][h].open
      <3>1. h # 0 /\ h \in 0 .. MaxGens
        BY <1>12 DEF Pending, WInv
      <3>. QED  BY <3>1, WorkersAssumption DEF Channels, WInv, Gens
    <2>3. w[u][h].open /\ w[u][h].st = "wait" /\ w[u][h] \in WorkerRec
      BY <2>2, <1>5, <1>6, <1>7 DEF Workers, WInv
    <2>4. Sendable(w, u, h)
      BY <2>2, <2>3, <1>6 DEF Sendable
    <2>5. worker' = [w EXCEPT ![u][h].buf = last[u]] /\ fault' = fault
      BY <2>1, <2>4 DEF Send
    <2>6. q \in WorkerRec /\ q.buf = last[u] /\ q.open = w[u][h].open /\ q.st = "wait"
      BY <2>3, UpdateFacts DEF WorkerRec, WInv
    <2>. HIDE DEF q
    <2>7. worker' = [w EXCEPT ![u][h] = q]
      BY <2>5, <2>2, <1>5 DEF q
    <2>8. /\ worker' \in [Uids -> [Gens -> WorkerRec]] /\ worker'[u][h] = q
          /\ \A v \in Uids, i \in Gens : v # u \/ i # h => worker'[v][i] = w[v][i]
      BY <2>6, <2>7, <2>2, <1>5
    <2>. HIDE DEF h
    <2>9. \A v \in Uids, i \in Gens :
             (worker'[v][i].open <=> worker[v][i].open) /\ worker'[v][i].st = w[v][i].st
      <3>1. q.open /\ worker[u][h].open /\ q.st = w[u][h].st
        BY <2>2, <2>3, <2>6 DEF h
      <3>. QED  BY <3>1, <2>8, <1>7
    <2>10. Channels'
      BY <2>9, <1>8 DEF Channels, WInv
    <2>11. Workers'
      <3>1. \A v \in Uids, i \in Gens :
               worker'[v][i].buf # NoUpdate => worker'[v][i].st = "wait"
        <4>1. \A v \in Uids, i \in Gens :
                 worker[v][i].buf # NoUpdate => worker[v][i].st = "wait"
          BY DEF Workers, WInv
        <4>. QED  BY <4>1, <2>6, <2>8, <1>7
      <3>2. \A v \in Uids, i \in Gens : i > gens'[v] <=> worker'[v][i].st = "none"
        BY <2>9, <1>T7, <1>8
      <3>3. \A v \in Uids, i \in Gens :
               worker'[v][i].open => worker'[v][i].st \in Busy \cup {"wait"}
        BY <2>9, <1>7, <1>T7
      <3>. QED  BY <3>1, <3>2, <3>3 DEF Workers
    <2>12. OneActive'
      <3>1. \A i \in Gens : Active(u, i)' <=> i = h
        BY <2>2, <2>6, <2>8, <1>6, <1>12 DEF Active, Busy
      <3>2. \A v \in Uids, i \in Gens : v # u => (Active(v, i)' <=> Active(v, i))
        BY <2>8, <1>5 DEF Active
      <3>. QED  BY <3>1, <3>2, <2>1, <2>2, <1>4 DEF OneActive, WInv
    <2>13. Pending'
      BY <2>1, <1>8, <1>9 DEF Pending, WInv
    <2>. QED  BY <2>1, <2>5, <2>8, <2>10, <2>11, <2>12, <2>13, <1>8, <1>9 DEF WInv
  <1>. QED  BY <1>11, <1>12

-----------------------------------------------------------------------------
\* IInv is the two together.
LEMMA IInvParts == IInv <=> WInv /\ LInv
  BY DEF IInv, WInv, LInv, TypeOK, WorkerRec

\* The version of an update is one a pod may have.
LEMMA UpdateVersion == \A x \in Updates : x.ver \in 0 .. MaxVer
  BY WorkersAssumption DEF Updates, NoUpdate, SyncOf, KillBy

\* A step of a worker.
LEMMA WorkerStepKeeps ==
    ASSUME WInv, LInv, NEW u \in Uids, NEW g \in Gens, WorkerStep(u, g)
    PROVE  WInv' /\ LInv'
  <1>. DEFINE p == worker[u][g]
  <1>1. p \in WorkerRec
    BY DEF WInv
  <1>2. (p.st \in Busy => p.buf = NoUpdate) /\ (p.open => p.st \in Busy \cup {"wait"})
    BY DEF WInv, Workers, Busy
  <1>3. CASE Receive(u, g)
    <2>. DEFINE r == [p EXCEPT !.st = "fetch", !.cur = p.buf, !.buf = NoUpdate]
    <2>1. worker' = [worker EXCEPT ![u][g] = r]
      BY <1>3 DEF Receive, WInv
    <2>2. p.st = "wait" /\ Active(u, g)
      BY <1>3 DEF Receive, Active
    <2>3. r \in WorkerRec /\ r.open = p.open /\ r.st = "fetch" /\ r.buf = NoUpdate
      BY <1>1, UpdateFacts DEF WorkerRec, Busy
    <2>. HIDE DEF r
    <2>4. WInv'
      BY <1>3, <2>1, <2>2, <2>3, WorkerMoves DEF Receive, Busy
    <2>. QED  BY <1>3, <2>4 DEF Receive, LInv
  <1>4. CASE syncPod(u, g)
    <2>. DEFINE r == [p EXCEPT !.st = "sync"]
    <2>1. worker' = [worker EXCEPT ![u][g] = r]
      BY <1>4 DEF syncPod, WInv
    <2>2. p.st = "fetch" /\ Active(u, g) /\ p.buf = NoUpdate
      BY <1>2, <1>4 DEF syncPod, Active, Busy
    <2>3. r \in WorkerRec /\ r.open = p.open /\ r.st = "sync" /\ r.buf = NoUpdate
      BY <1>1, <2>2 DEF WorkerRec, Busy
    <2>. HIDE DEF r
    <2>4. WInv'
      BY <1>4, <2>1, <2>2, <2>3, WorkerMoves DEF syncPod, Busy
    <2>5. p.cur.ver \in 0 .. MaxVer
      BY <1>1, UpdateVersion DEF WorkerRec
    <2>6. synced' \in [Uids -> 0 .. MaxVer]
      BY <1>4, <2>5 DEF syncPod, LInv
    <2>7. terminal' \subseteq Uids
      BY <1>4 DEF syncPod, LInv
    <2>. QED  BY <1>4, <2>4, <2>6, <2>7 DEF syncPod, LInv
  <1>5. CASE OnComplete(u, g)
    <2>. DEFINE r == [p EXCEPT !.st = "enqueue", !.cur = NoUpdate]
    <2>1. worker' = [worker EXCEPT ![u][g] = r]
      BY <1>5 DEF OnComplete, WInv
    <2>2. p.st \in Busy /\ Active(u, g) /\ p.buf = NoUpdate
      BY <1>2, <1>5 DEF OnComplete, Active, Busy
    <2>3. r \in WorkerRec /\ r.open = p.open /\ r.st = "enqueue" /\ r.buf = NoUpdate
      BY <1>1, <2>2, UpdateFacts DEF WorkerRec, Busy
    <2>. HIDE DEF r
    <2>4. WInv'
      <3>1. UNCHANGED <<podUpdates, gens, isWorking, last, fault>>
        BY <1>5 DEF OnComplete
      <3>2. p.st # "none" /\ (r.st \in Busy <=> Active(u, g))
        BY <2>2, <2>3 DEF Busy
      <3>3. r.st \in Busy \cup {"wait"}
        BY <2>3 DEF Busy
      <3>. QED  BY <3>1, <3>2, <3>3, <2>1, <2>3, WorkerMoves
    <2>5. killer' \in [Killers -> {"idle", "waiting", "answered", "timed_out"}]
      BY <1>5 DEF OnComplete, LInv
    <2>. QED  BY <1>5, <2>4, <2>5 DEF OnComplete, LInv
  <1>6. CASE wrapUp(u, g)
    <2>. DEFINE r == [p EXCEPT !.st = "check"]
    <2>1. worker' = [worker EXCEPT ![u][g] = r]
      BY <1>6 DEF wrapUp, WInv
    <2>2. p.st \in Busy /\ Active(u, g) /\ p.buf = NoUpdate
      BY <1>2, <1>6 DEF wrapUp, Active, Busy
    <2>3. r \in WorkerRec /\ r.open = p.open /\ r.st = "check" /\ r.buf = NoUpdate
      BY <1>1, <2>2 DEF WorkerRec, Busy
    <2>. HIDE DEF r
    <2>4. WInv'
      BY <1>6, <2>1, <2>2, <2>3, WorkerMoves DEF wrapUp, Busy
    <2>. QED  BY <1>6, <2>4 DEF wrapUp, LInv
  <1>7. CASE checkForUpdates(u, g)
    <2>1. WInv'
      BY <1>7, CheckForUpdatesStep
    <2>. QED  BY <1>7, <2>1 DEF checkForUpdates, LInv
  <1>8. CASE Exits(u, g)
    <2>. DEFINE r == [p EXCEPT !.st = "done"]
    <2>1. worker' = [worker EXCEPT ![u][g] = r]
      BY <1>8 DEF Exits, WInv
    <2>2. p.st = "wait" /\ ~ Active(u, g) /\ ~ p.open /\ p.buf = NoUpdate
      BY <1>8 DEF Exits, Active, Busy
    <2>3. r \in WorkerRec /\ r.open = p.open /\ r.st = "done" /\ r.buf = NoUpdate
      BY <1>1, <2>2 DEF WorkerRec
    <2>. HIDE DEF r
    <2>4. WInv'
      BY <1>8, <2>1, <2>2, <2>3, WorkerMoves DEF Exits, Busy
    <2>. QED  BY <1>8, <2>4 DEF Exits, LInv
  <1>. QED  BY <1>3, <1>4, <1>5, <1>6, <1>7, <1>8 DEF WorkerStep

\* Every step keeps IInv.
LEMMA StepIInv == IInv /\ [Next]_vars => IInv'
  <1>. SUFFICES ASSUME WInv, LInv, [Next]_vars PROVE WInv' /\ LInv'
    BY IInvParts, PTL
  <1>0. ASSUME UNCHANGED workers
        PROVE  WInv'
    BY <1>0 DEF workers, WInv, Channels, Workers, OneActive, Active, Pending
  <1>1. ASSUME NEW u \in Uids, NEW g \in Gens, WorkerStep(u, g)
        PROVE  WInv' /\ LInv'
    BY <1>1, WorkerStepKeeps
  <1>2. ASSUME NEW u \in Uids, HandlePodUpdates(u)
        PROVE  WInv' /\ LInv'
    <2>1. ver[u] \in 0 .. MaxVer /\ ver[u] + 1 \in 0 .. MaxVer
      BY <1>2, WorkersAssumption DEF HandlePodUpdates, LInv
    <2>2. UNCHANGED workers \/ UpdatePod(u, SyncOf(ver[u] + 1))
      BY <1>2 DEF HandlePodUpdates, dispatchWork
    <2>3. WInv'
      BY <1>0, <2>1, <2>2, UpdateFacts, UpdatePodStep
    <2>4. terminal' \subseteq Uids
      BY <1>2 DEF HandlePodUpdates, LInv
    <2>. QED  BY <1>2, <2>1, <2>3, <2>4 DEF HandlePodUpdates, LInv
  <1>3. ASSUME NEW u \in Uids, HandlePodRemoves(u)
        PROVE  WInv' /\ LInv'
    <2>1. RemoveWorkers({u}) \/ UNCHANGED workers
      BY <1>3 DEF HandlePodRemoves
    <2>2. WInv'
      BY <1>0, <2>1, RemoveWorkersStep
    <2>. QED  BY <1>3, <2>2 DEF HandlePodRemoves, LInv
  <1>4. ASSUME NEW u \in Uids, HandlePodSyncs(u)
        PROVE  WInv' /\ LInv'
    <2>1. ver[u] \in 0 .. MaxVer
      BY DEF LInv
    <2>2. UNCHANGED workers \/ UpdatePod(u, SyncOf(ver[u]))
      BY <1>4 DEF HandlePodSyncs, dispatchWork
    <2>3. WInv'
      BY <1>0, <2>1, <2>2, UpdateFacts, UpdatePodStep
    <2>. QED  BY <1>4, <2>3 DEF HandlePodSyncs, LInv
  <1>5. CASE HandlePodCleanups
    <2>1. WInv'
      BY <1>5, RemoveWorkersStep DEF HandlePodCleanups, LInv
    <2>. QED  BY <1>5, <2>1 DEF HandlePodCleanups, LInv
  <1>6. ASSUME NEW k \in Killers, NEW u \in Uids, killPodNow(k, u)
        PROVE  WInv' /\ LInv'
    <2>1. WInv'
      BY <1>6, UpdateFacts, UpdatePodStep DEF killPodNow
    <2>. QED  BY <1>6, <2>1 DEF killPodNow, LInv
  <1>8. ASSUME NEW ready \in SUBSET queue, GetWork(ready)
        PROVE  WInv' /\ LInv'
    BY <1>0, <1>8 DEF GetWork, LInv
  <1>9. ASSUME NEW k \in Killers, KillTimesOut(k)
        PROVE  WInv' /\ LInv'
    BY <1>0, <1>9 DEF KillTimesOut, LInv
  <1>10. CASE UNCHANGED vars
    BY <1>0, <1>10 DEF vars, LInv
  <1>. QED  BY <1>1, <1>2, <1>3, <1>4, <1>5, <1>6, <1>8, <1>9, <1>10 DEF Next, Idle

\* IInv holds in every state.
LEMMA WorkersInvariant == Spec => []IInv
  BY InitIInv, StepIInv, PTL DEF Spec

-----------------------------------------------------------------------------
\* Type correctness: whatever the pods, killers and bounds, every variable of
\* podWorkers, the work queue and the sync loop keeps its type.
THEOREM WorkersTypeCorrect == Spec => []TypeOK
  <1>1. IInv => TypeOK
    BY DEF IInv
  <1>. QED  BY <1>1, WorkersInvariant, PTL

\* managePodLoop never has two goroutines of one pod at work, also when the pod
\* is forgotten and comes back while its old goroutine is still in syncPod.
THEOREM WorkersOneSync == Spec => []OneSync
  <1>1. IInv => OneSync
    BY DEF IInv, OneActive, Active, OneSync
  <1>. QED  BY <1>1, WorkersInvariant, PTL

\* UpdatePod and checkForUpdates, which send while they hold podLock, always find
\* the channel open and empty: they neither hang nor panic.
THEOREM WorkersSendsSafe == Spec => []SendsSafe
  <1>1. IInv => SendsSafe
    BY DEF IInv, SendsSafe
  <1>. QED  BY <1>1, WorkersInvariant, PTL

\* isWorking is set exactly while an update is in a channel of the pod or a
\* goroutine of it is at work.
THEOREM WorkersWorkingExact == Spec => []WorkingExact
  <1>1. IInv => WorkingExact
    BY DEF IInv, OneActive, Active, WorkingExact
  <1>. QED  BY <1>1, WorkersInvariant, PTL

-----------------------------------------------------------------------------
(* Requests to kill *)

\* a worker that is not between Receive and the end of its sync has no update
CurInv ==
    \A u \in Uids, g \in Gens :
        worker[u][g].cur # NoUpdate => worker[u][g].st \in {"fetch", "sync"}

(***************************************************************************)
(* A step that only adds: no update in a channel is overwritten, no worker *)
(* loses the one it has, and what is undelivered stays if it is a request  *)
(* to kill.  No request goes away in it.                                   *)
(***************************************************************************)
OnlyAdds ==
    /\ \A u \in Uids, g \in Gens :
          /\ worker'[u][g].cur = worker[u][g].cur
          /\ worker[u][g].st \in {"fetch", "sync"} => worker'[u][g].st \in {"fetch", "sync"}
          /\ worker[u][g].buf # NoUpdate => worker'[u][g].buf = worker[u][g].buf
    /\ \A u \in Uids : last[u].kind = "kill" => last'[u] = last[u]

\* What OnlyAdds is for.
LEMMA OnlyAddsHolds ==
    ASSUME CurInv, OnlyAdds
    PROVE  CurInv' /\ \A k \in Killers : Held(k) => Held(k)'
  <1>1. CurInv'
    BY DEF CurInv, OnlyAdds
  <1>2. ASSUME NEW k \in Killers, Held(k)
        PROVE  Held(k)'
    <2>1. KillBy(k).kind = "kill" /\ KillBy(k) # NoUpdate
      BY UpdateFacts DEF KillBy
    <2>2. PICK u \in Uids : \/ last[u] = KillBy(k)
                            \/ \E g \in Gens : KillBy(k) \in {worker[u][g].buf, worker[u][g].cur}
      BY <1>2 DEF Held
    <2>3. CASE last[u] = KillBy(k)
      BY <2>1, <2>3 DEF OnlyAdds, Held
    <2>4. CASE \E g \in Gens : KillBy(k) \in {worker[u][g].buf, worker[u][g].cur}
      <3>1. PICK g \in Gens : KillBy(k) \in {worker[u][g].buf, worker[u][g].cur}
        BY <2>4
      <3>2. KillBy(k) \in {worker'[u][g].buf, worker'[u][g].cur}
        BY <2>1, <3>1 DEF OnlyAdds
      <3> QED
        BY <3>2 DEF Held
    <2> QED
      BY <2>2, <2>3, <2>4
  <1> QED
    BY <1>1, <1>2

\* UpdatePod displaces no request to kill.
LEMMA UpdatePodAdds ==
    ASSUME WInv, CurInv, NEW u \in Uids, NEW update \in Updates, UpdatePod(u, update)
    PROVE  OnlyAdds
  <1> DEFINE exists == podUpdates[u] # 0
             g == IF exists THEN podUpdates[u] ELSE gens[u] + 1
             w == IF exists THEN worker ELSE [worker EXCEPT ![u][g] = Waiting]
  <1>1. /\ g \in Gens
        /\ \/ worker' = w \/ Send(w, u, g, update)
        /\ last' = last \/ last' = [last EXCEPT ![u] = Undelivered(u, update)]
    BY DEF UpdatePod
  <1>2. \A v \in Uids : last[v].kind = "kill" => last'[v] = last[v]
    BY <1>1 DEF Undelivered, WInv
  <1>3. ~ exists => worker[u][g].st = "none" /\ worker[u][g].buf = NoUpdate
    <2>1. gens[u] \in Nat
      BY WorkersAssumption DEF WInv
    <2> QED
      BY <1>1, <2>1 DEF WInv, Workers
  <1>4. ~ exists => worker[u][g].cur = NoUpdate
    BY <1>1, <1>3 DEF CurInv
  <1>5. Waiting.buf = NoUpdate /\ Waiting.cur = NoUpdate
    BY DEF Waiting, Unborn
  <1>6. w \in [Uids -> [Gens -> WorkerRec]]
    <2>1. Waiting \in WorkerRec
      BY UpdateFacts DEF Waiting, Unborn, WorkerRec
    <2> QED
      BY <1>1, <2>1 DEF WInv
  <1>7. \A v \in Uids, h \in Gens :
            /\ w[v][h].buf = worker[v][h].buf /\ w[v][h].cur = worker[v][h].cur
            /\ worker[v][h].st \in {"fetch", "sync"} => w[v][h].st = worker[v][h].st
    <2>1. CASE exists
      BY <2>1
    <2>2. CASE ~ exists
      <3>1. \A v \in Uids, h \in Gens :
                w[v][h] = IF v = u /\ h = g THEN Waiting ELSE worker[v][h]
        BY <1>1, <2>2 DEF WInv
      <3> QED
        BY <1>3, <1>4, <1>5, <2>2, <3>1
    <2> QED
      BY <2>1, <2>2
  <1> HIDE DEF w, g, exists
  <1>8. CASE worker' = w
    BY <1>2, <1>7, <1>8 DEF OnlyAdds
  <1>9. CASE worker' = [w EXCEPT ![u][g].buf = update] /\ w[u][g].buf = NoUpdate
    <2>1. \A v \in Uids, h \in Gens :
              worker'[v][h] = IF v = u /\ h = g THEN [w[v][h] EXCEPT !.buf = update] ELSE w[v][h]
      BY <1>1, <1>6, <1>9
    <2>2. \A v \in Uids, h \in Gens : w[v][h] \in WorkerRec
      BY <1>6
    <2>3. \A v \in Uids, h \in Gens :
              /\ worker'[v][h].cur = w[v][h].cur /\ worker'[v][h].st = w[v][h].st
              /\ w[v][h].buf # NoUpdate => worker'[v][h].buf = w[v][h].buf
      BY <1>9, <2>1, <2>2 DEF WorkerRec
    <2> QED
      BY <1>2, <1>7, <2>3 DEF OnlyAdds
  <1> QED
    BY <1>1, <1>8, <1>9 DEF Send, Sendable

\* removeWorker takes an undelivered request only together with the pod's channel.
LEMMA RemoveWorkersHolds ==
    ASSUME WInv, CurInv, NEW R \in SUBSET Uids, RemoveWorkers(R)
    PROVE  /\ CurInv'
           /\ \/ \A k \in Killers : Held(k) => Held(k)'
              \/ \E u \in Uids : podUpdates[u] # 0 /\ podUpdates'[u] = 0
  <1>1. \A v \in Uids, h \in Gens :
            /\ worker'[v][h].buf = worker[v][h].buf /\ worker'[v][h].cur = worker[v][h].cur
            /\ worker'[v][h].st = worker[v][h].st
    <2>1. \A v \in Uids, h \in Gens :
              \/ worker'[v][h] = worker[v][h]
              \/ worker'[v][h] = [worker[v][h] EXCEPT !.open = FALSE]
      BY DEF RemoveWorkers
    <2>2. \A v \in Uids, h \in Gens : worker[v][h] \in WorkerRec
      BY DEF WInv
    <2>3. \A r \in WorkerRec : /\ [r EXCEPT !.open = FALSE].buf = r.buf
                              /\ [r EXCEPT !.open = FALSE].cur = r.cur
                              /\ [r EXCEPT !.open = FALSE].st = r.st
      BY DEF WorkerRec
    <2> QED
      BY <2>1, <2>2, <2>3
  <1>2. CurInv'
    BY <1>1 DEF CurInv
  <1>3. CASE \E u \in R : podUpdates[u] # 0
    <2>1. PICK u \in R : podUpdates[u] # 0
      BY <1>3
    <2>2. podUpdates'[u] = 0
      BY DEF RemoveWorkers
    <2> QED
      BY <1>2, <2>1, <2>2
  <1>4. CASE \A u \in R : podUpdates[u] = 0
    <2>1. \A u \in Uids : last'[u] = last[u]
      BY <1>4 DEF RemoveWorkers
    <2>2. OnlyAdds
      BY <1>1, <2>1 DEF OnlyAdds
    <2> QED
      BY <2>2, OnlyAddsHolds
  <1> QED
    BY <1>3, <1>4

\* checkForUpdates puts what was undelivered into the pod's channel, which is empty.
LEMMA CheckForUpdatesHolds ==
    ASSUME WInv, CurInv, fault' = FALSE, NEW u \in Uids, NEW g \in Gens, checkForUpdates(u, g)
    PROVE  CurInv' /\ \A k \in Killers : Held(k) => Held(k)'
  <1> DEFINE w == [worker EXCEPT ![u][g].st = "wait"]
             h == podUpdates[u]
  <1>1. /\ worker[u][g].st = "check"
        /\ last' = [last EXCEPT ![u] = NoUpdate]
        /\ \/ last[u] # NoUpdate /\ Send(w, u, h, last[u])
           \/ last[u] = NoUpdate /\ worker' = w
    BY DEF checkForUpdates
  <1>2. \A v \in Uids, i \in Gens :
            w[v][i] = IF v = u /\ i = g THEN [worker[v][i] EXCEPT !.st = "wait"] ELSE worker[v][i]
    BY DEF WInv
  <1>3. w \in [Uids -> [Gens -> WorkerRec]] /\ \A v \in Uids, i \in Gens : worker[v][i] \in WorkerRec
    <2>1. \A r \in WorkerRec : [r EXCEPT !.st = "wait"] \in WorkerRec
      BY DEF WorkerRec
    <2> QED
      BY <2>1 DEF WInv
  <1>4. \A v \in Uids, i \in Gens :
            /\ w[v][i].buf = worker[v][i].buf /\ w[v][i].cur = worker[v][i].cur
            /\ worker[v][i].st \in {"fetch", "sync"} => w[v][i].st = worker[v][i].st
    BY <1>1, <1>2, <1>3 DEF WorkerRec
  <1>5. \A v \in Uids : v # u => last'[v] = last[v]
    BY <1>1 DEF WInv
  <1> HIDE DEF w
  <1>6. CASE last[u] = NoUpdate /\ worker' = w
    <2>1. OnlyAdds
      BY <1>4, <1>5, <1>6 DEF OnlyAdds, NoUpdate
    <2> QED
      BY <2>1, OnlyAddsHolds
  <1>7. CASE last[u] # NoUpdate /\ Send(w, u, h, last[u])
    <2>1. h \in Gens /\ w[u][h].buf = NoUpdate /\ worker' = [w EXCEPT ![u][h].buf = last[u]]
      <3>1. h \in 0 .. MaxGens
        BY DEF WInv
      <3> QED
        BY <1>7, <3>1, WorkersAssumption DEF Send, Sendable, Gens
    <2>2. \A v \in Uids, i \in Gens :
              worker'[v][i] = IF v = u /\ i = h THEN [w[v][i] EXCEPT !.buf = last[u]] ELSE w[v][i]
      BY <1>3, <2>1
    <2>3. \A v \in Uids, i \in Gens : w[v][i] \in WorkerRec
      BY <1>3
    <2>4. /\ worker'[u][h].buf = last[u]
          /\ \A v \in Uids, i \in Gens :
                /\ worker'[v][i].cur = w[v][i].cur /\ worker'[v][i].st = w[v][i].st
                /\ w[v][i].buf # NoUpdate => worker'[v][i].buf = w[v][i].buf
      BY <2>1, <2>2, <2>3 DEF WorkerRec
    <2>5. CurInv'
      BY <1>4, <2>4 DEF CurInv
    <2>6. ASSUME NEW k \in Killers, Held(k)
          PROVE  Held(k)'
      <3>1. KillBy(k) # NoUpdate
        BY UpdateFacts
      <3>2. PICK v \in Uids : \/ last[v] = KillBy(k)
                              \/ \E i \in Gens : KillBy(k) \in {worker[v][i].buf, worker[v][i].cur}
        BY <2>6 DEF Held
      <3>3. CASE last[v] = KillBy(k) /\ v = u
        BY <2>1, <2>4, <3>3 DEF Held
      <3>4. CASE last[v] = KillBy(k) /\ v # u
        BY <1>5, <3>4 DEF Held
      <3>5. CASE \E i \in Gens : KillBy(k) \in {worker[v][i].buf, worker[v][i].cur}
        <4>1. PICK i \in Gens : KillBy(k) \in {worker[v][i].buf, worker[v][i].cur}
          BY <3>5
        <4>2. KillBy(k) \in {worker'[v][i].buf, worker'[v][i].cur}
          BY <1>4, <2>4, <3>1, <4>1
        <4> QED
          BY <4>2 DEF Held
      <3> QED
        BY <3>2, <3>3, <3>4, <3>5
    <2> QED
      BY <2>5, <2>6
  <1> QED
    BY <1>1, <1>6, <1>7

\* A request goes from the channel to the worker with Receive, and stays there.
LEMMA WorkerHolds ==
    ASSUME WInv, CurInv, fault' = FALSE, NEW u \in Uids, NEW g \in Gens, WorkerStep(u, g)
    PROVE  CurInv' /\ (OnComplete(u, g) \/ \A k \in Killers : Held(k) => Held(k)')
  <1> DEFINE p == worker[u][g]
  <1>1. p \in WorkerRec /\ \A v \in Uids, h \in Gens : worker[v][h] \in WorkerRec
    BY DEF WInv
  <1>2. CASE Receive(u, g)
    <2> DEFINE r == [p EXCEPT !.st = "fetch", !.cur = p.buf, !.buf = NoUpdate]
    <2>1. worker' = [worker EXCEPT ![u][g] = r] /\ last' = last
      BY <1>2 DEF Receive, WInv
    <2>2. p.cur = NoUpdate
      BY <1>2 DEF Receive, CurInv
    <2>3. r.cur = p.buf /\ r.st = "fetch" /\ r.buf = NoUpdate
      BY <1>1 DEF WorkerRec
    <2> HIDE DEF r
    <2>4. \A v \in Uids, h \in Gens :
              worker'[v][h] = IF v = u /\ h = g THEN r ELSE worker[v][h]
      BY <2>1 DEF WInv
    <2>5. CurInv'
      BY <2>3, <2>4 DEF CurInv
    <2>6. \A v \in Uids, h \in Gens, k \in Killers :
              KillBy(k) \in {worker[v][h].buf, worker[v][h].cur} =>
                  KillBy(k) \in {worker'[v][h].buf, worker'[v][h].cur}
      BY <2>2, <2>3, <2>4, UpdateFacts
    <2>7. \A k \in Killers : Held(k) => Held(k)'
      BY <2>1, <2>6 DEF Held
    <2> QED
      BY <2>5, <2>7
  <1>3. CASE OnComplete(u, g)
    <2> DEFINE r == [p EXCEPT !.st = "enqueue", !.cur = NoUpdate]
    <2>1. worker' = [worker EXCEPT ![u][g] = r]
      BY <1>3 DEF OnComplete, WInv
    <2>2. r.cur = NoUpdate
      BY <1>1 DEF WorkerRec
    <2> HIDE DEF r
    <2>3. \A v \in Uids, h \in Gens :
              worker'[v][h] = IF v = u /\ h = g THEN r ELSE worker[v][h]
      BY <2>1 DEF WInv
    <2> QED
      BY <1>3, <2>2, <2>3 DEF CurInv
  <1>4. ASSUME NEW s \in {"sync", "check", "done"}, p.st \in {"fetch", "enqueue", "wait"},
               p.st = "fetch" => s = "sync",
               worker' = [worker EXCEPT ![u][g].st = s], last' = last
        PROVE  OnlyAdds
    <2>1. \A v \in Uids, h \in Gens :
              worker'[v][h] = IF v = u /\ h = g THEN [p EXCEPT !.st = s] ELSE worker[v][h]
      BY <1>4 DEF WInv
    <2>2. \A v \in Uids, h \in Gens :
              /\ worker'[v][h].buf = worker[v][h].buf /\ worker'[v][h].cur = worker[v][h].cur
              /\ worker[v][h].st \in {"fetch", "sync"} => worker'[v][h].st \in {"fetch", "sync"}
      BY <1>1, <1>4, <2>1 DEF WorkerRec
    <2> QED
      BY <1>4, <2>2 DEF OnlyAdds
  <1>5. CASE syncPod(u, g)
    BY <1>4, <1>5, OnlyAddsHolds DEF syncPod
  <1>6. CASE wrapUp(u, g)
    BY <1>4, <1>6, OnlyAddsHolds DEF wrapUp
  <1>7. CASE Exits(u, g)
    BY <1>4, <1>7, OnlyAddsHolds DEF Exits
  <1>8. CASE checkForUpdates(u, g)
    BY <1>8, CheckForUpdatesHolds
  <1> QED
    BY <1>2, <1>3, <1>5, <1>6, <1>7, <1>8 DEF WorkerStep

\* Any step takes a request away only with an answer or with the pod's channel.
LEMMA StepHolds ==
    ASSUME WInv, LInv, CurInv, fault' = FALSE, [Next]_vars
    PROVE  /\ CurInv'
           /\ \A k \in Killers : Held(k) /\ ~ Held(k)' =>
                 \/ \E u \in Uids, g \in Gens : OnComplete(u, g)
                 \/ \E u \in Uids : podUpdates[u] # 0 /\ podUpdates'[u] = 0
  <1>1. CASE UNCHANGED workers
    BY <1>1, OnlyAddsHolds DEF workers, OnlyAdds
  <1>2. ASSUME NEW u \in Uids, NEW g \in Gens, WorkerStep(u, g)
        PROVE  CurInv' /\ (OnComplete(u, g) \/ \A k \in Killers : Held(k) => Held(k)')
    BY <1>2, WorkerHolds
  <1>3. ASSUME NEW u \in Uids, HandlePodUpdates(u)
        PROVE  UNCHANGED workers \/ OnlyAdds
    <2>1. ver[u] + 1 \in 0 .. MaxVer
      BY <1>3, WorkersAssumption DEF HandlePodUpdates, LInv
    <2> QED
      BY <1>3, <2>1, UpdateFacts, UpdatePodAdds DEF HandlePodUpdates, dispatchWork
  <1>4. ASSUME NEW u \in Uids, HandlePodSyncs(u)
        PROVE  UNCHANGED workers \/ OnlyAdds
    <2>1. ver[u] \in 0 .. MaxVer
      BY DEF LInv
    <2> QED
      BY <1>4, <2>1, UpdateFacts, UpdatePodAdds DEF HandlePodSyncs, dispatchWork
  <1>5. ASSUME NEW k \in Killers, NEW u \in Uids, killPodNow(k, u)
        PROVE  OnlyAdds
    BY <1>5, UpdateFacts, UpdatePodAdds DEF killPodNow
  <1>6. ASSUME NEW R \in SUBSET Uids, RemoveWorkers(R)
        PROVE  /\ CurInv'
               /\ \/ \A k \in Killers : Held(k) => Held(k)'
                  \/ \E u \in Uids : podUpdates[u] # 0 /\ podUpdates'[u] = 0
    BY <1>6, RemoveWorkersHolds
  <1>7. ASSUME NEW u \in Uids, HandlePodRemoves(u)
        PROVE  UNCHANGED workers \/ \E R \in SUBSET Uids : RemoveWorkers(R)
    BY <1>7 DEF HandlePodRemoves
  <1>8. HandlePodCleanups => \E R \in SUBSET Uids : RemoveWorkers(R)
    BY DEF HandlePodCleanups, LInv
  <1>9. ASSUME \/ UNCHANGED vars
               \/ \E ready \in SUBSET queue : GetWork(ready)
               \/ \E k \in Killers : KillTimesOut(k)
        PROVE  UNCHANGED workers
    BY <1>9 DEF vars, GetWork, KillTimesOut
  <1>10. CASE OnlyAdds
    BY <1>10, OnlyAddsHolds
  <1> QED
    BY <1>1, <1>2, <1>3, <1>4, <1>5, <1>6, <1>7, <1>8, <1>9, <1>10 DEF Next, Idle

(***************************************************************************)
(* A request to kill a pod goes away only when a worker has called its     *)
(* OnComplete or removeWorker has closed the pod's channel: neither an     *)
(* update of the pod nor another request displaces it, wherever it is on   *)
(* its way through lastUndeliveredWorkUpdate, the channel and the worker.  *)
(***************************************************************************)
THEOREM WorkersKillNotLost == Spec => KillNotLost
  <1>1. Init => CurInv
    BY DEF Init, CurInv, Unborn
  <1>2. IInv /\ IInv' /\ CurInv /\ [Next]_vars =>
            /\ CurInv'
            /\ [\A k \in Killers : Held(k) /\ ~ Held(k)' =>
                   \/ \E u \in Uids, g \in Gens : OnComplete(u, g)
                   \/ \E u \in Uids : podUpdates[u] # 0 /\ podUpdates'[u] = 0]_vars
    <2>1. IInv => WInv /\ LInv
      BY IInvParts
    <2>2. IInv' => fault' = FALSE
      BY DEF IInv, TypeOK
    <2> QED
      BY <2>1, <2>2, StepHolds
  <1> QED
    BY <1>1, <1>2, WorkersInvariant, PTL DEF Spec, KillNotLost

=============================================================================
