-------------------------- MODULE NeconAgentProofs --------------------------
(***************************************************************************)
(* The promises of the kubelet's agent, for any pods, SLOs and events.     *)
(*                                                                         *)
(* A promise is conditional on what has not gone wrong (slips), and so is  *)
(* the invariant that keeps it.  Each says the same of the run so far:     *)
(* while none of the disturbances has happened, the pods take turns.       *)
(* Orderly: from SetNeconPod to ResetPod (or its deletion) a pod has       *)
(* necon.pod to itself.                                                    *)
(* Alone: from SetNeconPod to its container a pod is alone in creation.    *)
(* Then count and the kernel's next id can be compared, although two       *)
(* programs count: count may run ahead and is never behind, so that the    *)
(* vif it names is of the pod whose turn it is, or of none.                *)
(***************************************************************************)
EXTENDS NeconAgent, TLAPS

-----------------------------------------------------------------------------
(* The inductive invariant *)

\* a pod that has been counted (or is about to be) and waits for its SLO to be written
Held(p) ==
    /\ Counted(p)
    /\ \/ pc[p] \in {"count", "qos", "ensure", "slo", "write", "reset"}
       \/ p \in cgroup \ sandbox /\ pc[p] \notin {"killed", "gone"}

\* counted, and its vif is still to come
Awaits(p) ==
    /\ Counted(p)
    /\ \/ pc[p] \in {"qos", "ensure"}
       \/ p \in cgroup \ sandbox /\ pc[p] \notin {"killed", "gone"}

\* its creation is past SetNeconPod, and its container is still to come
Begun(p) ==
    /\ Counted(p) /\ p \notin running
    /\ \/ pc[p] \in {"count", "qos", "ensure"}
       \/ p \in cgroup /\ pc[p] \notin {"killed", "gone"}

\* where the worker of a pod is goes with what the pod has
Places ==
    \A p \in Pods :
        /\ pc[p] \in {"none", "count", "qos", "ensure"} => p \notin cgroup
        /\ pc[p] \in {"killed", "gone"} => p \notin sandbox
        /\ pc[p] \in {"slo", "write", "reset", "pid"} => p \in cgroup
        /\ pc[p] \in {"slo", "write", "reset", "pid"} =>
               p \in sandbox \/ "sandbox_dies" \in slips
        /\ p \in running => pc[p] = "idle"
        /\ pc[p] \in {"count", "pid"} => Counted(p)
        /\ pc[p] = "count" => reg[p] < MaxCount
        /\ Counted(p) /\ (pc[p] \in {"qos", "ensure"} \/ p \in cgroup) => MaxCount > 0

\* a vif is of a pod with a sandbox, and has an id the kernel has given
Owned ==
    \A i \in VifIds : vif[i].owner # NoPod => i < vifCnt /\ vif[i].owner \in sandbox

\* the vif of count, and any later one, is of p or of nobody
Ahead(p) == \A i \in VifIds : i >= necon.count => vif[i].owner \in {NoPod, p}

\* count is not behind the kernel, and ahead of it for a pod that awaits its vif
Counts ==
    /\ vifCnt <= necon.count + 1
    /\ \A p \in Pods : pc[p] = "count" => reg[p] = necon.count
    /\ \A p \in Pods : Awaits(p) => vifCnt <= necon.count

Orderly == slips \cap (Uncounted \cup {"overlap"}) = {}

\* the pods take turns between SetNeconPod and ResetPod; when a pod is deleted within its
\* turn, SetSLO for a pod of kube-system may end the turn, and hits no vif
Turns ==
    /\ \A p \in Pods : Held(p) => necon.pod = p
    /\ necon.pod # NoPod =>
           /\ Counted(necon.pod)
           /\ pc[necon.pod] \notin {"killed", "gone"} =>
                  \A p \in Pods \ {necon.pod} : pc[p] \notin {"write", "reset"}
           /\ pc[necon.pod] # "count" => Ahead(necon.pod)

OwnGoals ==
    \A i \in VifIds : vif[i].owner # NoPod =>
        vif[i].goal \in {0} \cup Strtol(GoalText(Slo[vif[i].owner]))

OrderlyInv == Orderly => Counts /\ Turns /\ OwnGoals

Exact == slips \cap (Uncounted \cup {"overlap", "recount", "hostnet", "aborted",
                                     "status_fails", "stray"}) = {}

\* the SLO of p is in force
InForce(p) == \E i \in VifIds : vif[i].owner = p /\ vif[i].goal = 125 * Slo[p]

\* count is the id of the vif of the pod whose turn it is
Aligned ==
    /\ necon.pod = NoPod => vifCnt = necon.count + 1
    /\ necon.pod # NoPod => pc[necon.pod] \notin {"killed", "gone"}
    /\ \A p \in Pods : Counted(p) =>
        /\ pc[p] \in {"count", "qos", "ensure"} \/ p \in cgroup => p \notin HostNetwork
        /\ pc[p] = "count" => vifCnt = necon.count + 1
        /\ Awaits(p) => vifCnt = necon.count
        /\ pc[p] \in {"slo", "write", "reset"} =>
               /\ vifCnt = necon.count + 1
               /\ necon.count \in VifIds /\ vif[necon.count].owner = p
        /\ p \in sandbox /\ pc[p] \in {"reset", "idle", "pid"} /\ Slo[p] % 1000 # 0 => InForce(p)

ExactInv == Exact => Aligned

Alone == slips \cap (Uncounted \cup {"crowded", "container_dies"}) = {}

\* one pod at a time is in creation
OneBegun ==
    /\ \A p, q \in Pods : Begun(p) /\ Begun(q) => p = q
    /\ \A p \in Pods : Begun(p) /\ p \in sandbox => Ahead(p)

OwnPids == \A i \in VifIds : vif[i].owner # NoPod => vif[i].pid \in {NoPod, vif[i].owner}

AloneInv == Alone => Counts /\ OneBegun /\ OwnPids

PathKept == slips \cap {"path", "container_dies", "sandbox_dies", "restart"} = {}

\* necon.path is that of the pod that waits for its container
PathOwn ==
    /\ \A p \in Pods : Counted(p) /\ p \in cgroup \ running /\ pc[p] \notin {"killed", "gone"}
                       => necon.path = p
    /\ \A p \in Pods : pc[p] = "pid" => reg[p] = 1
    /\ ~ fault

PathInv == PathKept => PathOwn

BaseInv == TypeOK /\ Places /\ Owned

IInv == BaseInv /\ OrderlyInv /\ ExactInv /\ AloneInv /\ PathInv

\* a step of the worker of p, or an accident of its pod
WorkerStep(p) ==
    \/ PodArrives(p) \/ SetNeconPod(p) \/ CountPod(p)
    \/ UpdateQOSCgroups(p) \/ EnsureExists(p)
    \/ CreatePodSandbox(p) \/ SandboxFails(p) \/ StatusFails(p)
    \/ SetSLO(p) \/ WriteSLO(p) \/ ResetPod(p)
    \/ StartContainer(p) \/ SetPID(p)
    \/ ContainerDies(p) \/ SandboxDies(p)
    \/ KillPod(p) \/ PodKilled(p) \/ ReduceCPULimits(p) \/ Destroy(p)

-----------------------------------------------------------------------------
(* The types *)

\* What Strtol makes of the text of an SLO is among the goals.
LEMMA GoalsFacts ==
    /\ 0 \in Goals
    /\ \A p \in Pods : Strtol(GoalText(Slo[p])) \subseteq Goals
  BY DEF Goals

Vifs == [VifIds -> [owner : Pods \cup {NoPod}, goal : Goals, pid : Pods \cup {NoPod}]]

\* A write of an SLO changes the goal of one vif and nothing else.
LEMMA GoalWritten ==
    ASSUME NEW v \in Vifs, NEW i \in VifIds, NEW g \in Goals
    PROVE  LET w == [v EXCEPT ![i].goal = g]
           IN  /\ w \in Vifs
               /\ w[i].goal = g
               /\ \A j \in VifIds : /\ w[j].owner = v[j].owner
                                    /\ w[j].pid = v[j].pid
                                    /\ j # i => w[j].goal = v[j].goal
  <1> DEFINE w == [v EXCEPT ![i].goal = g]
  <1>1. w = [j \in VifIds |-> IF j = i THEN [v[j] EXCEPT !.goal = g] ELSE v[j]]
    BY DEF Vifs
  <1>2. [v[i] EXCEPT !.goal = g] = [owner |-> v[i].owner, goal |-> g, pid |-> v[i].pid]
    BY DEF Vifs
  <1>3. w = [j \in VifIds |-> IF j = i THEN [owner |-> v[i].owner, goal |-> g, pid |-> v[i].pid]
                                      ELSE v[j]]
    BY <1>1, <1>2
  <1> QED
    BY <1>3 DEF Vifs

\* A write of a pid changes the pid of one vif and nothing else.
LEMMA PidWritten ==
    ASSUME NEW v \in Vifs, NEW i \in VifIds, NEW q \in Pods
    PROVE  LET w == [v EXCEPT ![i].pid = q]
           IN  /\ w \in Vifs
               /\ w[i].pid = q
               /\ \A j \in VifIds : /\ w[j].owner = v[j].owner
                                    /\ w[j].goal = v[j].goal
                                    /\ j # i => w[j].pid = v[j].pid
  <1> DEFINE w == [v EXCEPT ![i].pid = q]
  <1>1. w = [j \in VifIds |-> IF j = i THEN [v[j] EXCEPT !.pid = q] ELSE v[j]]
    BY DEF Vifs
  <1>2. [v[i] EXCEPT !.pid = q] = [owner |-> v[i].owner, goal |-> v[i].goal, pid |-> q]
    BY DEF Vifs
  <1>3. w = [j \in VifIds |-> IF j = i THEN [owner |-> v[i].owner, goal |-> v[i].goal, pid |-> q]
                                      ELSE v[j]]
    BY <1>1, <1>2
  <1> QED
    BY <1>3 DEF Vifs

\* A new vif has its owner, no goal and no pid; the others stay.
LEMMA VifPlugged ==
    ASSUME NEW v \in Vifs, NEW i \in VifIds, NEW p \in Pods
    PROVE  LET w == [v EXCEPT ![i] = [NoVif EXCEPT !.owner = p]]
           IN  /\ w \in Vifs
               /\ w[i] = [owner |-> p, goal |-> 0, pid |-> NoPod]
               /\ \A j \in VifIds : j # i => w[j] = v[j]
  <1>1. [NoVif EXCEPT !.owner = p] = [owner |-> p, goal |-> 0, pid |-> NoPod]
    BY DEF NoVif
  <1> QED
    BY <1>1, GoalsFacts DEF Vifs

\* A restart of the kubelet keeps the types.
LEMMA RestartType ==
    ASSUME TypeOK, Restarted
    PROVE  TypeOK'
  <1>1. pc' \in [Pods -> {"none", "idle", "gone"}]
    BY DEF TypeOK, Restarted
  <1>2. necon' \in [pod : Pods \cup {NoPod}, path : Pods \cup {QosPath}, count : 0 .. MaxCount]
    BY AgentAssumption DEF Restarted, NoNecon
  <1> QED
    BY <1>1, <1>2, AgentAssumption DEF TypeOK, Restarted, kernel, podState

\* Every step of a pod worker keeps the types.
LEMMA WorkerType ==
    ASSUME TypeOK, Places, NEW p \in Pods, WorkerStep(p)
    PROVE  TypeOK'
  <1> USE AgentAssumption DEF TypeOK, kernel, podState, Goto, Slip, Uncounted
  <1>1. CASE PodArrives(p)
    BY <1>1 DEF PodArrives
  <1>2. CASE SetNeconPod(p)
    BY <1>2 DEF SetNeconPod
  <1>3. CASE CountPod(p)
    BY <1>3 DEF CountPod, Places
  <1>4. CASE UpdateQOSCgroups(p)
    BY <1>4 DEF UpdateQOSCgroups, QosUpdated, SetCgroupPath
  <1>5. CASE EnsureExists(p)
    BY <1>5 DEF EnsureExists, SetCgroupPath
  <1>6. CASE CreatePodSandbox(p)
    <2>1. vif \in Vifs
      BY DEF Vifs
    <2>2. vif' \in Vifs
      <3>1. CASE UNCHANGED vif
        BY <2>1, <3>1
      <3>2. CASE /\ vifCnt \in VifIds
                 /\ vif' = [vif EXCEPT ![vifCnt] = [NoVif EXCEPT !.owner = p]]
        BY <2>1, <3>2, VifPlugged
      <3> QED
        BY <1>6, <3>1, <3>2 DEF CreatePodSandbox, VifIds
    <2>3. vifCnt' \in 1 .. MaxVifs + 1
      BY <1>6 DEF CreatePodSandbox
    <2> QED
      BY <1>6, <2>2, <2>3 DEF CreatePodSandbox, Vifs
  <1>7. CASE SandboxFails(p)
    BY <1>7 DEF SandboxFails
  <1>8. CASE StatusFails(p)
    BY <1>8 DEF StatusFails
  <1>9. CASE SetSLO(p)
    BY <1>9 DEF SetSLO
  <1>10. CASE WriteSLO(p)
    BY <1>10, RestartType, GoalsFacts DEF WriteSLO
  <1>11. CASE ResetPod(p)
    BY <1>11 DEF ResetPod
  <1>12. CASE StartContainer(p)
    <2>1. Counted(p) => MaxCount > 0
      BY <1>12 DEF StartContainer, Places
    <2>2. reg' \in [Pods -> 0 .. MaxCount]
      BY <1>12, <2>1 DEF StartContainer
    <2> QED
      BY <1>12, <2>2 DEF StartContainer
  <1>13. CASE SetPID(p)
    <2>1. vif' \in Vifs
      <3>1. CASE UNCHANGED vif
        BY <3>1 DEF Vifs
      <3>2. CASE necon.count \in VifIds /\ vif' = [vif EXCEPT ![necon.count].pid = p]
        <4>1. vif \in Vifs
          BY DEF Vifs
        <4> QED
          BY <3>2, <4>1, PidWritten
      <3> QED
        BY <1>13, <3>1, <3>2 DEF SetPID
    <2>2. fault' \in BOOLEAN
      BY <1>13 DEF SetPID
    <2>3. reg' \in [Pods -> 0 .. MaxCount]
      BY <1>13 DEF SetPID
    <2>4. running' \subseteq sandbox
      BY <1>13 DEF SetPID
    <2>5. pc' \in [Pods -> {"none", "idle", "count", "qos", "ensure", "slo", "write", "reset",
                           "pid", "killed", "gone"}]
      BY <1>13 DEF SetPID
    <2> QED
      BY <1>13, <2>1, <2>2, <2>3, <2>4, <2>5 DEF SetPID, Vifs
  <1>14. CASE ContainerDies(p)
    BY <1>14 DEF ContainerDies
  <1>15. CASE SandboxDies(p)
    BY <1>15, GoalsFacts DEF SandboxDies, Unplugged, NoVif
  <1>16. CASE KillPod(p)
    BY <1>16, GoalsFacts DEF KillPod, Unplugged, NoVif
  <1>17. CASE PodKilled(p)
    BY <1>17 DEF PodKilled, QosUpdated, SetCgroupPath
  <1>18. CASE ReduceCPULimits(p)
    BY <1>18 DEF ReduceCPULimits, SetCgroupPath
  <1>19. CASE Destroy(p)
    BY <1>19 DEF Destroy, Places
  <1> QED
    BY <1>1, <1>2, <1>3, <1>4, <1>5, <1>6, <1>7, <1>8, <1>9, <1>10, <1>11, <1>12, <1>13,
       <1>14, <1>15, <1>16, <1>17, <1>18, <1>19 DEF WorkerStep

-----------------------------------------------------------------------------
(* What the steps do to the vifs *)

\* A sandbox on the host's network changes no vif; any other brings the kernel's next one.
LEMMA CreateFacts ==
    ASSUME TypeOK, NEW p \in Pods, CreatePodSandbox(p)
    PROVE  \/ p \in HostNetwork /\ UNCHANGED <<vifCnt, vif, slips>>
           \/ /\ p \notin HostNetwork
              /\ vifCnt \in VifIds /\ vifCnt' = vifCnt + 1
              /\ vif'[vifCnt] = [owner |-> p, goal |-> 0, pid |-> NoPod]
              /\ \A i \in VifIds : i # vifCnt => vif'[i] = vif[i]
              /\ slips \subseteq slips'
              /\ Taken(p) => "overlap" \in slips'
              /\ ~ Counted(p) => "sysnet" \in slips'
  <1>1. CASE p \in HostNetwork
    BY <1>1 DEF CreatePodSandbox
  <1>2. CASE p \notin HostNetwork
    <2>1. vif \in Vifs /\ vifCnt \in VifIds
      BY <1>2 DEF CreatePodSandbox, TypeOK, Vifs, VifIds
    <2>2. vif' = [vif EXCEPT ![vifCnt] = [NoVif EXCEPT !.owner = p]]
      BY <1>2 DEF CreatePodSandbox
    <2>3. /\ vif'[vifCnt] = [owner |-> p, goal |-> 0, pid |-> NoPod]
          /\ \A i \in VifIds : i # vifCnt => vif'[i] = vif[i]
      BY <2>1, <2>2, VifPlugged
    <2> QED
      BY <1>2, <2>1, <2>3 DEF CreatePodSandbox, Slip
  <1> QED
    BY <1>1, <1>2

\* SetSLO writes the SLO of necon.pod to the vif of count, when there is one.
LEMMA WriteFacts ==
    ASSUME TypeOK, NEW p \in Pods, WriteSLO(p), ~ Restarted
    PROVE  /\ necon.pod \in Pods
           /\ pc[p] = "write" /\ pc' = [pc EXCEPT ![p] = "reset"]
           /\ UNCHANGED <<necon, vifCnt, fault, reg, podState>>
           /\ \A i \in VifIds :
                  /\ vif'[i].owner = vif[i].owner /\ vif'[i].pid = vif[i].pid
                  /\ i # necon.count \/ vif[i].owner = NoPod => vif'[i].goal = vif[i].goal
                  /\ i = necon.count /\ vif[i].owner # NoPod =>
                         /\ vif'[i].goal \in Strtol(GoalText(Slo[necon.pod]))
                         /\ vif'[i].goal = GoalText(Slo[necon.pod]) \/ "stray" \in slips'
  <1>1. /\ necon.pod \in Pods
        /\ pc[p] = "write" /\ pc' = [pc EXCEPT ![p] = "reset"]
        /\ UNCHANGED <<necon, vifCnt, fault, reg, podState>>
    BY DEF WriteSLO, TypeOK, Goto
  <1>2. CASE necon.count \in VifIds /\ vif[necon.count].owner # NoPod
    <2>1. PICK g \in Strtol(GoalText(Slo[necon.pod])) :
              /\ vif' = [vif EXCEPT ![necon.count].goal = g]
              /\ g = GoalText(Slo[necon.pod]) \/ "stray" \in slips'
      BY <1>2 DEF WriteSLO, Slip
    <2>2. vif \in Vifs /\ g \in Goals
      BY <1>1, GoalsFacts DEF TypeOK, Vifs
    <2>3. /\ vif'[necon.count].goal = g
          /\ \A j \in VifIds : /\ vif'[j].owner = vif[j].owner
                               /\ vif'[j].pid = vif[j].pid
                               /\ j # necon.count => vif'[j].goal = vif[j].goal
      BY <1>2, <2>1, <2>2, GoalWritten
    <2> QED
      BY <1>1, <1>2, <2>1, <2>3
  <1>3. CASE ~ (necon.count \in VifIds /\ vif[necon.count].owner # NoPod)
    <2>1. UNCHANGED vif
      BY <1>3 DEF WriteSLO
    <2> QED
      BY <1>1, <1>3, <2>1
  <1> QED
    BY <1>2, <1>3

\* SetPID writes what it read to the vif of count, when there is one.
LEMMA SetPIDFacts ==
    ASSUME TypeOK, NEW p \in Pods, SetPID(p)
    PROVE  \A i \in VifIds :
               /\ vif'[i].owner = vif[i].owner /\ vif'[i].goal = vif[i].goal
               /\ i # necon.count => vif'[i].pid = vif[i].pid
               /\ i = necon.count => vif'[i].pid \in {vif[i].pid, p}
  <1>1. CASE UNCHANGED vif
    BY <1>1
  <1>2. CASE necon.count \in VifIds /\ vif' = [vif EXCEPT ![necon.count].pid = p]
    <2>1. vif \in Vifs
      BY DEF TypeOK, Vifs
    <2> QED
      BY <1>2, <2>1, PidWritten
  <1> QED
    BY <1>1, <1>2 DEF SetPID

\* The vifs of a pod go with its port, and no other does.
LEMMA UnpluggedFacts ==
    ASSUME NEW p \in Pods, vif' = Unplugged(p)
    PROVE  \A i \in VifIds : /\ vif[i].owner = p => vif'[i].owner = NoPod
                             /\ vif[i].owner # p => vif'[i] = vif[i]
  BY DEF Unplugged, NoVif

-----------------------------------------------------------------------------
(* Where the workers are, and whose the vifs are *)

\* A restart of the kubelet leaves no worker within a sync.
LEMMA RestartPlaces ==
    ASSUME TypeOK, Places, Restarted
    PROVE  Places'
  <1>1. /\ \A p \in Pods : pc'[p] = IF pc[p] \in {"none", "gone"} THEN pc[p] ELSE "idle"
        /\ UNCHANGED <<cgroup, sandbox, running>>
    BY DEF Restarted, podState
  <1> QED
    BY <1>1 DEF Places, Counted

\* Every step of a pod worker leaves it at a place that fits what its pod has.
LEMMA WorkerPlaces ==
    ASSUME TypeOK, Places, NEW p \in Pods, WorkerStep(p)
    PROVE  Places'
  <1> USE AgentAssumption DEF Places, TypeOK, podState, Goto, Slip, Counted
  <1>1. CASE PodArrives(p)
    BY <1>1 DEF PodArrives
  <1>2. CASE SetNeconPod(p)
    BY <1>2 DEF SetNeconPod
  <1>3. CASE CountPod(p)
    BY <1>3 DEF CountPod
  <1>4. CASE UpdateQOSCgroups(p)
    BY <1>4 DEF UpdateQOSCgroups, QosUpdated, SetCgroupPath
  <1>5. CASE EnsureExists(p)
    BY <1>5 DEF EnsureExists, SetCgroupPath
  <1>6. CASE CreatePodSandbox(p)
    BY <1>6 DEF CreatePodSandbox
  <1>7. CASE SandboxFails(p)
    BY <1>7 DEF SandboxFails
  <1>8. CASE StatusFails(p)
    BY <1>8 DEF StatusFails
  <1>9. CASE SetSLO(p)
    BY <1>9 DEF SetSLO
  <1>10. CASE WriteSLO(p)
    BY <1>10, RestartPlaces DEF WriteSLO
  <1>11. CASE ResetPod(p)
    BY <1>11 DEF ResetPod
  <1>12. CASE StartContainer(p)
    BY <1>12 DEF StartContainer
  <1>13. CASE SetPID(p)
    BY <1>13 DEF SetPID
  <1>14. CASE ContainerDies(p)
    BY <1>14 DEF ContainerDies
  <1>15. CASE SandboxDies(p)
    BY <1>15 DEF SandboxDies
  <1>16. CASE KillPod(p)
    BY <1>16 DEF KillPod
  <1>17. CASE PodKilled(p)
    BY <1>17 DEF PodKilled, QosUpdated, SetCgroupPath
  <1>18. CASE ReduceCPULimits(p)
    BY <1>18 DEF ReduceCPULimits, SetCgroupPath
  <1>19. CASE Destroy(p)
    BY <1>19 DEF Destroy
  <1> QED
    BY <1>1, <1>2, <1>3, <1>4, <1>5, <1>6, <1>7, <1>8, <1>9, <1>10, <1>11, <1>12, <1>13,
       <1>14, <1>15, <1>16, <1>17, <1>18, <1>19 DEF WorkerStep

\* Every step of a pod worker leaves the vifs with owners that have a sandbox.
LEMMA WorkerOwned ==
    ASSUME TypeOK, Places, Owned, NEW p \in Pods, WorkerStep(p)
    PROVE  Owned'
  <1>1. CASE UNCHANGED <<vifCnt, vif, sandbox>>
    BY <1>1 DEF Owned
  <1>2. CASE CreatePodSandbox(p)
    <2>1. sandbox' = sandbox \cup {p}
      BY <1>2 DEF CreatePodSandbox
    <2> QED
      <3>1. CASE p \in HostNetwork
        BY <1>2, <2>1, <3>1 DEF CreatePodSandbox, Owned
      <3>2. CASE p \notin HostNetwork
        <4>1. /\ vifCnt \in Nat /\ vifCnt' = vifCnt + 1
              /\ vif'[vifCnt].owner = p
              /\ \A i \in VifIds : i # vifCnt => vif'[i] = vif[i]
          <5>1. /\ vifCnt \in VifIds /\ vifCnt' = vifCnt + 1
                /\ vif'[vifCnt] = [owner |-> p, goal |-> 0, pid |-> NoPod]
                /\ \A i \in VifIds : i # vifCnt => vif'[i] = vif[i]
            BY <1>2, <3>2, CreateFacts
          <5> QED
            BY <5>1 DEF VifIds
        <4> QED
          BY <2>1, <4>1 DEF Owned, VifIds
      <3> QED
        BY <3>1, <3>2
  <1>3. CASE SandboxFails(p)
    BY <1>3 DEF SandboxFails, podState, Owned, TypeOK, VifIds
  <1>4. CASE WriteSLO(p)
    <2>1. CASE Restarted
      BY <2>1 DEF Restarted, kernel, podState, Owned
    <2>2. CASE ~ Restarted
      BY <1>4, <2>2, WriteFacts DEF Owned, podState
    <2> QED
      BY <2>1, <2>2
  <1>5. CASE SetPID(p)
    BY <1>5, SetPIDFacts DEF SetPID, Owned
  <1>6. CASE SandboxDies(p)
    BY <1>6, UnpluggedFacts DEF SandboxDies, Owned
  <1>7. CASE KillPod(p)
    BY <1>7, UnpluggedFacts DEF KillPod, Owned
  <1>8. CASE Destroy(p)
    BY <1>8 DEF Destroy, kernel, Owned
  <1> QED
    BY <1>1, <1>2, <1>3, <1>4, <1>5, <1>6, <1>7, <1>8
       DEF WorkerStep, PodArrives, SetNeconPod, CountPod, UpdateQOSCgroups, EnsureExists,
           StatusFails, SetSLO, ResetPod, StartContainer, ContainerDies, PodKilled,
           ReduceCPULimits, kernel, podState

\* Nothing that has gone wrong is forgotten.
LEMMA SlipsStay ==
    ASSUME [Next]_vars
    PROVE  slips \subseteq slips'
  <1>1. CASE UNCHANGED vars
    BY <1>1 DEF vars
  <1>2. ASSUME NEW p \in Pods, WorkerStep(p)
        PROVE  slips \subseteq slips'
    BY <1>2 DEF WorkerStep, PodArrives, SetNeconPod, CountPod, UpdateQOSCgroups, EnsureExists,
           CreatePodSandbox, SandboxFails, StatusFails, SetSLO, WriteSLO, ResetPod, Restarted,
           StartContainer, SetPID, ContainerDies, SandboxDies, KillPod, PodKilled,
           ReduceCPULimits, Destroy, QosUpdated, SetCgroupPath
  <1>3. CASE QosTimer
    BY <1>3 DEF QosTimer, SetCgroupPath
  <1>4. CASE KubeletRestarts
    BY <1>4 DEF KubeletRestarts, Restarted
  <1> QED
    BY <1>1, <1>2, <1>3, <1>4 DEF Next, WorkerStep, Idle

\* Every step keeps the types, the places and the owners.
LEMMA StepBase ==
    ASSUME BaseInv, [Next]_vars
    PROVE  BaseInv'
  <1> USE DEF BaseInv
  <1>1. CASE UNCHANGED vars
    BY <1>1 DEF vars, TypeOK, Places, Owned
  <1>2. ASSUME NEW p \in Pods, WorkerStep(p)
        PROVE  BaseInv'
    BY <1>2, WorkerType, WorkerPlaces, WorkerOwned
  <1>3. CASE QosTimer
    <2>1. TypeOK'
      BY <1>3 DEF QosTimer, SetCgroupPath, kernel, podState, TypeOK, Slip
    <2>2. Places'
      <3>1. UNCHANGED <<pc, reg, cgroup, sandbox, running>> /\ slips \subseteq slips'
        BY <1>3, SlipsStay DEF QosTimer, podState
      <3> QED
        BY <3>1 DEF Places
    <2>3. Owned'
      BY <1>3 DEF QosTimer, kernel, podState, Owned
    <2> QED
      BY <2>1, <2>2, <2>3
  <1>4. CASE KubeletRestarts
    BY <1>4, RestartType, RestartPlaces
       DEF KubeletRestarts, Restarted, kernel, podState, Owned
  <1> QED
    BY <1>1, <1>2, <1>3, <1>4 DEF Next, WorkerStep, Idle

-----------------------------------------------------------------------------
(* Taking turns for the SLO *)

\* A step of a worker keeps the turns, the counts and the SLOs of an orderly run.
LEMMA WorkerOrderly ==
    ASSUME BaseInv, OrderlyInv, NEW p \in Pods, WorkerStep(p), BaseInv', slips \subseteq slips'
    PROVE  OrderlyInv'
  <1> SUFFICES ASSUME Orderly'
               PROVE  (Counts /\ Turns /\ OwnGoals)'
    BY DEF OrderlyInv
  <1>a. {"sysnet", "sandbox_fails", "sandbox_dies", "restart", "overlap"} \cap slips' = {}
    BY DEF Orderly, Uncounted
  <1>b. Counts /\ Turns /\ OwnGoals
    BY <1>a DEF OrderlyInv, Orderly, Uncounted
  <1>c. TypeOK /\ Places /\ Owned /\ TypeOK' /\ Places'
    BY DEF BaseInv
  <1>d. ~ Restarted
    BY <1>a DEF Restarted
  <1> USE <1>a, <1>b, <1>c, NamesAssumption
  <1> HIDE DEF Orderly
  <1>1. CASE PodArrives(p)
    BY <1>1 DEF PodArrives, Goto, kernel, podState, TypeOK, Places,
                Counts, Turns, OwnGoals, Held, Awaits, Ahead, Counted
  <1>2. CASE SetNeconPod(p)
    <2>1. OwnGoals'
      BY <1>2 DEF SetNeconPod, kernel, OwnGoals
    <2>2. CASE ~ Counted(p)
      <3>1. /\ pc' = [pc EXCEPT ![p] = "qos"]
            /\ UNCHANGED <<necon, reg, vif, vifCnt, cgroup, sandbox>>
        BY <1>2, <2>2 DEF SetNeconPod, Goto, kernel, podState
      <3>2. Counts'
        BY <2>2, <3>1 DEF Counts, Awaits, Counted, TypeOK
      <3>3. Turns'
        BY <2>2, <3>1 DEF Turns, Held, Ahead, Counted, TypeOK
      <3> QED
        BY <2>1, <3>2, <3>3
    <2>3. CASE Counted(p)
      <3>1. /\ pc[p] = "idle" /\ pc' = [pc EXCEPT ![p] = "count"]
            /\ reg' = [reg EXCEPT ![p] = necon.count]
            /\ necon'.pod = p /\ necon'.count = necon.count
            /\ UNCHANGED <<vif, vifCnt, cgroup, sandbox>>
            /\ p \notin cgroup
        BY <1>2, <2>3 DEF SetNeconPod, Goto, kernel, podState, TypeOK
      <3>2. ~ Taken(p) /\ \A q \in Pods \ {p} : pc[q] \notin {"write", "reset"}
        BY <1>2, <2>3 DEF SetNeconPod, Slip
      <3>3. \A q \in Pods \ {p} : ~ Held(q)
        BY <3>2 DEF Turns, Taken, Held, Places
      <3>4. \A q \in Pods \ {p} : ~ Held(q)'
        BY <3>1, <3>3 DEF Held, Counted, TypeOK
      <3>5. Counts'
        <4>1. \A q \in Pods : ~ Awaits(q)'
          BY <3>1, <3>4 DEF Awaits, Held, Counted, TypeOK
        <4> QED
          BY <3>1, <3>4, <4>1 DEF Counts, Held, Places, TypeOK
      <3>6. Turns'
        BY <2>3, <3>1, <3>2, <3>4 DEF Turns, Counted, TypeOK
      <3> QED
        BY <2>1, <3>5, <3>6
    <2> QED
      BY <2>2, <2>3
  <1>3. CASE CountPod(p)
    <2>1. OwnGoals'
      BY <1>3 DEF CountPod, kernel, OwnGoals
    <2>2. /\ pc[p] = "count" /\ pc' = [pc EXCEPT ![p] = "qos"]
          /\ necon'.pod = necon.pod /\ necon'.count = necon.count + 1
          /\ \A q \in Pods \ {p} : reg'[q] = reg[q]
          /\ UNCHANGED <<vif, vifCnt, cgroup, sandbox>>
      BY <1>3 DEF CountPod, Goto, kernel, podState, TypeOK, Counts
    <2>3. necon.pod = p /\ Held(p) /\ vifCnt <= necon.count + 1 /\ necon.count \in Nat
      BY <2>2 DEF Turns, Held, Places, Counts, TypeOK
    <2>4. \A q \in Pods : Held(q)' <=> Held(q)
      BY <2>2 DEF Held, Counted, TypeOK
    <2>5. \A q \in Pods \ {p} : ~ Held(q)
      BY <2>3 DEF Turns
    <2>6. Counts'
      <3>1. \A q \in Pods \ {p} : pc'[q] # "count" /\ ~ Awaits(q)'
        BY <2>4, <2>5 DEF Held, Awaits, Places, Counted
      <3> QED
        BY <2>2, <2>3, <3>1 DEF Counts, TypeOK
    <2>7. Turns'
      <3>1. Ahead(p)'
        <4>1. \A i \in VifIds : i >= necon.count + 1 => vif[i].owner = NoPod
          BY <2>3 DEF Owned, VifIds, TypeOK
        <4> QED
          BY <2>2, <4>1 DEF Ahead
      <3>2. \A q \in Pods \ {p} : pc'[q] \notin {"write", "reset"}
        BY <2>2, <2>3 DEF Turns, TypeOK
      <3> QED
        BY <2>2, <2>3, <2>4, <3>1, <3>2 DEF Turns, Places, Counted
    <2> QED
      BY <2>1, <2>6, <2>7
  <1>4. CASE UpdateQOSCgroups(p)
    BY <1>4 DEF UpdateQOSCgroups, QosUpdated, SetCgroupPath, Goto, kernel, podState, TypeOK, Places,
                Counts, Turns, OwnGoals, Held, Awaits, Ahead, Counted
  <1>5. CASE EnsureExists(p)
    BY <1>5 DEF EnsureExists, SetCgroupPath, Goto, kernel, podState, TypeOK, Places,
                Counts, Turns, OwnGoals, Held, Awaits, Ahead, Counted
  <1>7. CASE SandboxFails(p)
    BY <1>7 DEF SandboxFails
  <1>8. CASE StatusFails(p)
    BY <1>8 DEF StatusFails, Goto, kernel, podState, TypeOK, Places,
                Counts, Turns, OwnGoals, Held, Awaits, Ahead, Counted
  <1>9. CASE SetSLO(p)
    <2>1. OwnGoals'
      BY <1>9 DEF SetSLO, kernel, OwnGoals
    <2> QED
    BY <1>9, <2>1 DEF SetSLO, Goto, kernel, podState, TypeOK, Places, Slip,
                Taken, Counts, Turns, Held, Awaits, Ahead, Counted
  <1>11. CASE ResetPod(p)
    <2>1. OwnGoals'
      BY <1>11 DEF ResetPod, kernel, OwnGoals
    <2> QED
    BY <1>11, <2>1 DEF ResetPod, Goto, kernel, podState, TypeOK, Places,
                Counts, Turns, Held, Awaits, Ahead, Counted
  <1>12. CASE StartContainer(p)
    BY <1>12 DEF StartContainer, Goto, kernel, podState, TypeOK, Places,
                Counts, Turns, OwnGoals, Held, Awaits, Ahead, Counted
  <1>14. CASE ContainerDies(p)
    BY <1>14 DEF ContainerDies, kernel, Counts, Turns, OwnGoals, Held, Awaits, Ahead
  <1>15. CASE SandboxDies(p)
    BY <1>15 DEF SandboxDies
  <1>6. CASE CreatePodSandbox(p)
    <2>1. /\ pc[p] = "idle" /\ pc' = [pc EXCEPT ![p] = "slo"]
          /\ p \in cgroup \ sandbox /\ sandbox' = sandbox \cup {p}
          /\ UNCHANGED <<necon, reg, cgroup>>
      BY <1>6 DEF CreatePodSandbox, Goto
    <2>2. CASE p \in HostNetwork
      <3>1. UNCHANGED <<vif, vifCnt, slips>>
        BY <1>6, <2>2 DEF CreatePodSandbox
      <3>2. Counts' /\ OwnGoals'
        BY <2>1, <3>1 DEF Counts, OwnGoals, Awaits, Counted, TypeOK
      <3>3. Turns'
        BY <2>1, <3>1 DEF Turns, Held, Ahead, Counted, TypeOK
      <3> QED
        BY <3>2, <3>3
    <2>3. CASE p \notin HostNetwork
      <3>1. /\ vifCnt \in VifIds /\ vifCnt' = vifCnt + 1
            /\ vif'[vifCnt] = [owner |-> p, goal |-> 0, pid |-> NoPod]
            /\ \A i \in VifIds : i # vifCnt => vif'[i] = vif[i]
            /\ Counted(p)
        BY <1>6, <2>3, CreateFacts
      <3>2. necon.pod = p /\ vifCnt <= necon.count
        BY <2>1, <3>1 DEF Counts, Turns, Held, Awaits
      <3>3. \A q \in Pods : ~ Awaits(q)'
        <4>1. \A q \in Pods \ {p} : ~ Awaits(q)
          BY <3>2 DEF Turns, Held, Awaits
        <4> QED
          BY <2>1, <4>1 DEF Awaits, Counted, TypeOK
      <3>4. Counts'
        BY <2>1, <3>1, <3>2, <3>3 DEF Counts, TypeOK
      <3>5. OwnGoals'
        BY <3>1 DEF OwnGoals, Strtol
      <3>6. Ahead(p)'
        <4>1. \A i \in VifIds : i >= necon.count => vif[i].owner = NoPod
          BY <3>2 DEF Owned, TypeOK, VifIds
        <4> QED
          BY <2>1, <3>1, <4>1 DEF Ahead
      <3>7. Turns'
        BY <2>1, <3>2, <3>6 DEF Turns, Held, Counted, TypeOK
      <3> QED
        BY <3>4, <3>5, <3>7
    <2> QED
      BY <2>2, <2>3
  <1>10. CASE WriteSLO(p)
    <2>1. /\ necon.pod \in Pods
          /\ pc[p] = "write" /\ pc' = [pc EXCEPT ![p] = "reset"]
          /\ UNCHANGED <<necon, vifCnt, reg, cgroup, sandbox>>
          /\ \A i \in VifIds :
                 /\ vif'[i].owner = vif[i].owner
                 /\ i # necon.count \/ vif[i].owner = NoPod => vif'[i].goal = vif[i].goal
                 /\ i = necon.count /\ vif[i].owner # NoPod =>
                        vif'[i].goal \in Strtol(GoalText(Slo[necon.pod]))
      BY <1>10, <1>d, WriteFacts DEF podState
    <2>2. necon.pod = p \/ pc[necon.pod] \in {"killed", "gone"}
      BY <2>1 DEF Turns
    <2>3. Ahead(necon.pod)
      BY <2>1, <2>2 DEF Turns, Places
    <2>4. OwnGoals'
      <3> SUFFICES ASSUME NEW i \in VifIds, vif'[i].owner # NoPod
                   PROVE  vif'[i].goal \in {0} \cup Strtol(GoalText(Slo[vif'[i].owner]))
        BY DEF OwnGoals
      <3>1. CASE i # necon.count
        BY <2>1, <3>1 DEF OwnGoals
      <3>2. CASE i = necon.count
        <4>1. vif[i].owner = necon.pod
          BY <2>1, <2>3, <3>2 DEF Ahead, VifIds, TypeOK
        <4> QED
          BY <2>1, <3>2, <4>1
      <3> QED
        BY <3>1, <3>2
    <2>5. Counts'
      BY <2>1 DEF Counts, Awaits, Counted, TypeOK
    <2>6. Turns'
      BY <2>1, <2>2 DEF Turns, Held, Ahead, Counted, TypeOK
    <2> QED
      BY <2>4, <2>5, <2>6
  <1>13. CASE SetPID(p)
    <2>1. /\ pc[p] = "pid" /\ pc' = [pc EXCEPT ![p] = "idle"]
          /\ reg' = [reg EXCEPT ![p] = 0]
          /\ UNCHANGED <<necon, vifCnt, cgroup, sandbox>>
          /\ \A i \in VifIds : vif'[i].owner = vif[i].owner /\ vif'[i].goal = vif[i].goal
      BY <1>13, SetPIDFacts DEF SetPID, Goto
    <2>2. Counts' /\ OwnGoals'
      BY <2>1 DEF Counts, OwnGoals, Awaits, Counted, TypeOK
    <2>3. Turns'
      BY <2>1 DEF Turns, Held, Ahead, Counted, TypeOK
    <2> QED
      BY <2>2, <2>3
  <1>16. CASE KillPod(p)
    <2>1. /\ pc[p] = "idle" /\ pc' = [pc EXCEPT ![p] = "killed"]
          /\ sandbox' = sandbox \ {p}
          /\ UNCHANGED <<necon, vifCnt, reg, cgroup>>
          /\ \A i \in VifIds : vif'[i] = vif[i] \/ vif'[i].owner = NoPod
      BY <1>16, UnpluggedFacts DEF KillPod, Goto
    <2>2. Counts' /\ OwnGoals'
      BY <2>1 DEF Counts, OwnGoals, Awaits, Counted, TypeOK
    <2>3. Turns'
      BY <2>1 DEF Turns, Held, Ahead, Counted, TypeOK
    <2> QED
      BY <2>2, <2>3
  <1>17. CASE PodKilled(p) \/ ReduceCPULimits(p)
    <2>1. /\ pc[p] \in {"killed", "gone"} /\ pc' \in {pc, [pc EXCEPT ![p] = "gone"]}
          /\ necon'.pod = necon.pod /\ necon'.count = necon.count
          /\ UNCHANGED <<vif, vifCnt, reg, cgroup, sandbox>>
      BY <1>17 DEF PodKilled, ReduceCPULimits, QosUpdated, SetCgroupPath, kernel, podState,
                   TypeOK
    <2>2. Counts' /\ OwnGoals'
      BY <2>1 DEF Counts, OwnGoals, Awaits, Counted, TypeOK
    <2>3. Turns'
      BY <2>1 DEF Turns, Held, Ahead, Counted, TypeOK
    <2> QED
      BY <2>2, <2>3
  <1>19. CASE Destroy(p)
    <2>1. /\ pc[p] = "gone" /\ cgroup' = cgroup \ {p}
          /\ UNCHANGED <<necon, vif, vifCnt, pc, reg, sandbox>>
      BY <1>19 DEF Destroy, kernel
    <2> QED
      BY <2>1 DEF Counts, Turns, OwnGoals, Held, Awaits, Ahead
  <1> QED
    BY <1>1, <1>2, <1>3, <1>4, <1>5, <1>6, <1>7, <1>8, <1>9, <1>10, <1>11, <1>12, <1>13,
       <1>14, <1>15, <1>16, <1>17, <1>19 DEF WorkerStep

-----------------------------------------------------------------------------
(* The count and the kernel's ids *)

\* An SLO that Atoi reads reaches the vif in the kernel's unit.
LEMMA GoalTextExact ==
    ASSUME NEW p \in Pods, Slo[p] % 1000 # 0
    PROVE  GoalText(Slo[p]) = 125 * Slo[p]
  <1>1. Slo[p] \in Nat
    BY AgentAssumption
  <1>2. GoalText(Slo[p]) = (Slo[p] * 1000) \div 8
    BY DEF GoalText, Atoi
  <1> QED
    BY <1>1, <1>2

\* A step of a worker keeps count the id of the vif whose turn it is.
LEMMA WorkerExact ==
    ASSUME BaseInv, OrderlyInv, ExactInv, NEW p \in Pods, WorkerStep(p), slips \subseteq slips'
    PROVE  ExactInv'
  <1> SUFFICES ASSUME Exact'
               PROVE  Aligned'
    BY DEF ExactInv
  <1>a. {"sysnet", "sandbox_fails", "sandbox_dies", "restart", "overlap", "recount", "hostnet",
         "aborted", "status_fails", "stray"} \cap slips' = {}
    BY DEF Exact, Uncounted
  <1>b. Aligned /\ Counts /\ Turns
    BY <1>a DEF ExactInv, Exact, OrderlyInv, Orderly, Uncounted
  <1>c. TypeOK /\ Places /\ Owned
    BY DEF BaseInv
  <1>d. ~ Restarted
    BY <1>a DEF Restarted
  <1> USE <1>a, <1>b, <1>c, NamesAssumption
  <1> HIDE DEF Exact
  <1>1. CASE PodArrives(p)
    BY <1>1 DEF PodArrives, Goto, kernel, podState, TypeOK, Places,
                Aligned, Awaits, InForce, Counted
  <1>2. CASE SetNeconPod(p)
    <2>1. \A q \in Pods : InForce(q) => InForce(q)'
      BY <1>2 DEF SetNeconPod, kernel, InForce
    <2>2. CASE ~ Counted(p)
      <3>1. /\ pc' = [pc EXCEPT ![p] = "qos"]
            /\ UNCHANGED <<necon, reg, vif, vifCnt, cgroup, sandbox>>
        BY <1>2, <2>2 DEF SetNeconPod, Goto, kernel, podState
      <3> QED
        BY <2>1, <2>2, <3>1 DEF Aligned, Awaits, Counted, TypeOK
    <2>3. CASE Counted(p)
      <3>1. /\ pc[p] = "idle" /\ pc' = [pc EXCEPT ![p] = "count"]
            /\ necon'.pod = p /\ necon'.count = necon.count
            /\ UNCHANGED <<vif, vifCnt, cgroup, sandbox>>
            /\ p \notin cgroup
        BY <1>2, <2>3 DEF SetNeconPod, Goto, kernel, podState, TypeOK
      <3>2. necon.pod = NoPod /\ p \notin HostNetwork
        BY <1>2, <2>3 DEF SetNeconPod, Slip, TypeOK, Taken, Aligned
      <3>3. vifCnt = necon.count + 1
        BY <3>2 DEF Aligned
      <3> QED
        BY <2>1, <3>1, <3>2, <3>3 DEF Aligned, Awaits, Counted, TypeOK
    <2> QED
      BY <2>2, <2>3
  <1>3. CASE CountPod(p)
    BY <1>3 DEF CountPod, Goto, kernel, podState, TypeOK, Places,
                Counts, Turns, Aligned, Held, Awaits, InForce, Counted
  <1>4. CASE UpdateQOSCgroups(p)
    BY <1>4 DEF UpdateQOSCgroups, QosUpdated, SetCgroupPath, Goto, kernel, podState, TypeOK, Places,
                Aligned, Awaits, InForce, Counted
  <1>5. CASE EnsureExists(p)
    BY <1>5 DEF EnsureExists, SetCgroupPath, Goto, kernel, podState, TypeOK, Places,
                Aligned, Awaits, InForce, Counted
  <1>6. CASE CreatePodSandbox(p)
    <2>1. /\ pc[p] = "idle" /\ pc' = [pc EXCEPT ![p] = "slo"]
          /\ p \in cgroup \ sandbox /\ sandbox' = sandbox \cup {p}
          /\ UNCHANGED <<necon, reg, cgroup>>
      BY <1>6 DEF CreatePodSandbox, Goto
    <2>2. CASE p \in HostNetwork
      <3>1. UNCHANGED <<vif, vifCnt, slips>>
        BY <1>6, <2>2 DEF CreatePodSandbox
      <3>2. ~ Counted(p)
        BY <2>1, <2>2 DEF Aligned
      <3>3. \A q \in Pods : InForce(q) => InForce(q)'
        BY <3>1 DEF InForce
      <3> QED
        BY <2>1, <3>1, <3>2, <3>3 DEF Aligned, Awaits, Counted, TypeOK
    <2>3. CASE p \notin HostNetwork
      <3>1. /\ vifCnt \in VifIds /\ vifCnt' = vifCnt + 1
            /\ vif'[vifCnt] = [owner |-> p, goal |-> 0, pid |-> NoPod]
            /\ \A i \in VifIds : i # vifCnt => vif'[i] = vif[i]
            /\ Counted(p)
        BY <1>6, <2>3, CreateFacts
      <3>2. necon.pod = p /\ vifCnt = necon.count
        BY <2>1, <3>1 DEF Turns, Held, Aligned, Awaits
      <3>3. \A q \in Pods \ {p} : ~ Held(q)
        BY <3>2 DEF Turns
      <3>4. \A q \in Pods : InForce(q) => InForce(q)'
        <4>1. \A q \in Pods, i \in VifIds : vif[i].owner = q => i # vifCnt
          BY NamesAssumption DEF Owned, TypeOK, VifIds
        <4> QED
          BY <3>1, <4>1 DEF InForce
      <3> QED
        BY <2>1, <3>1, <3>2, <3>3, <3>4 DEF Aligned, Held, Awaits, Counted, TypeOK
    <2> QED
      BY <2>2, <2>3
  <1>7. CASE SandboxFails(p)
    BY <1>7 DEF SandboxFails
  <1>8. CASE StatusFails(p)
    BY <1>8 DEF StatusFails
  <1>9. CASE SetSLO(p)
    BY <1>9 DEF SetSLO, Goto, kernel, podState, TypeOK, Places, Slip,
                Taken, Turns, Held, Aligned, Awaits, InForce, Counted
  <1>10. CASE WriteSLO(p)
    <2>1. /\ necon.pod \in Pods
          /\ pc[p] = "write" /\ pc' = [pc EXCEPT ![p] = "reset"]
          /\ UNCHANGED <<necon, vifCnt, reg, cgroup, sandbox>>
          /\ \A i \in VifIds :
                 /\ vif'[i].owner = vif[i].owner
                 /\ i # necon.count \/ vif[i].owner = NoPod => vif'[i].goal = vif[i].goal
                 /\ i = necon.count /\ vif[i].owner # NoPod =>
                        vif'[i].goal = GoalText(Slo[necon.pod])
      BY <1>10, <1>d, WriteFacts DEF podState
    <2>2. necon.pod = p /\ Counted(p)
      BY <2>1 DEF Turns, Aligned
    <2>3. necon.count \in VifIds /\ vif[necon.count].owner = p
      BY <2>1, <2>2 DEF Aligned
    <2>4. Slo[p] % 1000 # 0 => InForce(p)'
      BY <2>1, <2>2, <2>3, GoalTextExact DEF InForce
    <2>5. \A q \in Pods \ {p} : InForce(q) => InForce(q)'
      BY <2>1, <2>3 DEF InForce
    <2>6. \A q \in Pods \ {p} : ~ Held(q)
      BY <2>2 DEF Turns
    <2> QED
      BY <2>1, <2>2, <2>3, <2>4, <2>5, <2>6 DEF Aligned, Held, Awaits, Counted, TypeOK
  <1>11. CASE ResetPod(p)
    BY <1>11 DEF ResetPod, Goto, kernel, podState, TypeOK, Places,
                Turns, Held, Aligned, Awaits, InForce, Counted
  <1>12. CASE StartContainer(p)
    BY <1>12 DEF StartContainer, Goto, kernel, podState, TypeOK, Places,
                Aligned, Awaits, InForce, Counted
  <1>13. CASE SetPID(p)
    BY <1>13, SetPIDFacts DEF SetPID, Goto, TypeOK, Places,
                Aligned, Awaits, InForce, Counted
  <1>14. CASE ContainerDies(p)
    BY <1>14 DEF ContainerDies, kernel, Aligned, Awaits, InForce
  <1>15. CASE SandboxDies(p)
    BY <1>15 DEF SandboxDies
  <1>16. CASE KillPod(p)
    <2>1. /\ pc[p] = "idle" /\ pc' = [pc EXCEPT ![p] = "killed"]
          /\ sandbox' = sandbox \ {p}
          /\ necon.pod # p
          /\ UNCHANGED <<necon, vifCnt, reg, cgroup>>
          /\ \A i \in VifIds : vif[i].owner # p => vif'[i] = vif[i]
      BY <1>16, UnpluggedFacts DEF KillPod, Goto, Slip
    <2>2. \A q \in Pods \ {p} : InForce(q) => InForce(q)'
      BY <2>1 DEF InForce
    <2> QED
      BY <2>1, <2>2 DEF Aligned, Awaits, Counted, TypeOK
  <1>17. CASE PodKilled(p) \/ ReduceCPULimits(p)
    <2>1. /\ pc[p] \in {"killed", "gone"} /\ pc' \in {pc, [pc EXCEPT ![p] = "gone"]}
          /\ necon'.pod = necon.pod /\ necon'.count = necon.count
          /\ UNCHANGED <<vif, vifCnt, reg, cgroup, sandbox>>
      BY <1>17 DEF PodKilled, ReduceCPULimits, QosUpdated, SetCgroupPath, kernel, podState,
                   TypeOK
    <2> QED
      BY <2>1 DEF Aligned, Awaits, InForce, Counted, TypeOK
  <1>19. CASE Destroy(p)
    <2>1. /\ pc[p] = "gone" /\ cgroup' = cgroup \ {p}
          /\ UNCHANGED <<necon, vif, vifCnt, pc, reg, sandbox>>
      BY <1>19 DEF Destroy, kernel
    <2> QED
      BY <2>1 DEF Aligned, Awaits, InForce
  <1> QED
    BY <1>1, <1>2, <1>3, <1>4, <1>5, <1>6, <1>7, <1>8, <1>9, <1>10, <1>11, <1>12, <1>13,
       <1>14, <1>15, <1>16, <1>17, <1>19 DEF WorkerStep

-----------------------------------------------------------------------------
(* Alone in creation, and the pid *)

\* A step of a worker keeps the pids while one pod at a time is in creation.
LEMMA WorkerAlone ==
    ASSUME BaseInv, AloneInv, NEW p \in Pods, WorkerStep(p), slips \subseteq slips'
    PROVE  AloneInv'
  <1> SUFFICES ASSUME Alone'
               PROVE  (Counts /\ OneBegun /\ OwnPids)'
    BY DEF AloneInv
  <1>a. {"sysnet", "sandbox_fails", "sandbox_dies", "restart", "crowded", "container_dies"}
           \cap slips' = {}
    BY DEF Alone, Uncounted
  <1>b. Counts /\ OneBegun /\ OwnPids
    BY <1>a DEF AloneInv, Alone, Uncounted
  <1>c. TypeOK /\ Places /\ Owned
    BY DEF BaseInv
  <1>d. ~ Restarted
    BY <1>a DEF Restarted
  <1> USE <1>a, <1>b, <1>c, NamesAssumption
  <1> HIDE DEF Alone
  <1>1. CASE PodArrives(p)
    BY <1>1 DEF PodArrives, Goto, kernel, podState, TypeOK, Places,
                Counts, OneBegun, OwnPids, Begun, Awaits, Ahead, Counted
  <1>2. CASE SetNeconPod(p)
    <2>1. OwnPids'
      BY <1>2 DEF SetNeconPod, kernel, OwnPids
    <2>2. CASE ~ Counted(p)
      <3>1. /\ pc' = [pc EXCEPT ![p] = "qos"]
            /\ UNCHANGED <<necon, reg, vif, vifCnt, cgroup, sandbox, running>>
        BY <1>2, <2>2 DEF SetNeconPod, Goto, kernel, podState
      <3>2. Counts'
        BY <2>2, <3>1 DEF Counts, Awaits, Counted, TypeOK
      <3>3. OneBegun'
        BY <2>2, <3>1 DEF OneBegun, Begun, Ahead, Counted, TypeOK
      <3> QED
        BY <2>1, <3>2, <3>3
    <2>3. CASE Counted(p)
      <3>1. /\ pc[p] = "idle" /\ pc' = [pc EXCEPT ![p] = "count"]
            /\ reg' = [reg EXCEPT ![p] = necon.count]
            /\ necon'.count = necon.count
            /\ UNCHANGED <<vif, vifCnt, cgroup, sandbox, running>>
            /\ p \notin cgroup
        BY <1>2, <2>3 DEF SetNeconPod, Goto, kernel, podState, TypeOK
      <3>2. InCreation(p) = {}
        BY <1>2, <2>3 DEF SetNeconPod, Slip
      <3>3. \A q \in Pods \ {p} : ~ Begun(q)
        BY <3>2 DEF InCreation, Begun, Places
      <3>4. \A q \in Pods \ {p} : ~ Begun(q)'
        BY <3>1, <3>3 DEF Begun, Counted, TypeOK
      <3>5. Counts'
        BY <3>1 DEF Counts, Awaits, Counted, TypeOK
      <3>6. OneBegun'
        BY <3>1, <3>4 DEF OneBegun, TypeOK
      <3> QED
        BY <2>1, <3>5, <3>6
    <2> QED
      BY <2>2, <2>3
  <1>3. CASE CountPod(p)
    <2>1. OwnPids'
      BY <1>3 DEF CountPod, kernel, OwnPids
    <2>2. /\ pc[p] = "count" /\ pc' = [pc EXCEPT ![p] = "qos"]
          /\ reg' = [reg EXCEPT ![p] = 0]
          /\ necon'.count = necon.count + 1
          /\ UNCHANGED <<vif, vifCnt, cgroup, sandbox, running>>
      BY <1>3 DEF CountPod, Goto, kernel, podState, TypeOK, Counts
    <2>3. Begun(p)
      BY <2>2 DEF Begun, Places
    <2>4. \A q \in Pods \ {p} : pc[q] # "count"
      BY <2>3 DEF OneBegun, Begun, Places
    <2>5. Counts'
      BY <2>2, <2>4 DEF Counts, TypeOK
    <2>6. OneBegun'
      <3>1. \A q \in Pods : Begun(q)' = Begun(q)
        BY <2>2 DEF Begun, Counted, TypeOK
      <3>2. \A q \in Pods : Ahead(q) => Ahead(q)'
        BY <2>2 DEF Ahead, TypeOK, VifIds
      <3> QED
        BY <2>2, <3>1, <3>2 DEF OneBegun
    <2> QED
      BY <2>1, <2>5, <2>6
  <1>4. CASE UpdateQOSCgroups(p)
    BY <1>4 DEF UpdateQOSCgroups, QosUpdated, SetCgroupPath, Goto, kernel, podState, TypeOK, Places,
                Counts, OneBegun, OwnPids, Begun, Awaits, Ahead, Counted
  <1>5. CASE EnsureExists(p)
    BY <1>5 DEF EnsureExists, SetCgroupPath, Goto, kernel, podState, TypeOK, Places,
                Counts, OneBegun, OwnPids, Begun, Awaits, Ahead, Counted
  <1>6. CASE CreatePodSandbox(p)
    <2>1. /\ pc[p] = "idle" /\ pc' = [pc EXCEPT ![p] = "slo"]
          /\ p \in cgroup \ sandbox /\ sandbox' = sandbox \cup {p}
          /\ p \notin running
          /\ UNCHANGED <<necon, reg, cgroup, running>>
      BY <1>6 DEF CreatePodSandbox, Goto, TypeOK
    <2>2. \A q \in Pods : Begun(q)' = Begun(q)
      BY <2>1 DEF Begun, Counted, TypeOK
    <2>3. CASE p \in HostNetwork
      <3>1. UNCHANGED <<vif, vifCnt, slips>>
        BY <1>6, <2>3 DEF CreatePodSandbox
      <3>2. Counts' /\ OwnPids'
        BY <2>1, <3>1 DEF Counts, OwnPids, Awaits, Counted, TypeOK
      <3>3. Begun(p) => Ahead(p)'
        BY <2>1, <3>1 DEF Counts, Awaits, Begun, Owned, Ahead, TypeOK, VifIds
      <3>4. OneBegun'
        BY <2>1, <2>2, <3>1, <3>3 DEF OneBegun, Ahead
      <3> QED
        BY <3>2, <3>4
    <2>4. CASE p \notin HostNetwork
      <3>1. /\ vifCnt \in VifIds /\ vifCnt' = vifCnt + 1
            /\ vif'[vifCnt] = [owner |-> p, goal |-> 0, pid |-> NoPod]
            /\ \A i \in VifIds : i # vifCnt => vif'[i] = vif[i]
            /\ Counted(p)
        BY <1>6, <2>4, CreateFacts
      <3>2. Begun(p) /\ vifCnt <= necon.count
        BY <2>1, <3>1 DEF Counts, Begun, Awaits
      <3>3. \A q \in Pods \ {p} : ~ Begun(q)
        BY <3>2 DEF OneBegun
      <3>4. \A q \in Pods : ~ Awaits(q)'
        <4>1. \A q \in Pods \ {p} : ~ Awaits(q)
          BY <3>3 DEF Awaits, Begun, Places, TypeOK
        <4> QED
          BY <2>1, <4>1 DEF Awaits, Counted, TypeOK
      <3>5. Counts'
        BY <2>1, <3>1, <3>2, <3>4 DEF Counts, TypeOK
      <3>6. OwnPids'
        BY <3>1 DEF OwnPids
      <3>7. Ahead(p)'
        <4>1. \A i \in VifIds : i >= necon.count => vif[i].owner = NoPod
          BY <3>2 DEF Owned, TypeOK, VifIds
        <4> QED
          BY <2>1, <3>1, <4>1 DEF Ahead
      <3>8. OneBegun'
        BY <2>2, <3>3, <3>7 DEF OneBegun
      <3> QED
        BY <3>5, <3>6, <3>8
    <2> QED
      BY <2>3, <2>4
  <1>7. CASE SandboxFails(p)
    BY <1>7 DEF SandboxFails
  <1>8. CASE StatusFails(p)
    BY <1>8 DEF StatusFails, Goto, kernel, podState, TypeOK, Places,
                Counts, OneBegun, OwnPids, Begun, Awaits, Ahead, Counted
  <1>9. CASE SetSLO(p)
    BY <1>9 DEF SetSLO, Goto, kernel, podState, TypeOK, Places,
                Counts, OneBegun, OwnPids, Begun, Awaits, Ahead, Counted
  <1>10. CASE WriteSLO(p)
    <2>1. /\ pc[p] = "write" /\ pc' = [pc EXCEPT ![p] = "reset"]
          /\ UNCHANGED <<necon, vifCnt, reg, cgroup, sandbox, running>>
          /\ \A i \in VifIds : vif'[i].owner = vif[i].owner /\ vif'[i].pid = vif[i].pid
      BY <1>10, <1>d, WriteFacts DEF podState
    <2>2. Counts' /\ OwnPids'
      BY <2>1 DEF Counts, OwnPids, Awaits, Counted, TypeOK
    <2>3. OneBegun'
      BY <2>1 DEF OneBegun, Begun, Ahead, Counted, TypeOK
    <2> QED
      BY <2>2, <2>3
  <1>11. CASE ResetPod(p)
    <2>1. OwnPids'
      BY <1>11 DEF ResetPod, kernel, OwnPids
    <2> QED
      BY <1>11, <2>1 DEF ResetPod, Goto, kernel, podState, TypeOK, Places,
                Counts, OneBegun, Begun, Awaits, Ahead, Counted
  <1>12. CASE StartContainer(p)
    <2>1. OwnPids'
      BY <1>12 DEF StartContainer, kernel, OwnPids
    <2> QED
      BY <1>12, <2>1 DEF StartContainer, Goto, kernel, podState, TypeOK, Places,
                Counts, OneBegun, Begun, Awaits, Ahead, Counted
  <1>13. CASE SetPID(p)
    <2>1. /\ pc[p] = "pid" /\ pc' = [pc EXCEPT ![p] = "idle"]
          /\ reg' = [reg EXCEPT ![p] = 0]
          /\ running' \in {running, running \cup {p}}
          /\ UNCHANGED <<necon, vifCnt, cgroup, sandbox>>
          /\ \A i \in VifIds :
                 /\ vif'[i].owner = vif[i].owner
                 /\ i # necon.count => vif'[i].pid = vif[i].pid
                 /\ i = necon.count => vif'[i].pid \in {vif[i].pid, p}
      BY <1>13, SetPIDFacts DEF SetPID, Goto
    <2>2. Begun(p) /\ p \in sandbox
      BY <2>1 DEF Begun, Places
    <2>3. Ahead(p)
      BY <2>2 DEF OneBegun
    <2>4. OwnPids'
      <3> SUFFICES ASSUME NEW i \in VifIds, vif'[i].owner # NoPod
                   PROVE  vif'[i].pid \in {NoPod, vif'[i].owner}
        BY DEF OwnPids
      <3>1. CASE i # necon.count
        BY <2>1, <3>1 DEF OwnPids
      <3>2. CASE i = necon.count
        <4>1. vif[i].owner = p
          BY <2>1, <2>3, <3>2 DEF Ahead, VifIds
        <4> QED
          BY <2>1, <3>2, <4>1 DEF OwnPids
      <3> QED
        BY <3>1, <3>2
    <2>5. Counts'
      BY <2>1 DEF Counts, Awaits, Counted, TypeOK
    <2>6. OneBegun'
      BY <2>1 DEF OneBegun, Begun, Ahead, Counted, TypeOK
    <2> QED
      BY <2>4, <2>5, <2>6
  <1>14. CASE ContainerDies(p)
    BY <1>14 DEF ContainerDies
  <1>15. CASE SandboxDies(p)
    BY <1>15 DEF SandboxDies
  <1>16. CASE KillPod(p)
    <2>1. /\ pc[p] = "idle" /\ pc' = [pc EXCEPT ![p] = "killed"]
          /\ sandbox' = sandbox \ {p} /\ running' = running \ {p}
          /\ UNCHANGED <<necon, vifCnt, reg, cgroup>>
          /\ \A i \in VifIds : vif'[i] = vif[i] \/ vif'[i].owner = NoPod
      BY <1>16, UnpluggedFacts DEF KillPod, Goto
    <2>2. Counts' /\ OwnPids'
      BY <2>1 DEF Counts, OwnPids, Awaits, Counted, TypeOK
    <2>3. OneBegun'
      BY <2>1 DEF OneBegun, Begun, Ahead, Counted, TypeOK
    <2> QED
      BY <2>2, <2>3
  <1>17. CASE PodKilled(p) \/ ReduceCPULimits(p)
    <2>1. /\ pc[p] \in {"killed", "gone"} /\ pc' \in {pc, [pc EXCEPT ![p] = "gone"]}
          /\ necon'.count = necon.count
          /\ UNCHANGED <<vif, vifCnt, reg, cgroup, sandbox, running>>
      BY <1>17 DEF PodKilled, ReduceCPULimits, QosUpdated, SetCgroupPath, kernel, podState,
                   TypeOK
    <2>2. Counts' /\ OwnPids'
      BY <2>1 DEF Counts, OwnPids, Awaits, Counted, TypeOK
    <2>3. OneBegun'
      BY <2>1 DEF OneBegun, Begun, Ahead, Counted, TypeOK
    <2> QED
      BY <2>2, <2>3
  <1>19. CASE Destroy(p)
    <2>1. /\ pc[p] = "gone" /\ cgroup' = cgroup \ {p}
          /\ UNCHANGED <<necon, vif, vifCnt, pc, reg, sandbox, running>>
      BY <1>19 DEF Destroy, kernel
    <2> QED
      BY <2>1 DEF Counts, OneBegun, OwnPids, Begun, Awaits, Ahead
  <1> QED
    BY <1>1, <1>2, <1>3, <1>4, <1>5, <1>6, <1>7, <1>8, <1>9, <1>10, <1>11, <1>12, <1>13,
       <1>14, <1>15, <1>16, <1>17, <1>19 DEF WorkerStep

-----------------------------------------------------------------------------
(* The path *)

\* The path is overwritten under no pod that waits for its container.
LEMMA PathStays ==
    ASSUME BaseInv, PathOwn, NEW p, NEW path, SetCgroupPath(p, path), "path" \notin slips'
    PROVE  \A q \in Pods \ {p} :
               ~ (Counted(q) /\ q \in cgroup \ running /\ pc[q] \notin {"killed", "gone"})
  <1> SUFFICES ASSUME NEW q \in Pods \ {p}, Counted(q), q \in cgroup \ running,
                      pc[q] \notin {"killed", "gone"}
               PROVE  FALSE
    OBVIOUS
  <1>1. necon.path = q
    BY DEF PathOwn
  <1>2. q \in InCreation(p)
    BY DEF InCreation, BaseInv, Places
  <1> QED
    BY <1>1, <1>2 DEF SetCgroupPath, Slip

\* A step of a worker keeps the path that of the pod that waits for its container.
LEMMA WorkerPath ==
    ASSUME BaseInv, PathInv, NEW p \in Pods, WorkerStep(p), slips \subseteq slips'
    PROVE  PathInv'
  <1> SUFFICES ASSUME PathKept'
               PROVE  PathOwn'
    BY DEF PathInv
  <1>a. {"path", "container_dies", "sandbox_dies", "restart"} \cap slips' = {}
    BY DEF PathKept
  <1>b. PathOwn
    BY <1>a DEF PathInv, PathKept
  <1>c. TypeOK /\ Places
    BY DEF BaseInv
  <1> USE <1>a, <1>b, <1>c, NamesAssumption
  <1> HIDE DEF PathKept
  <1>1. CASE PodArrives(p)
    BY <1>1 DEF PodArrives, Goto, kernel, podState, TypeOK, PathOwn, Counted
  <1>2. CASE SetNeconPod(p)
    <2>1. /\ pc[p] = "idle"
          /\ pc' \in {[pc EXCEPT ![p] = "count"], [pc EXCEPT ![p] = "qos"]}
          /\ necon'.path = necon.path
          /\ \A q \in Pods \ {p} : reg'[q] = reg[q]
          /\ UNCHANGED <<fault, cgroup, running>>
      BY <1>2 DEF SetNeconPod, Goto, kernel, podState, TypeOK
    <2> QED
      BY <2>1 DEF PathOwn, Counted, TypeOK
  <1>3. CASE CountPod(p)
    BY <1>3 DEF CountPod, Goto, kernel, podState, TypeOK, PathOwn, Counted
  <1>4. CASE UpdateQOSCgroups(p)
    <2>1. /\ pc[p] = "qos" /\ pc' = [pc EXCEPT ![p] = "ensure"] /\ p \notin cgroup
          /\ UNCHANGED <<fault, reg, cgroup, running>>
      BY <1>4 DEF UpdateQOSCgroups, Goto, kernel, podState, Places
    <2>2. \A q \in Pods : Counted(q) /\ q \in cgroup \ running /\ pc[q] \notin {"killed", "gone"}
                            => necon'.path = q
      <3>1. CASE UNCHANGED necon
        BY <3>1 DEF PathOwn
      <3>2. CASE SetCgroupPath(p, QosPath)
        BY <2>1, <3>2, PathStays
      <3> QED
        BY <1>4, <3>1, <3>2 DEF UpdateQOSCgroups, QosUpdated
    <2> QED
      BY <2>1, <2>2 DEF PathOwn, Counted, TypeOK
  <1>5. CASE EnsureExists(p)
    <2>1. /\ pc[p] = "ensure" /\ pc' = [pc EXCEPT ![p] = "idle"]
          /\ UNCHANGED <<fault, reg, running>>
      BY <1>5 DEF EnsureExists, Goto, kernel
    <2>2. CASE UNCHANGED <<cgroup, necon>>
      BY <2>1, <2>2 DEF PathOwn, Counted, TypeOK
    <2>3. CASE cgroup' = cgroup \cup {p} /\ SetCgroupPath(p, p)
      <3>1. necon'.path = p
        BY <2>3 DEF SetCgroupPath, TypeOK
      <3>2. \A q \in Pods \ {p} :
                ~ (Counted(q) /\ q \in cgroup \ running /\ pc[q] \notin {"killed", "gone"})
        BY <2>3, PathStays
      <3> QED
        BY <2>1, <2>3, <3>1, <3>2 DEF PathOwn, Counted, TypeOK
    <2> QED
      BY <1>5, <2>2, <2>3 DEF EnsureExists
  <1>6. CASE CreatePodSandbox(p)
    BY <1>6 DEF CreatePodSandbox, Goto, TypeOK, PathOwn, Counted
  <1>7. CASE SandboxFails(p)
    BY <1>7 DEF SandboxFails, podState, PathOwn, Counted
  <1>8. CASE StatusFails(p)
    BY <1>8 DEF StatusFails, Goto, kernel, podState, TypeOK, PathOwn, Counted
  <1>9. CASE SetSLO(p)
    BY <1>9 DEF SetSLO, Goto, kernel, podState, TypeOK, PathOwn, Counted
  <1>10. CASE WriteSLO(p)
    <2>1. ~ Restarted
      BY DEF Restarted
    <2>2. /\ pc[p] = "write" /\ pc' = [pc EXCEPT ![p] = "reset"]
          /\ UNCHANGED <<necon, fault, reg, podState>>
      BY <1>10, <2>1, WriteFacts DEF WriteSLO
    <2> QED
      BY <2>2 DEF podState, TypeOK, PathOwn, Counted
  <1>11. CASE ResetPod(p)
    BY <1>11 DEF ResetPod, Goto, kernel, podState, TypeOK, PathOwn, Counted
  <1>12. CASE StartContainer(p)
    BY <1>12 DEF StartContainer, Goto, kernel, TypeOK, PathOwn, Counted
  <1>13. CASE SetPID(p)
    BY <1>13 DEF SetPID, Goto, TypeOK, PathOwn, Counted
  <1>14. CASE ContainerDies(p)
    BY <1>14 DEF ContainerDies
  <1>15. CASE SandboxDies(p)
    BY <1>15 DEF SandboxDies
  <1>16. CASE KillPod(p)
    BY <1>16 DEF KillPod, Goto, TypeOK, PathOwn, Counted
  <1>17. CASE PodKilled(p) \/ ReduceCPULimits(p)
    <2>1. /\ pc[p] \in {"killed", "gone"} /\ pc' \in {pc, [pc EXCEPT ![p] = "gone"]}
          /\ UNCHANGED <<fault, reg, cgroup, running>>
      BY <1>17 DEF PodKilled, ReduceCPULimits, kernel, podState
    <2>2. \A q \in Pods : Counted(q) /\ q \in cgroup \ running /\ pc[q] \notin {"killed", "gone"}
                            => necon'.path = q
      <3>1. CASE UNCHANGED necon
        BY <3>1 DEF PathOwn
      <3>2. ASSUME NEW path, SetCgroupPath(p, path)
            PROVE  \A q \in Pods :
                      Counted(q) /\ q \in cgroup \ running /\ pc[q] \notin {"killed", "gone"}
                            => necon'.path = q
        BY <2>1, <3>2, PathStays
      <3> QED
        BY <1>17, <3>1, <3>2 DEF PodKilled, QosUpdated, ReduceCPULimits
    <2> QED
      BY <2>1, <2>2 DEF PathOwn, Counted, TypeOK
  <1>19. CASE Destroy(p)
    BY <1>19 DEF Destroy, kernel, PathOwn, Counted
  <1> QED
    BY <1>1, <1>2, <1>3, <1>4, <1>5, <1>6, <1>7, <1>8, <1>9, <1>10, <1>11, <1>12, <1>13,
       <1>14, <1>15, <1>16, <1>17, <1>19 DEF WorkerStep

-----------------------------------------------------------------------------
(* The invariant, and the properties it gives *)

\* The kubelet begins with nothing counted and nothing created.
LEMMA InitInv == Init => IInv
  <1> SUFFICES ASSUME Init
               PROVE  IInv
    OBVIOUS
  <1>1. TypeOK
    <2>1. necon \in [pod : Pods \cup {NoPod}, path : Pods \cup {QosPath}, count : 0 .. MaxCount]
      BY AgentAssumption DEF Init, NoNecon
    <2>2. vif \in Vifs /\ vifCnt \in 1 .. MaxVifs + 1
      BY AgentAssumption, GoalsFacts DEF Init, NoVif, Vifs
    <2>3. /\ pc \in [Pods -> {"none", "idle", "count", "qos", "ensure", "slo", "write", "reset",
                             "pid", "killed", "gone"}]
          /\ reg \in [Pods -> 0 .. MaxCount]
      BY AgentAssumption DEF Init
    <2> QED
      BY <2>1, <2>2, <2>3 DEF Init, TypeOK, Vifs
  <1>2. Places /\ Owned
    BY DEF Init, Places, Owned, NoVif
  <1>3. Counts /\ Turns /\ OwnGoals /\ OneBegun /\ OwnPids
    BY NamesAssumption
       DEF Init, NoNecon, NoVif, Counts, Turns, OwnGoals, OneBegun, OwnPids, Held, Awaits, Begun
  <1>4. Aligned /\ PathOwn
    BY DEF Init, NoNecon, Aligned, PathOwn, Awaits
  <1> QED
    BY <1>1, <1>2, <1>3, <1>4 DEF IInv, BaseInv, OrderlyInv, ExactInv, AloneInv, PathInv

\* A restart, or the minute of the QoS container manager, breaks no promise either.
LEMMA AroundInv ==
    ASSUME IInv, UNCHANGED vars \/ QosTimer \/ Restarted, slips \subseteq slips'
    PROVE  (OrderlyInv /\ ExactInv /\ AloneInv /\ PathInv)'
  <1> USE DEF IInv
  <1>1. CASE UNCHANGED vars
    <2>1. UNCHANGED <<Orderly, Counts, Turns, OwnGoals, Exact, Aligned>>
      BY <1>1 DEF vars, Orderly, Counts, Turns, OwnGoals, Exact, Aligned,
                  Held, Awaits, Ahead, InForce
    <2>2. UNCHANGED <<Alone, Counts, OneBegun, OwnPids, PathKept, PathOwn>>
      BY <1>1 DEF vars, Alone, Counts, OneBegun, OwnPids, PathKept, PathOwn,
                  Begun, Awaits, Ahead
    <2> QED
      BY <2>1, <2>2 DEF OrderlyInv, ExactInv, AloneInv, PathInv
  <1>2. CASE QosTimer
    <2>1. /\ necon'.pod = necon.pod /\ necon'.count = necon.count
          /\ UNCHANGED <<vifCnt, vif, fault, pc, reg, cgroup, sandbox, running>>
      BY <1>2 DEF QosTimer, SetCgroupPath, kernel, podState, BaseInv, TypeOK
    <2>2. UNCHANGED <<Counts, Turns, OwnGoals, Aligned, OneBegun, OwnPids>>
      BY <2>1 DEF Counts, Turns, OwnGoals, Aligned, OneBegun, OwnPids,
                  Held, Awaits, Begun, Ahead, InForce
    <2>3. OrderlyInv' /\ ExactInv' /\ AloneInv'
      BY <2>2 DEF OrderlyInv, ExactInv, AloneInv, Orderly, Exact, Alone
    <2>4. PathInv'
      <3> SUFFICES ASSUME PathKept'
                   PROVE  PathOwn'
        BY DEF PathInv
      <3>1. PathOwn /\ "path" \notin slips'
        BY DEF PathInv, PathKept
      <3>2. SetCgroupPath(NoPod, QosPath)
        BY <1>2 DEF QosTimer
      <3>3. \A q \in Pods :
                ~ (Counted(q) /\ q \in cgroup \ running /\ pc[q] \notin {"killed", "gone"})
        BY <3>1, <3>2, PathStays, NamesAssumption
      <3> QED
        BY <2>1, <3>1, <3>3 DEF PathOwn
    <2> QED
      BY <2>3, <2>4
  <1>3. CASE Restarted
    <2>1. "restart" \in slips'
      BY <1>3 DEF Restarted
    <2> QED
      BY <2>1 DEF OrderlyInv, ExactInv, AloneInv, PathInv, Orderly, Exact, Alone, PathKept,
                  Uncounted
  <1> QED
    BY <1>1, <1>2, <1>3

\* Every step keeps the invariant.
LEMMA StepInv == IInv /\ [Next]_vars => IInv'
  <1> SUFFICES ASSUME IInv, [Next]_vars
               PROVE  IInv'
    OBVIOUS
  <1>1. slips \subseteq slips' /\ BaseInv'
    BY SlipsStay, StepBase DEF IInv
  <1>2. ASSUME NEW p \in Pods, WorkerStep(p)
        PROVE  IInv'
    BY <1>1, <1>2, WorkerOrderly, WorkerExact, WorkerAlone, WorkerPath DEF IInv
  <1>3. CASE UNCHANGED vars \/ QosTimer \/ Restarted
    BY <1>1, <1>3, AroundInv DEF IInv
  <1> QED
    BY <1>2, <1>3 DEF Next, WorkerStep, KubeletRestarts, Idle

\* In every reachable state the invariant holds.
LEMMA AgentInv == Spec => []IInv
  BY InitInv, StepInv, PTL DEF Spec

(***************************************************************************)
(* The types of necon, the kernel's vifs and the workers; among them that  *)
(* a pod with a sandbox has a cgroup and a running one has a sandbox.      *)
(***************************************************************************)
THEOREM AgentTypeCorrect == Spec => []TypeOK
  <1>1. IInv => TypeOK
    BY DEF IInv, BaseInv
  <1> QED
    BY AgentInv, <1>1, PTL

(***************************************************************************)
(* SetSLO gives a vif no SLO of another pod, unless the kernel numbered a  *)
(* vif that the kubelet did not count or the windows between SetNeconPod   *)
(* and SetSLO of two pods overlapped.                                      *)
(***************************************************************************)
THEOREM AgentGoalOwn == Spec => []GoalOwn
  <1>1. IInv => GoalOwn
    BY DEF IInv, OrderlyInv, Orderly, OwnGoals, GoalOwn
  <1> QED
    BY AgentInv, <1>1, PTL

(***************************************************************************)
(* When nothing of that happened, no pod was counted twice, for the host's *)
(* network or without its SetSLO, none was deleted within its turn, and    *)
(* vif_write read no digit behind its text, a pod whose container has been *)
(* started has exactly its SLO in force on its own vif.                    *)
(***************************************************************************)
THEOREM AgentGoalSet == Spec => []GoalSet
  <1>1. IInv => GoalSet
    <2> SUFFICES ASSUME IInv, Exact, NEW p \in running, Counted(p), Slo[p] % 1000 # 0
                 PROVE  InForce(p)
      BY DEF GoalSet, Exact, InForce
    <2>1. p \in Pods /\ p \in sandbox /\ pc[p] = "idle"
      BY DEF IInv, BaseInv, TypeOK, Places
    <2>2. Aligned
      BY DEF IInv, ExactInv
    <2> QED
      BY <2>1, <2>2 DEF Aligned
  <1> QED
    BY AgentInv, <1>1, PTL

(***************************************************************************)
(* SetPID gives a vif no pid of another pod than its owner, unless the     *)
(* kernel numbered a vif that was not counted, a pod was counted while     *)
(* another was in creation, or a container was started again.              *)
(***************************************************************************)
THEOREM AgentPidOwn == Spec => []PidOwn
  <1>1. IInv => PidOwn
    BY DEF IInv, AloneInv, Alone, OwnPids, PidOwn
  <1> QED
    BY AgentInv, <1>1, PTL

(***************************************************************************)
(* SetPID reads the pid of its container, so that vif_write never gets an  *)
(* empty write, unless necon.path was overwritten (for another pod that is *)
(* created, killed or cleaned up, or by the minute's update) or lost       *)
(* meanwhile, or a container is started that is not its pod's first.       *)
(***************************************************************************)
THEOREM AgentNoEmptyPid == Spec => []NoEmptyPid
  <1>1. IInv => NoEmptyPid
    BY DEF IInv, PathInv, PathKept, PathOwn, NoEmptyPid
  <1> QED
    BY AgentInv, <1>1, PTL

=============================================================================
