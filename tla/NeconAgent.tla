----------------------------- MODULE NeconAgent -----------------------------
(***************************************************************************)
(* The kubelet side of the DepCon agent: package necon and the places      *)
(* where the kubelet calls it while it creates, kills and cleans up pods.  *)
(*                                                                         *)
(* The kernel module numbers vifs in the order in which ports are put on   *)
(* the bridge.  The kubelet never asks for that number: it counts the pods *)
(* it creates (necon.count) and writes the SLO and the pid of the pod it   *)
(* is working on to the files of vif<count>.  path, pod and count are      *)
(* fields of one object, shared without a lock by the pod workers, of      *)
(* which there is one for every pod, and by the goroutine that updates the *)
(* QoS cgroups once a minute.                                              *)
(*                                                                         *)
(* A pod worker's sync is split where it reads or writes necon.  A failure *)
(* that leaves everything as it was (data directories, volumes, images) is *)
(* a sync that takes no further step: the next one resumes at "idle".      *)
(* A pod has one container.  The kernel module is loaded before the first  *)
(* pod and stays.  The cgroup driver is cgroupfs.                          *)
(***************************************************************************)
EXTENDS Naturals, FiniteSets

CONSTANTS Pods,
          KubeSystem,   \* pods of the namespace kube-system
          HostNetwork,  \* pods that get no port on the bridge
          Slo,          \* example.com/SLO of every pod in Mbps, 0 when it has none
          StrayDigits,  \* digits that may follow the text in vif_write's buffer
          Events,       \* what may go wrong: see EventKinds
          MaxVifs,      \* bound: vifs created
          MaxCount      \* bound: necon.count

EventKinds == {"ensure_fails", "update_fails", "sandbox_fails", "status_fails",
               "sandbox_dies", "container_dies", "qos_timer", "restart"}

ASSUME AgentAssumption ==
    /\ KubeSystem \subseteq Pods /\ HostNetwork \subseteq Pods
    /\ Slo \in [Pods -> Nat]
    /\ StrayDigits \subseteq 0 .. 9
    /\ Events \subseteq EventKinds
    /\ MaxVifs \in Nat /\ MaxCount \in Nat

VARIABLES
    necon,    \* the singleton: pod, path and count
    vifCnt,   \* the kernel's next id
    vif,      \* the kernel's vifs: the pod a vif belongs to, its goal, the pod of its pid
    pc,       \* where the worker of a pod is
    reg,      \* what it has loaded: count, or 1 if it read a pid and 0 if nothing
    cgroup,   \* pods whose cgroup exists
    sandbox,  \* pods with a sandbox
    running,  \* pods whose container was started and went through SetPID
    fault,    \* the kernel oopsed
    slips     \* history: the disturbances that have happened

vars == <<necon, vifCnt, vif, pc, reg, cgroup, sandbox, running, fault, slips>>

kernel == <<vifCnt, vif, fault>>
podState == <<cgroup, sandbox, running>>

VifIds == 1 .. MaxVifs

NoPod == "none"     \* the zero v1.Pod, and the owner of a vif that does not exist
QosPath == "qos"    \* the path of a QoS class, or none at all

ASSUME NamesAssumption == NoPod \notin Pods /\ QosPath \notin Pods

NoVif == [owner |-> NoPod, goal |-> 0, pid |-> NoPod]
NoNecon == [pod |-> NoPod, path |-> QosPath, count |-> 0]

\* strconv.Atoi(q.String()): a Quantity is printed in canonical form, so a
\* multiple of 1000 has a suffix, which Atoi refuses, answering 0
Atoi(slo) == IF slo % 1000 = 0 THEN 0 ELSE slo

\* Mbps to the kernel's unit of 1000 bytes per second
GoalText(slo) == (Atoi(slo) * 1000) \div 8

\* simple_strtol on a buffer that ends where the text ends
Strtol(n) == {n} \cup {10 * n + d : d \in StrayDigits}

Goals == {0} \cup UNION {Strtol(GoalText(Slo[p])) : p \in Pods}

Counted(p) == p \notin KubeSystem

Init ==
    /\ necon = NoNecon
    /\ vifCnt = 1
    /\ vif = [i \in VifIds |-> NoVif]
    /\ pc = [p \in Pods |-> "none"]
    /\ reg = [p \in Pods |-> 0]
    /\ cgroup = {} /\ sandbox = {} /\ running = {}
    /\ fault = FALSE
    /\ slips = {}

Up == ~ fault

\* the worker of p goes from one place to another
Goto(p, from, to) == pc[p] = from /\ pc' = [pc EXCEPT ![p] = to]

Slip(kind, cond) == IF cond THEN {kind} ELSE {}

\* pods other than p whose creation is under way
InCreation(p) ==
    {q \in Pods \ {p} : Counted(q) /\ pc[q] \notin {"none", "killed", "gone"}
                        /\ q \notin running}

\* necon.pod is another pod than p, one that is not being deleted
Taken(p) == necon.pod \notin {NoPod, p} /\ pc[necon.pod] \notin {"killed", "gone"}

-----------------------------------------------------------------------------
(* Kubelet.syncPod *)

PodArrives(p) ==
    /\ Up /\ Goto(p, "none", "idle")
    /\ UNCHANGED <<necon, kernel, reg, podState, slips>>

(***************************************************************************)
(* The pod has no cgroup yet.  SetNeconPod stores the pod and loads count, *)
(* unless the pod is of kube-system.                                       *)
(***************************************************************************)
SetNeconPod(p) ==
    /\ Up /\ p \notin cgroup
    /\ \/ /\ Counted(p)
          /\ necon.count < MaxCount
          /\ Goto(p, "idle", "count")
          /\ necon' = [necon EXCEPT !.pod = p]
          /\ reg' = [reg EXCEPT ![p] = necon.count]
          /\ slips' = slips
                \cup Slip("recount", necon.pod = p)
                \cup Slip("overlap", \/ Taken(p)
                                     \/ \E q \in Pods \ {p} : pc[q] \in {"write", "reset"})
                \cup Slip("hostnet", p \in HostNetwork)
                \cup Slip("crowded", InCreation(p) # {})
       \/ /\ ~ Counted(p)
          /\ Goto(p, "idle", "qos")
          /\ UNCHANGED <<necon, reg, slips>>
    /\ UNCHANGED <<kernel, podState>>

\* mutant: count is not incremented
CountPodForgets(p) ==
    /\ Up /\ Goto(p, "count", "qos")
    /\ necon' = [necon EXCEPT !.count = 1]
    /\ reg' = [reg EXCEPT ![p] = 0]
    /\ UNCHANGED <<kernel, podState, slips>>

\* count++ stores
CountPod(p) ==
    /\ Up /\ Goto(p, "count", "qos")
    /\ necon' = [necon EXCEPT !.count = reg[p] + 1]
    /\ reg' = [reg EXCEPT ![p] = 0]
    /\ UNCHANGED <<kernel, podState, slips>>

\* cgroupManagerImpl.Update ends with SetCgroupPath
SetCgroupPath(p, path) ==
    /\ necon' = [necon EXCEPT !.path = path]
    /\ slips' = slips \cup Slip("path", necon.path \in InCreation(p))

\* an error of UpdateQOSCgroups is only logged, and leaves the path as it was
QosUpdated(p) ==
    \/ SetCgroupPath(p, QosPath)
    \/ "update_fails" \in Events /\ UNCHANGED <<necon, slips>>

UpdateQOSCgroups(p) ==
    /\ Up /\ Goto(p, "qos", "ensure")
    /\ QosUpdated(p)
    /\ UNCHANGED <<kernel, reg, podState>>

\* mutant: the path of the QoS class stays
EnsureExistsKeepsPath(p) ==
    /\ Up /\ Goto(p, "ensure", "idle")
    /\ cgroup' = cgroup \cup {p}
    /\ UNCHANGED <<necon, kernel, reg, sandbox, running, slips>>

(***************************************************************************)
(* pcm.EnsureExists creates the cgroup and then updates it.  A failing     *)
(* Create makes syncPod return, to be called again; a failing Update       *)
(* inside Create is only logged.                                           *)
(***************************************************************************)
EnsureExists(p) ==
    /\ Up /\ Goto(p, "ensure", "idle")
    /\ \/ cgroup' = cgroup \cup {p} /\ SetCgroupPath(p, p)
       \/ /\ "update_fails" \in Events
          /\ cgroup' = cgroup \cup {p}
          /\ slips' = slips \cup {"path"}
          /\ UNCHANGED necon
       \/ "ensure_fails" \in Events /\ UNCHANGED <<cgroup, necon, slips>>
    /\ UNCHANGED <<kernel, reg, sandbox, running>>

-----------------------------------------------------------------------------
(* kubeGenericRuntimeManager.SyncPod *)

(***************************************************************************)
(* createPodSandbox: the runtime sets up the pod's network, and unless the *)
(* pod uses the host's a port comes to the bridge and a vif with it.       *)
(***************************************************************************)
CreatePodSandbox(p) ==
    /\ Up /\ Goto(p, "idle", "slo")
    /\ p \in cgroup \ sandbox
    /\ sandbox' = sandbox \cup {p}
    /\ \/ p \in HostNetwork /\ UNCHANGED <<vifCnt, vif, slips>>
       \/ /\ p \notin HostNetwork
          /\ vifCnt <= MaxVifs
          /\ vif' = [vif EXCEPT ![vifCnt] = [NoVif EXCEPT !.owner = p]]
          /\ vifCnt' = vifCnt + 1
          /\ slips' = slips
                \cup Slip("overlap", Taken(p))
                \cup Slip("sysnet", ~ Counted(p))
    /\ UNCHANGED <<necon, fault, reg, cgroup, running>>

\* it fails after the port was added, which is taken away again
SandboxFails(p) ==
    /\ Up /\ "sandbox_fails" \in Events
    /\ pc[p] = "idle"
    /\ p \in cgroup \ (sandbox \cup HostNetwork)
    /\ vifCnt <= MaxVifs
    /\ vifCnt' = vifCnt + 1
    /\ slips' = slips \cup {"sandbox_fails"}
    /\ UNCHANGED <<necon, vif, fault, pc, reg, podState>>

\* PodSandboxStatus fails: SyncPod returns, and the next one finds the sandbox
StatusFails(p) ==
    /\ Up /\ "status_fails" \in Events
    /\ Goto(p, "slo", "idle")
    /\ slips' = slips \cup {"status_fails"}
    /\ UNCHANGED <<necon, kernel, reg, podState>>

\* mutant: the test of the namespace is inverted
SetSLOInverted(p) ==
    /\ Up /\ Goto(p, "slo", IF necon.pod # NoPod THEN "reset" ELSE "write")
    /\ slips' = slips \cup Slip("overlap", Taken(p))
    /\ UNCHANGED <<necon, kernel, reg, podState>>

\* SetSLO tests the namespace of necon.pod ...
SetSLO(p) ==
    /\ Up /\ Goto(p, "slo", IF necon.pod = NoPod THEN "reset" ELSE "write")
    /\ slips' = slips \cup Slip("overlap", Taken(p))
    /\ UNCHANGED <<necon, kernel, reg, podState>>

\* the kubelet exits and is started again: workers and necon are new
Restarted ==
    /\ necon' = NoNecon
    /\ pc' = [p \in Pods |-> IF pc[p] \in {"none", "gone"} THEN pc[p] ELSE "idle"]
    /\ reg' = [p \in Pods |-> 0]
    /\ slips' = slips \cup {"restart"}
    /\ UNCHANGED <<kernel, podState>>

(***************************************************************************)
(* ... writes its SLO to vif<count> and ignores an error, such as that of  *)
(* a file that is not there.  When the pod was reset meanwhile, it has no  *)
(* Containers[0] and the kubelet panics.                                   *)
(***************************************************************************)
WriteSLO(p) ==
    /\ Up /\ pc[p] = "write"
    /\ \/ necon.pod = NoPod /\ Restarted
       \/ /\ necon.pod # NoPod
          /\ Goto(p, "write", "reset")
          /\ IF necon.count \in VifIds /\ vif[necon.count].owner # NoPod
             THEN \E g \in Strtol(GoalText(Slo[necon.pod])) :
                      /\ vif' = [vif EXCEPT ![necon.count].goal = g]
                      /\ slips' = slips \cup Slip("stray", g # GoalText(Slo[necon.pod]))
             ELSE UNCHANGED <<vif, slips>>
          /\ UNCHANGED <<necon, vifCnt, fault, reg, podState>>

\* ... and resets it
ResetPod(p) ==
    /\ Up /\ Goto(p, "reset", "idle")
    /\ necon' = [necon EXCEPT !.pod = NoPod]
    /\ UNCHANGED <<kernel, reg, podState, slips>>

(***************************************************************************)
(* startContainer calls SetPID at its end: SetPID reads cgroup.procs of    *)
(* the container below necon.path, which yields nothing when the path is   *)
(* not that of the pod ...                                                 *)
(***************************************************************************)
StartContainer(p) ==
    /\ Up /\ p \in sandbox \ running
    /\ \/ /\ Counted(p)
          /\ Goto(p, "idle", "pid")
          /\ reg' = [reg EXCEPT ![p] = IF necon.path = p THEN 1 ELSE 0]
          /\ UNCHANGED running
       \/ /\ ~ Counted(p)
          /\ pc[p] = "idle"
          /\ running' = running \cup {p}
          /\ UNCHANGED <<pc, reg>>
    /\ UNCHANGED <<necon, kernel, cgroup, sandbox, slips>>

(***************************************************************************)
(* ... and writes what it read to vif<count>.  vif_write does not expect a *)
(* write of no bytes and dereferences what kmalloc(0) answers.             *)
(***************************************************************************)
SetPID(p) ==
    /\ Up /\ Goto(p, "pid", "idle")
    /\ running' = IF p \in sandbox THEN running \cup {p} ELSE running
    /\ reg' = [reg EXCEPT ![p] = 0]
    /\ IF necon.count \in VifIds /\ vif[necon.count].owner # NoPod
       THEN \/ reg[p] = 1 /\ vif' = [vif EXCEPT ![necon.count].pid = p] /\ UNCHANGED fault
            \/ reg[p] = 0 /\ fault' = TRUE /\ UNCHANGED vif
       ELSE UNCHANGED <<vif, fault>>
    /\ UNCHANGED <<necon, vifCnt, cgroup, sandbox, slips>>

-----------------------------------------------------------------------------
(* what happens around the workers *)

\* the vifs of p go with its port
Unplugged(p) == [i \in VifIds |-> IF vif[i].owner = p THEN NoVif ELSE vif[i]]

\* the container exits; the next sync starts it again
ContainerDies(p) ==
    /\ Up /\ "container_dies" \in Events
    /\ p \in running
    /\ running' = running \ {p}
    /\ slips' = slips \cup {"container_dies"}
    /\ UNCHANGED <<necon, kernel, pc, reg, cgroup, sandbox>>

\* the sandbox dies; the next sync creates another
SandboxDies(p) ==
    /\ Up /\ "sandbox_dies" \in Events
    /\ p \in sandbox
    /\ sandbox' = sandbox \ {p}
    /\ running' = running \ {p}
    /\ vif' = Unplugged(p)
    /\ slips' = slips \cup {"sandbox_dies"}
    /\ UNCHANGED <<necon, vifCnt, fault, pc, reg, cgroup>>

\* mutant: the sandbox is left behind
KillPodKeepsSandbox(p) ==
    /\ Up /\ Goto(p, "idle", "killed")
    /\ running' = running \ {p}
    /\ slips' = slips \cup Slip("aborted", necon.pod = p)
    /\ UNCHANGED <<necon, kernel, reg, cgroup, sandbox>>

(***************************************************************************)
(* A pod is deleted between two syncs, whether its container was started   *)
(* or not: killPod stops what there is of it.  (A kill in the middle of a  *)
(* sync, or one after which the pod is synced again, is a SandboxDies.)    *)
(***************************************************************************)
KillPod(p) ==
    /\ Up /\ Goto(p, "idle", "killed")
    /\ sandbox' = sandbox \ {p} /\ running' = running \ {p}
    /\ vif' = Unplugged(p)
    /\ slips' = slips \cup Slip("aborted", necon.pod = p)
    /\ UNCHANGED <<necon, vifCnt, fault, reg, cgroup>>

\* killPod ends with UpdateQOSCgroups; it may be called again
PodKilled(p) ==
    /\ Up /\ pc[p] = "killed"
    /\ pc' \in {pc, [pc EXCEPT ![p] = "gone"]}
    /\ QosUpdated(p)
    /\ UNCHANGED <<kernel, reg, podState>>

\* cleanupOrphanedPodCgroups: the pod's volumes are still there, ...
ReduceCPULimits(p) ==
    /\ Up /\ pc[p] = "gone"
    /\ p \in cgroup
    /\ SetCgroupPath(p, p)
    /\ UNCHANGED <<kernel, pc, reg, podState>>

\* ... or its cgroup goes
Destroy(p) ==
    /\ Up /\ pc[p] = "gone"
    /\ p \in cgroup
    /\ cgroup' = cgroup \ {p}
    /\ UNCHANGED <<necon, kernel, pc, reg, sandbox, running, slips>>

\* the goroutine of the QoS container manager, once a minute
QosTimer ==
    /\ Up /\ "qos_timer" \in Events
    /\ SetCgroupPath(NoPod, QosPath)
    /\ UNCHANGED <<kernel, pc, reg, podState>>

KubeletRestarts ==
    /\ Up /\ "restart" \in Events
    /\ Restarted

\* nothing is left to do, or the kernel is gone
Idle ==
    /\ fault \/ \A p \in Pods : pc[p] \in {"idle", "gone"}
    /\ UNCHANGED vars

Next ==
    \/ \E p \in Pods :
         \/ PodArrives(p) \/ SetNeconPod(p) \/ CountPod(p)
         \/ UpdateQOSCgroups(p) \/ EnsureExists(p)
         \/ CreatePodSandbox(p) \/ SandboxFails(p) \/ StatusFails(p)
         \/ SetSLO(p) \/ WriteSLO(p) \/ ResetPod(p)
         \/ StartContainer(p) \/ SetPID(p)
         \/ ContainerDies(p) \/ SandboxDies(p)
         \/ KillPod(p) \/ PodKilled(p) \/ ReduceCPULimits(p) \/ Destroy(p)
    \/ QosTimer \/ KubeletRestarts \/ Idle

Spec == Init /\ [][Next]_vars

-----------------------------------------------------------------------------
\* Type invariant.
TypeOK ==
    /\ necon \in [pod : Pods \cup {NoPod}, path : Pods \cup {QosPath}, count : 0 .. MaxCount]
    /\ vifCnt \in 1 .. MaxVifs + 1
    /\ vif \in [VifIds -> [owner : Pods \cup {NoPod}, goal : Goals, pid : Pods \cup {NoPod}]]
    /\ pc \in [Pods -> {"none", "idle", "count", "qos", "ensure", "slo", "write", "reset",
                        "pid", "killed", "gone"}]
    /\ reg \in [Pods -> 0 .. MaxCount]
    /\ cgroup \subseteq Pods /\ sandbox \subseteq cgroup /\ running \subseteq sandbox
    /\ fault \in BOOLEAN
    /\ slips \subseteq {"recount", "overlap", "hostnet", "sysnet", "crowded", "path",
                        "sandbox_fails", "status_fails", "sandbox_dies", "container_dies",
                        "restart", "aborted", "stray"}

\* the kernel has numbered a vif that the kubelet did not count: count is behind
Uncounted == {"sysnet", "sandbox_fails", "sandbox_dies", "restart"}

(***************************************************************************)
(* A vif never gets the SLO of a pod it does not belong to, unless a vif   *)
(* was created uncounted or the windows between SetNeconPod and SetSLO of  *)
(* two workers overlapped.  In particular a count that has run ahead (a    *)
(* pod counted twice, or one on the host's network) hits no other pod.  An *)
(* SLO that vif_write has extended by a stray digit is the pod's own here. *)
(***************************************************************************)
GoalOwn ==
    slips \cap (Uncounted \cup {"overlap"}) = {} =>
        \A i \in VifIds : vif[i].owner # NoPod =>
            vif[i].goal \in {0} \cup Strtol(GoalText(Slo[vif[i].owner]))

(***************************************************************************)
(* A pod outside kube-system whose container has been started has its SLO  *)
(* in force on its vif, in the kernel's unit: SetSLO has run by then, with *)
(* this pod and this vif.  Here a count that has run ahead matters too     *)
(* (also when a pod is deleted that was counted and got no vif), and so    *)
(* does a PodSandboxStatus that fails, after which SetSLO is skipped, and  *)
(* a stray digit that vif_write read behind the text.  An SLO that is a    *)
(* multiple of 1000 Mbps is the exception: it arrives as 0 (Atoi), which   *)
(* turns the control off.                                                  *)
(***************************************************************************)
GoalSet ==
    slips \cap (Uncounted \cup {"overlap", "recount", "hostnet", "aborted",
                               "status_fails", "stray"}) = {} =>
        \A p \in running : Counted(p) /\ Slo[p] % 1000 # 0 =>
            \E i \in VifIds : vif[i].owner = p /\ vif[i].goal = 125 * Slo[p]

(***************************************************************************)
(* A vif controls the CPU of the pod whose traffic it measures: the pid in *)
(* it is of the owner.  Besides uncounted vifs, a pod that is counted      *)
(* while another still waits for its container, and a container that is    *)
(* started again, break it.                                                *)
(***************************************************************************)
PidOwn ==
    slips \cap (Uncounted \cup {"crowded", "container_dies"}) = {} =>
        \A i \in VifIds : vif[i].owner # NoPod => vif[i].pid \in {NoPod, vif[i].owner}

(***************************************************************************)
(* SetPID finds the container below necon.path.  A path overwritten before *)
(* the container starts (by the minute's QoS update, or for another pod    *)
(* that is created, killed or cleaned up), one lost in a restart of the    *)
(* kubelet, and a container that is started again are the only ways to the *)
(* empty write that vif_write does not survive.                            *)
(***************************************************************************)
NoEmptyPid ==
    slips \cap {"path", "container_dies", "sandbox_dies", "restart"} = {} => ~ fault

(***************************************************************************)
(* pod_workers.go: "This function has to be thread-safe - it can be called *)
(* for different pods at the same time."  With nothing else going wrong,   *)
(* syncPod for two pods at a time gives each pod its own SLO.  It does     *)
(* not: the fields of necon are shared.                                    *)
(***************************************************************************)
SyncPodThreadSafe ==
    \A i \in VifIds : vif[i].owner # NoPod =>
        vif[i].goal \in {0} \cup Strtol(GoalText(Slo[vif[i].owner]))

=============================================================================
