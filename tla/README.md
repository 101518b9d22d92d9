# DepCon in TLA+

Specifications of DepCon, a Kubernetes scheduler and node agent that keep a
container's network bandwidth at a service level objective (SLO) by adjusting
its CPU. The code is under `src/implementation`; its README (in Korean) is the
only description of what it should do. Everything here is written from the
code; where a text of the repository is quoted, a property states what it says.

1. Parts of the system
2. Modules and how they correspond to the code
3. Runs: what is checked, bounds, fairness
4. Proofs
5. Where code and documentation disagree
6. What is not modelled
7. Plan

## 1. Parts of the system

| part | code | state | operations | concurrent with |
|---|---|---|---|---|
| quota controller | `Stella_con/vif.c` `io_control` | goal, measured performance and CFS quota of a container | one step a second | writers of the goal, owners of the cgroup |
| credit allocator | `Stella_con/vif.c` (kernel module) | list of vifs, `CA` (total weight, number of vifs, timer), `/proc/oslab/vif<n>` | `vif_init`, `vif_exit`, `new_vif`, `del_vif`, `pay_credit`, `quota_control`, `vif_write` | itself: it takes no lock |
| bridge hooks | `Stella_con/br_if.c`, `br_input.c` | function pointers `fp_newvif`, `fp_delvif`, `fp_pay`; `p->vif` of a port | add a port, delete a port, receive a frame | receiving cpus, RCU callbacks |
| SLO agent | `NeCon_k8s/pkg/kubelet/necon/necon.go` and its call sites | one `necon` object: `pod`, `path`, `count` | `SetNeconPod`, `SetCgroupPath`, `SetSLO`, `SetPID` | all pod workers, kills and cleanups of pods, the QoS goroutine, restarts of the kubelet |
| pod workers | `NeCon_k8s/pkg/kubelet/pod_workers.go`, `util/queue/work_queue.go` | a channel and goroutine for every pod, `isWorking`, `lastUndeliveredWorkUpdate`, the work queue | `UpdatePod`, `managePodLoop`, `wrapUp`, `ForgetWorker`, `killPodNow` | one another, the sync loop with `dispatchWork`, killers |
| scheduler cache | `NeCon_k8s/pkg/scheduler/internal/cache/cache.go`, `nodeinfo` | `podStates`, `assumedPods`, the pods counted on each node, the snapshot | assume, finish binding, forget, add, update, remove, expire; nodes; `UpdateSnapshot` | informers, binding goroutines, its cleanup |
| scheduling queue | `internal/queue/scheduling_queue.go`, `factory.go` | `activeQ`, `podBackoffQ`, `unschedulableQ`, `schedulingCycle`, `moveRequestCycle` | add, pop, update, delete, park, flush, move requests | the same, and a goroutine for every failed pod |
| scheduler | `scheduler.go`, `core/generic_scheduler.go`, `eventhandlers.go` | one pod at a time in `scheduleOne`; a goroutine for every binding; handlers of events | schedule, assume, bind, fail | one another, the API server, restarts |
| scheduler policy | `depcon.conf`, `framework/plugins/noderesources` | none: a filter and a score | | |
| setup scripts | `init_setting.sh`, `slo_setting.sh` | a node's capacity in the API server | | |
| simulators | `src/experiment` | | offline | |

How they interact:

```
 users --pods--> API server --events--> handlers --> queue --pop--> scheduleOne
                  ^   |                     |                     | snapshot, assume
                  |   |                     +-----> cache <-------+
            bind  |   +--events-->                    ^ finish, forget, expire
                  +------------- binding goroutine ---+

 API server --pods--> kubelet: sync loop --UpdatePod--> pod workers --syncPod--+
                                                                               |
   SetNeconPod  (pod has no cgroup yet: remember the pod, count++)  <----------+
   SetCgroupPath(every cgroup update: remember the path)                       |
   CreatePodSandbox --CNI--> bridge port --fp_newvif--> vif number vifCnt      |
   SetSLO       (writes the goal of the remembered pod to vif<count>)          |
   SetPID       (writes the first pid below the path to vif<count>)            |
                                                                               v
 /proc/oslab/vif<n>/{goal,pid,weight} --vif_write--> vif <--fp_pay-- frames received
                                                      |
            timer, once a second: quota_control --> io_control --> cfs quota
```

The kubelet and the kernel agree on the number of a vif only by counting the
same events in two places. That, the lock-free kernel module, and the mixed
signed and unsigned arithmetic of the controller are where the difficulty is.

### What makes each part correct, and what makes it hard

*Quota controller.* Every step moves the quota towards the goal, by at most
`MAX_DIFF`, and stays in the legal range; it never stalls off the goal; closed
over a container it settles. Hard: products that wrap, a signed quotient of
unsigned operands, a quota of -1 for "no limit", a gain that grows as the goal
shrinks.

*Credit allocator and hooks.* Nothing touches freed memory; the list, the
counters and the proc files agree; bytes are charged exactly and acted upon;
port operations end. Hard: six kinds of contexts, no lock, a timer that walks
a list others change, an `rmmod` that deletes vifs one by one while ports come
and go and leaves the hooks set, error paths after the hook, and RCU callbacks
queued before the hook.

*SLO agent.* Every pod's SLO and pid reach the vif of that pod. Hard: shared
fields without a lock, retries, failures between the steps, restarts, a vif
numbered without being counted, a pod counted without a vif, and a path that
every cgroup update overwrites, those of kills and cleanups included.

*Pod workers.* One sync at a time for a pod, no send that blocks under the
lock, no update lost on a pod that has not ended, no lost kill. Hard: a pod
forgotten while its worker is in `syncPod`, that comes back under the same uid;
a status that ends the pod's work, or turns out not to.

*Scheduler.* No node is promised more SLO than it has; cache and queue never
contradict themselves; a pod that fits somewhere is not left waiting. Hard: what
the cache believes of a pod (assumed, bound, expired, confirmed) is changed by
five kinds of goroutines, each of which may be late, and it is compared with
what the API server knows only through events; an answer may be lost after the
pod was bound; a restart forgets everything; a wake-up may arrive between the
failure of a pod and its parking.

The list of hazards, each at its line and with the properties that watch it, is
in `PROJECT.json`.

## 2. Modules and how they correspond to the code

| module | models |
|---|---|
| `QuotaControl` | `io_control` as operators on machine words; no state |
| `QuotaLoop` | one container under the controller, with any load (open loop) |
| `QuotaPlant` | the same closed over a container that is CPU-bound |
| `QuotaControlProofs`, `QuotaProofs` | lemmas about the arithmetic of `io_control`; theorems about `QuotaLoop` |
| `CreditAllocator` | the kernel module and the three hooks of the bridge, using `QuotaControl` |
| `CreditAllocatorProofs` | theorems about `CreditAllocator` |
| `NeconAgent` | the kubelet side: package necon, its call sites, and the numbering of vifs |
| `NeconAgentProofs` | theorems about `NeconAgent` |
| `PodWorkers` | pod workers, work queue and the sync loop's part in them |
| `PodWorkersProofs` | theorems about `PodWorkers` |
| `SloDemand` | what pods ask for and nodes offer of `example.com/SLO`, and the filter |
| `SchedulerCache` | the scheduler's cache, an action per operation |
| `SchedulingQueue` | the scheduler's queue, an action per operation |
| `Scheduler` | the composition: `scheduleOne`, bindings, handlers, API server, restarts |
| `SloLedger` | abstract: what the scheduler promises about SLOs; `Scheduler` implements it |
| `SumProofs` | lemmas about sums over finite sets |
| `SloLedgerProofs` | what `SloLedger` is kept for |
| `SchedulerProofs` | theorems about `Scheduler`, its refinement of `SloLedger` among them |
| `MCQuotaLoop`, `MCCreditAllocator`, `MCNeconAgent`, `MCScheduler` | constants for TLC |

`CreditAllocator` EXTENDS `QuotaControl`: its timer applies the very
`io_control` that `QuotaLoop` checks and `QuotaProofs` proves about.
`NeconAgent` sees of the kernel module only what it can observe: ids are given
out in the order of port additions, a file exists while its vif does, and an
empty write oopses. It relies on `PodWorkers` for the shape of its concurrency:
`syncPod` runs for several pods at a time and never twice for one, which is
what `OneSync` states, and what `PodWorkersProofs` proves.

Definitions named `...Inverted`, `...Forgets`, `...Keeps...` and the like,
marked "mutant" in their comment, are plausible mistakes in the definition they
precede. No specification uses them; they record, for every property that is
checked, an error of the code it would find.

### QuotaControl, QuotaLoop, QuotaPlant

`U` and `S` read a number as an `unsigned int` and as an `int`; `K`, `RawStep`,
`Dat`, `Clamp` and `NextQuota` follow `io_control` line by line. Word size and
the numbers of `common.h` are constants, for two reasons: TLC's own integers
have 32 bits, and the theorems hold for all of them. `QuotaLoop` has an action
for the timer's step, one for a step whose write of the quota is refused
(`tg_set_cfs_quota` returns an error, which is only printed), one for
`vif_write` on `goal`, and one for an owner of the cgroup that rewrites the
quota. `QuotaPlant` adds the missing half of the feedback: what the container
sends is proportional to its quota (external, an idealisation; section 3).

### CreditAllocator

| state | code |
|---|---|
| `module`, `loads`, `vifCnt` | where insmod and rmmod are; `vif_cnt` |
| `vif`, `live` | `struct ancs_container`; whether its memory is allocated |
| `active` | `CA->active_vif_list`. `list_add` adds at the head and ids grow, so the list is this set in descending order |
| `procs` | ids whose files can be opened |
| `total`, `numVif` | `CA->total_weight`, `CA->num_vif` |
| `attached`, `pvif` | ports whose `rx_handler` is set; `p->vif` |
| `rtnl`, `rx`, `user`, `timer`, `exit` | program counters and registers of the contexts |
| `quota` | CFS quota of the task group of every task |
| `fault` | what memory or code was used that is not there |
| `due`, `owed`, `races` | history, read by no action |

An operation is split wherever another context can see the difference.

- *Adding a port.* `new_vif` links the vif and loads `total_weight`,
  `NewVifAccount` stores it and counts the vif, `NewVifFiles` creates the files.
  The rest of `br_add_if` is `AttachPort`, from where frames of the port are
  charged, and `LinkPort`; its error paths, which never undo the hook, are
  `AddPortFails` before the handler is registered, and `LinkFails` followed by
  `AddPortFails`, which frees the port once no frame is in flight, behind it.
- *Deleting a port.* `DelPort` unregisters the handler, `synchronize_net` is a
  wait for frames in flight, then come `del_vif` and its three further steps,
  with `RcuFreesPort` at any time between them, since `call_rcu` comes before
  the hook. A `p->vif` that is NULL for the hook, or becomes so before
  `del_vif` tests it, is the same fault (`null_vif`).
- *Receiving.* `pay_credit` loads and `RxStore` stores `used_credit`.
- *The timer.* The walk holds the current and the next entry, as
  `list_for_each_entry_safe` does. A round is `quota_control`, which tests `ts`
  and reads goal and `used_credit`, `GetQuota` and `SetQuota`, which read `ts`
  again, and `ResetCredit`: a pid may be written and bytes be charged between
  them. Bytes charged between the reading and the reset are dropped, as in the
  code.
- *rmmod.* `vif_exit` begins a walk of its own, and `ExitDelVif`, `ExitAccount`,
  `ExitUnproc`, `ExitFree` are its `del_vif`, for one vif after another, and
  `ExitDone` the rest. It takes no lock, so no guard of it looks at what RTNL,
  the writers, the cpus or the timer are doing, except for the wait of
  `remove_proc_entry` for the writers of the vif. Both `del_vif`s
  may meet a vif the other has unlinked, and files may be created for a vif
  that is freed (`freed_vif_exit`, `freed_vif_rtnl`).

A bad access sets `fault` and halts the model: the kernel has oopsed. Some are
noticed a step late, at the next access that the model has. `num_vif++` and
`num_vif--` are one step, and so are `kfree` and the assignment of NULL behind
it; `tg_set_cfs_quota` succeeds here (`QuotaLoop` has the refusal).

Faults are reachable, and the properties say by what and by what not:
`TimerFaultCause` (only the deletion of the very vif the walk is on or goes to
next; a NULL task only by a pid written during the round), `StalePointerCause`
(a freed port only by the RCU callback or a failed `br_add_if`; a vif freed by
the other of RTNL and rmmod only if one enters `vif.c` while the other is in
it), `VifOwnsPort` (only a failed `br_add_if`), `TotalWeightExact` and
`UsedExact` (only two overlapping updates). `races` records these overlaps; it
has `unload` as soon as RTNL and rmmod are in `vif.c` together, which is the one
exception of `UsersSafe`, of `NumVifExact` and of the second half of `NoLeak`.
The first half of `NoLeak`, that what is allocated is on the list or in the
hands of a `del_vif`, has no exception. Three faults are behaviours that no text
of the repository excludes:

- `freed_port`: the RCU callback may free the port while `del_vif` uses it,
  because `remove_proc_entry` may sleep (its causes: `StalePointerCause`);
- `proc_overflow`: ids are never reused and `proc_vif` has 64 entries, so the
  64th vif of a load is written behind the array;
- `null_vif` with `SystemPorts` not empty: loaded beside a bridge that already
  has a port, the module gets `p->vif = NULL` with the next frame of that port.
  The README has the module loaded on a node where Kubernetes' own containers
  may run already (line 179); `DocumentedUse` covers the node where none does.

### NeconAgent

| state | code |
|---|---|
| `necon` | the singleton's `pod`, `path`, `count` |
| `vifCnt`, `vif` | the kernel's counter and, for each vif, its owner, goal and the pod its pid belongs to |
| `pc`, `reg` | where a pod's worker is, and what it has loaded |
| `cgroup`, `sandbox`, `running` | what exists of a pod |
| `fault` | the kernel oopsed in `vif_write` |
| `slips` | history: the disturbances that have happened |

`SetNeconPod`, `CountPod` are the two halves of `count++`. Every successful
cgroup update ends in `SetCgroupPath`: `UpdateQOSCgroups` and `EnsureExists` of a
pod that is created, `PodKilled` (the `UpdateQOSCgroups` at the end of `killPod`,
which leaves the path of a QoS class behind and may come again),
`ReduceCPULimits` of a pod that is gone and whose volumes are not, and
`QosTimer`; `Destroy` removes a cgroup and touches no path. `KillPod` stops what
there is of a pod, whether its container was started or not; a pod that was
counted and is killed before `SetSLO` has reset it is the disturbance `aborted`.
A kill in the middle of a sync, and one after which the pod is synced again, is
`SandboxDies` with `QosTimer`. `CreatePodSandbox`,
`SetSLO`, `WriteSLO`, `ResetPod` follow `SyncPod`; `StartContainer` reads the
pid and `SetPID` writes it. The conversions are modelled by what they do:
`Atoi(q.String())` yields 0 for an SLO that is a multiple of 1000, because a
Quantity prints it with a suffix, and `simple_strtol` may read digits left over
behind the text (`StrayDigits`), because `vif_write` does not terminate its
buffer: a goal so extended is the disturbance `stray`. The properties have the form "unless one of these disturbances has
happened, the SLO (the pid) is on the right vif": each names the complete list
of causes, so that TLC checks that there is no other. `GoalSet` asks for the
exact goal, 125 times the SLO; `GoalOwn`, which is about whose SLO a vif has,
takes an extended number for its pod's own.

### PodWorkers

| state | code |
|---|---|
| `podUpdates`, `gens`, `worker` | the map of channels; every channel ever made for a pod with the goroutine that reads it |
| `isWorking`, `last` | the maps `isWorking`, `lastUndeliveredWorkUpdate` |
| `queue`, `todo` | the work queue, and what the sync loop has taken from it |
| `known`, `ver` | the pod manager |
| `terminal` | pods that `podAndContainersAreTerminal` calls ended, going by the status manager |
| `killer` | callers of `killPodNow` |
| `fault` | a send under `podLock` met a full, closed or missing channel |
| `synced` | history: the latest version a sync has begun with |

What is done under `podLock` is one action. A worker goes
`Receive` - `syncPod` - `OnComplete` - `wrapUp` - `checkForUpdates`;
`RemoveWorkers` closes the channel, which the goroutine notices only when it
waits again (`Exits`), and leaves `isWorking` as it is. The sync loop is one
goroutine, so its handlers wait until the pods it took from the queue are
dispatched (`todo = {}`). They go through `dispatchWork`, which passes no work
to the worker of a pod that has ended. What ends a pod is a rejection or the new
version itself (`HandlePodUpdates`), a kill, which sets the status to failed
before it stops anything (`syncPod`), or what a sync finds; an ordinary sync may
also find that the pod has not ended after all. `killPodNow` does not look at the
status and calls `UpdatePod` directly. `HandlePodCleanups` forgets the workers of
all pods that are gone or have ended, not only of those that are gone.

### SchedulerCache, SchedulingQueue, Scheduler

| state | code |
|---|---|
| `podStates` | the maps `podStates` and `assumedPods` with `bindingFinished`: the node of a pod, and whether it is assumed, may expire, or is added |
| `nodes` | the items of `cache.nodes`: without a `v1.Node` ("nil"), with one ("plain"), with one that offers SLOs ("slo"), and the pods counted |
| `dirty`, `snapshot` | generations above that of the snapshot; `nodeInfoMap` and `nodeInfoList` |
| `panicked` | `NodeInfo.RemovePod` dereferenced a nil node |
| `activeQ`, `backoffQ`, `unschedulableQ` | the three queues |
| `moved`, `retry` | `moveRequestCycle = schedulingCycle`; the goroutines of failed pods with the comparison each will make |
| `cycle`, `bind` | where `scheduleOne` is, and every binding goroutine |
| `apiPod`, `apiNode` | the objects in the API server |
| `seenQ`, `seenC`, `podStep`, `nodeStep` | what the handlers have been told, and the second half of a handler |
| `upsets` | how many upsets there have been (bound) |
| `lapsed`, `unwoken` | history: pods that snapshots have ceased to count, or never did; pods that were given room, or failed for another reason than room, with no move request |

Every operation of the cache and of the queue holds its lock from beginning to
end and is one action. Their modules say nothing of who calls them; `Scheduler`
composes them: `scheduleOne` is `PopPod`, then `SkipPod` or `Schedule`, then
`Assume` or `AssumeFails` or `FailPod`; a binding goroutine is `Bind`,
`Bound_ok` or `BindFails`, `BindRecorded`; a handler changes the cache in its
first action and asks the queue for a move in its second (`PodHandlerMoves`,
`NodeHandlerMoves`). Everything may happen between two of them.

The two cycle numbers only grow and are only compared, with each other and with
the cycle at which a failure was noticed; `moved` and the flag a failed pod
carries are the outcomes of these comparisons. Of a snapshot the model keeps
that the map and the list are brought up to date separately, by changes and by
a count, and that a list of the wrong length fails the cycle.

`SloLedger` is the abstract specification: a pod claims room on a node, the
claim is granted only when it and the claims that are held fit, a pod is placed
only where it holds a claim, and a claim is dropped only before the pod is
placed, when it is over, or with an excuse. `Ledger` in `Scheduler` maps
`podStates` to claims and `apiPod` to placements. The excuse is `lapsed`: an
assumed pod that expired before its event came, a binding that succeeded and
whose answer was lost, a restart, a node that was deleted before or after the
pod was assumed there. That these are all is what `KeepsLedger` says.

## 3. Runs

| run | module, cfg | question | distinct states |
|---|---|---|---|
| `quota_loop` | `MCQuotaLoop`, `QuotaLoop.cfg` | never against the goal, no dead zone, range kept, although words wrap | 19404 |
| `quota_unlimited` | `MCQuotaLoop`, `QuotaUnlimited.cfg` | violated: a container without limit loses CPU below its goal | |
| `quota_plant` | `QuotaPlant`, `QuotaPlant.cfg` | the closed loop settles | 10545 |
| `allocator_ports` | `MCCreditAllocator`, `AllocatorPorts.cfg` | memory, list, counters and walk under port changes, a weight write, load and unload, overlapping as they may | 1273953 |
| `allocator_traffic` | `MCCreditAllocator`, `AllocatorTraffic.cfg` | charging exact and acted upon, documented use safe, port operations end | 307872 |
| `allocator_unload` | `MCCreditAllocator`, `AllocatorUnload.cfg` | violated: the bridge calls the unloaded module | |
| `agent` | `MCNeconAgent`, `Agent.cfg` | which disturbances put an SLO or a pid on the wrong vif, or on none, and which lead to the empty write | 1308259 |
| `agent_threads` | `MCNeconAgent`, `AgentThreads.cfg` | violated: two pods at a time mix up their SLOs | |
| `pod_workers` | `PodWorkers`, `PodWorkers.cfg` | one sync, safe sends, exact `isWorking`, kills kept, versions of pods that have not ended synced | 165881 |
| `scheduler` | `MCScheduler`, `Scheduler.cfg` | no over-commitment, cache and queue consistent, no lost wake-up, fresh snapshots, the ledger of SLOs kept | 880410 |
| `scheduler_live` | `MCScheduler`, `SchedulerLive.cfg` | no pod starves, nothing stays of a pod that is gone, also if its node comes back | 199573 |
| `scheduler_rejoin` | `MCScheduler`, `SchedulerRejoin.cfg` | violated: the cache keeps a pod whose node came back | |

### Bounds

*QuotaLoop.* Words of 10 bits, with gain and quota range scaled, so that
products wrap for the larger of the goals and not for the smaller; loads around
every goal, its half and its double (the conditions of the gain) and at the
largest word. All combinations with all reachable quotas are checked; the
theorems of section 4 remove the bounds.

*QuotaPlant.* The numbers of the code; goals from 24 to 500 Mbps and rates from
10 to 400 MB/s per full CPU, so that feasible goals, goals out of reach on
both sides, and gains near the limit of stability all occur. `Converges` holds
for containers that are `Damped`: beyond that the gain, which grows as the
goal shrinks, makes the loop oscillate for ever (a goal of 24 Mbps with a
container that can send 200 MB/s is such a case). No text excludes this, so it
is a precondition here and not a finding. A container that is not CPU-bound,
or whose load changes, is covered by the open loop only.

*CreditAllocator.* Two ports and three vifs give a list on which an entry is
first, middle and last, a port deleted and added again under a new id, and, with
`ProcSlots = 3`, an array that is one entry short. `allocator_ports` has two
loads, failing additions, one writer, and no restriction on when the module comes
and goes; a behaviour is followed only while at most two kinds of overlap
(`races`) have occurred (`FewOverlaps`), so that every property is checked with
every excuse alone and with one more. Words have 4 bits, and a total that
overlapping updates drove below 0 wraps. Two writers were not needed for an
overlap: the RTNL holder and rmmod are the other parties. `allocator_traffic` has
the README's discipline (`Documented`), one receiving cpu, goals, pids and one
quota besides "no limit"; it has no writers of weights, so that of the two waits
with the RTNL mutex held `PortOpsEnd` exercises the one for frames. `MaxUsed`,
`MaxVifs` and `MaxLoads` bound counters; an action that would exceed one is
disabled. A vif that an unload left behind ends the loading (`vif_init`). One cpu
overlaps with the timer; two cpus overlap with each other in the same way, two
halves of `used_credit += len`. No run has a port on the bridge before the first
load; the theorems allow it.

*NeconAgent.* Two pods with SLOs, one of kube-system and one on the host's
network, which disturb the numbering in their two ways; an error needs two pods
with SLOs. `MaxCount` and `MaxVifs` are
3, so both sides of the numbering can run ahead of the pods whose SLO is at
stake. All kinds of events may happen, but a behaviour is followed only while at
most two kinds of disturbance (`slips`), and stray digits, have occurred, and
only one pod is deleted (`Few`): every property speaks of one disturbance at a
time or of none, and the second shows that the lists of causes do not depend on
being alone.

*PodWorkers.* One pod: pods meet only in `podLock`, whose sections are single
actions, and in the sync loop, which handles one at a time; the theorems hold
for any number. Two killers, so that one request can displace another; three
workers of the pod, so that a pod is forgotten and comes back twice while the
first worker may still be in `syncPod` (the last one is not forgotten, so that a
pod never stays without a worker for want of one); two versions.

*Scheduler.* Two pods and two nodes, each node with room for one pod: the pods
compete for one node, or for the second once it offers SLOs. One node is there
from the start; the other registers, is patched with a capacity
(`slo_setting.sh`), is deleted and comes back. `MaxUpsets` bounds what goes
wrong or changes from outside, counted together: a lost request, a lost answer,
an update of a pod, the deletion of a pod, a change of a node, the death of the
process. Two in the safety run, so that one can meet another (a deleted node and
a lost answer; a restart and a deletion). The liveness run, whose graph is
searched for cycles without symmetry, has all pods and nodes with one upset, and
goes on with one pod and one node for three more, which are deletions of the pod
and changes of the node (`Few`, in `MCScheduler`): there a node is deleted and
comes back while its pod is bound, assumed or on its way out, pods are stranded,
and stranded pods are pending. The restriction holds back users and nodes only,
of which fairness asks nothing. Symmetry of pods is used in the safety run only.
The theorems hold for any number of pods, nodes and upsets.

### Fairness

`QuotaPlant`: the timer fires (`WF` of its only action): it is rearmed by its
own callback, which is itself what `ChargeIsTaken` checks.

`CreditAllocator`: weak fairness of the timer, of the RTNL holder and of rmmod
once they have begun, of a receive path and of a system call once begun. The kernel schedules
each of them; none of them depends on another except through the waits, which
are guards. Nothing is assumed about ports coming and going, frames or writes.

`PodWorkers`: weak fairness of each worker's step (a goroutine that can run
runs), of the sync loop's taking of a queued pod and of its dispatch. The
worker's step into `syncPod` waits for the pod cache and may fail instead; that
for an ordinary update it succeeds again and again is strong fairness, since
the runtime's relisting comes back every second. Kills may fail for ever.

`Scheduler`: every goroutine that can go on does; timers fire; events arrive.
Strong fairness is assumed where an action can be disabled again by its own
competitors. `PopPod` of a pod: `activeQ` is ordered by priority and then by the
time a pod was queued, so with equal priorities a pod is not overtaken for ever.
The first halves of handlers: a pod's or a node's event waits in a buffer of its
listener while the second half of another is done. The flushes move all pods
that are due, so each pod's is weakly fair. Nothing is assumed about users,
nodes, lost messages or kills, which `upsets` bounds.

### What the properties show

- The controller (`TowardsGoal`, `NoDeadZone`, `Converges`, `Saturates`): its
  arithmetic is right for every container with a limit, in spite of the mixed
  signedness.
- The lock-free module: the receive path is safe when the module comes and goes
  as documented (`RxSafe`, `DocumentedUse`). Unless an rmmod runs into an
  addition or deletion of a port, the proc files are safe (`UsersSafe`) and
  nothing is left behind (`NoLeak`). The counters are wrong only after two
  updates overlapped, which is not harmless and not denied by any text. The walk
  is complete and fails only if its own current or next entry is deleted, or the
  pid it is working with is rewritten (`TimerFaultCause`); stale ports and vifs
  have the causes that `StalePointerCause` names and no other.
- The agent: in a node where pods are created one after the other and nothing
  fails, every pod gets its SLO and pid, but for SLOs of a multiple of 1000
  Mbps. The complete lists of what breaks it: `Uncounted` and `overlap` for an SLO
  on another pod's vif; besides these `recount`, `hostnet`, `aborted`,
  `status_fails` and `stray` for a pod that runs without its SLO; `Uncounted`,
  `crowded` and `container_dies` for a pid; `path`, `container_dies`,
  `sandbox_dies` and `restart` for the empty write. That a restart of the kubelet
  is on all four is the behaviour of the code, not a claim that it is harmless.
- The pod workers keep one sync at a time, never block on a channel under the
  lock, and lose no version of a pod that has not ended for good: one that
  `UpdatePod` drops behind a kill comes back only if the pod survives the kill. A
  kill request that comes second is
  dropped, as `UpdatePod` means to (section 5).
- The scheduler: the pods bound to a node fit it, with the five excuses of
  `lapsed` and no other (`NoOvercommit`, `KeepsLedger`). In spite of late and
  lost events a pod is counted on one node (`Accounted`), is as the handlers
  expect it, so that the process never ends in `klog.Fatalf` (`Confirmed`), is in
  one queue (`OneQueue`), and parked only while nothing fits (`Parked`), with
  the exceptions that `unwoken` records: room that an expiry, a failed binding or
  an event of another node gives back without a move request, a pod whose own
  binding failed, and a pod that was tried on a list of nodes which lacked one
  (section 4). There the pod waits for the flush after a minute, which
  `NotStarved` relies on.

## 4. Proofs

The theorems hold for all values of the constants that satisfy the ASSUMEs.
Every safety invariant and every action property that a run checks is one of
them, and so is the refinement of `SloLedger`.

| module | theorems (`Spec => []P`, or `Spec => P` for action properties) |
|---|---|
| `QuotaProofs` | `LoopTypeCorrect`, `LoopTowardsGoal`, `LoopNoDeadZone` |
| `CreditAllocatorProofs` | `AllocatorTypeCorrect`, `AllocatorUsersSafe`, `AllocatorNoLeak`, `AllocatorRxSafe`, `AllocatorNumVifExact`, `AllocatorTotalWeightExact`, `AllocatorUsedExact`, `AllocatorWalkComplete`, `AllocatorTimerFaultCause`, `AllocatorStalePointerCause`, `AllocatorVifOwnsPort`, `AllocatorDocumentedUse` |
| `NeconAgentProofs` | `AgentTypeCorrect`, `AgentGoalOwn`, `AgentGoalSet`, `AgentPidOwn`, `AgentNoEmptyPid` |
| `PodWorkersProofs` | `WorkersTypeCorrect`, `WorkersOneSync`, `WorkersSendsSafe`, `WorkersWorkingExact`, `WorkersKillNotLost` |
| `SloLedgerProofs` | `LedgerKept` |
| `SchedulerProofs` | `SchedulerTypeCorrect`, `SchedulerAccounted`, `SchedulerConfirmed`, `SchedulerOneQueue`, `SchedulerSnapshotFresh`, `SchedulerKeepsLedger`, `SchedulerNoOvercommit`, `SchedulerParked` |

A theorem is named for the property it states. Each inductive invariant was
checked by TLC on the run of its module before it was proved.

### `QuotaControlProofs`, `QuotaProofs`

Assumed (`QuotaAssumption`, `LoopAssumption`): words have an even number of
values, the quota range is not empty, a quota plus a step fits an `int`, goals
are 0 or between 2 and `Word/8`. `common.h` and the kubelet's goals satisfy it.

- `LoopTypeCorrect`: TypeOK is inductive: `ClampInQuotas` returns a legal quota
  whatever was computed.
- `LoopTowardsGoal`: the product `k*diff` may be any word; the argument does not
  look into it. `RawStepNat`: an unsigned word divided by a goal of at least 2 is
  below `Word/2`, so stored in the int `dat` it is not negative. `DatRange`: the
  step is therefore in `0 .. MAX_DIFF`. `NextQuotaTowards`: goal and performance
  are below `Word/2`, because a performance is a word divided by 1000, so the
  sign of `diff` is right, and the sum does not wrap.
- `LoopNoDeadZone`: `DatPositive`: the division rounds up, so an exact step is at
  least 1; `NextQuotaMoves`: the quota changes or is at the end of its range.

The lemmas about single operators are in `QuotaControlProofs`, since the timer
of `CreditAllocator` applies the same operators and its type theorem needs them.

### `SumProofs`

Two properties compare sums over sets, and a sum is a recursive function on the
subsets of a set. The induction theorems of the library take a predicate as a
parameter, which the provers cannot instantiate; but the natural numbers are
well ordered, and that is a fact about sets: `LeastElement`, and from it
`SmallestSet`, a family of finite sets has a smallest one. A set whose sum
misbehaves is then contradicted by a smallest such set. `SumExists` shows that
the recursive definition has a solution at all, `SumsUpElement` that any element
may be taken out first, and `SumAdd`, `SumSubset`, `SumChange` are what the other
modules use.

### `CreditAllocatorProofs`

Assumed (`AllocatorAssumption`, `FreedPortAssumption`, `QuotaAssumption`): inputs are unsigned words,
goals in the range of the controller, bounds natural numbers. Ports, cpus,
writers and tasks are any sets: in particular there may be several receiving
cpus and several writers, of which the runs have one each.

The invariant `IInv` is what makes lock-free code work where it does:

- `Loaded`, `Holder`, `PortVif`: the RTNL holder is the only one that adds or
  deletes a port, which receives frames only while it is being linked, its vif is
  its own unless rmmod has freed it, and no vif has two ports;
- `Remover`, `Sweep`: rmmod has another vif in hand than the `del_vif` of RTNL;
  and as long as nobody of RTNL was in `vif.c` with it, what it has still to
  delete lies before it, so that it ends with nothing allocated (`NoLeak`);
- `Files`, `Writers`: unless RTNL and rmmod met, the files of a vif are on the
  list's vifs or on one being deleted, whose files go before it is freed; a writer
  keeps its file open, and `remove_proc_entry` waits for it. `UsersSafe` follows;
- `Owners`, `Hooked`, `Quiet`: vifs and ports belong together; with the documented
  use the hooks meet no port without a vif, and no port comes or goes with the
  module (`VifOwnsPort`, `DocumentedUse`);
- `Frames`, `Charges`: a frame in flight is for a port that is attached, or for
  the one `synchronize_net` waits for (`RxSafe`); what a cpu is about to store is
  right unless another met it (`UsedExact`);
- `Tasked`: a vif in the middle of its round has a task, unless its pid was written
  during it; and `Regulated`, that the computed quota is in range
  (`TimerFaultCause`, `TypeOK`);
- `Faultless`: what is true when the model halts, fault by fault
  (`StalePointerCause`, `TimerFaultCause`, `DocumentedUse`);
- `Cursor`, `Ahead`: what the walk has yet to visit is not above its next entry
  (`WalkComplete`), which rests on ids growing and `list_add` adding at the head;
- `Totals`: `total_weight` is the sum over the list, or the one context which has
  loaded it is about to make it so (`TotalWeightExact`). Words wrap, the sum does
  not: `WrappedSum` says that adding to the one is adding to the other.

### `NeconAgentProofs`

Assumed (`AgentAssumption`, `NamesAssumption`): SLOs are natural numbers, and the
names the model uses for "no pod" and "the path of a QoS class" are no pods. Pods,
their kinds and the events that happen are any, and any number of disturbances
may happen; the run follows at most two kinds, besides stray digits, and the
deletion of one pod.

Every property says what holds while certain disturbances have not occurred
(`slips`), so the invariant is a conjunction of implications with the same
premises. `OrderlyInv` (no uncounted vif, no overlap): pods take turns between
`SetNeconPod` and `ResetPod` (`Turns`), and `count` is never behind the kernel's
next id (`Counts`), so that the vif it names is of the pod whose turn it is or of
nobody (`Ahead`). `ExactInv` (nor a pod counted twice, without a vif, killed before
its vif or without its `SetSLO`, nor a stray digit): `count` and the kernel's id
agree (`Aligned`), which turns "not on a wrong vif" into "exactly in force on its
own". `AloneInv`: one pod at a time between
`SetNeconPod` and its container, for the pids. `PathInv`: `necon.path` is that of
the pod which waits for its container, whatever other pods are killed or cleaned
up, because an update for one of them while a pod waits is the disturbance `path`. `SlipsStay`: disturbances are not undone,
so a premise that holds after a step held before it.

### `PodWorkersProofs`

Assumed: the bounds are natural numbers. `Uids` and `Killers` are any sets.

`OneSync`, `SendsSafe` and `WorkingExact` are not inductive. That a send finds
its channel empty depends on `isWorking`; that `isWorking` is right although
`ForgetWorker` leaves it alone depends on which of the pod's channels and
goroutines is at work; that the send of an undelivered update finds a channel at
all depends on `removeWorker` having dropped it. The inductive invariant `IInv`
adds

- `Channels`: the current channel is the last one made, and the only open one;
- `Workers`: an update in a channel, or an open channel, has a goroutine that
  waits or works, and one with an update in its channel waits;
- `OneActive`: at most one channel of a pod has an update or a goroutine at
  work, and `isWorking` says whether there is one. `OneSync` and `WorkingExact`
  follow at once;
- `Pending`: an undelivered update implies a channel and `isWorking`.

`WorkerMoves` covers the steps of a goroutine that neither open nor close a
channel nor free the pod; `UpdatePodStep`, `RemoveWorkersStep` and
`CheckForUpdatesStep` are the three operations on the maps; `StepIInv` has one
step for every action.

`KillNotLost` is about steps: a request goes from `lastUndeliveredWorkUpdate` to
the channel to the worker, and each handover must not overwrite another one.
`OnlyAdds` is what most steps do, and the handovers rest on the channel being
empty (`IInv`) and on `CurInv`, that a worker which receives has no update left.

### `SloLedgerProofs`, `SchedulerProofs`

Assumed: `Pods` and `Nodes` are finite (the sums are over them), `NoNode` and
`NoPod` are no nodes and pods, requests, capacities and `MaxUpsets` are natural
numbers.

`OneQueue` follows from the operations of the queue alone: each of them either
looks into all three queues or takes the pod out of where it puts it from
(`QueueOpsInv`, `MoveOneQueue`). `Confirmed` is not inductive: that nothing takes
an added pod away again rests on who may act on it. Its binding goroutine, still
under way, may call `ForgetPod` on the very pod that an event has confirmed, and
`scheduleOne` may assume it once more. The inductive invariant `IInv` adds

- `States`: a pod in the cache has a node;
- `Empties`: an item that is absent counts no pod, so that `RemoveNode` and a
  restart leave nothing behind;
- `CountedIn(podStates, nodes, lapsed)`: `Accounted`, as a formula of its three
  arguments, so that the lemmas can say of an operation what it does to the
  two maps whoever calls it (`CountPod`, `UncountPod`, `PodOpsCount`,
  `ForgetCounts`);
- `Hosts`: a pod that is not bound has no node, and a cycle about to assume has a
  host;
- `Told`: a pod is added only once its event has come, and events of bound pods
  come only for pods with a node.

The step is split by what it touches: `StepQueue`, `StepCache`, `StepRest` and
`StepTold`, each with one step per action.

*The snapshot* (`SchedulerSnapshotFresh`). `Sync`: what is not dirty is in the
snapshot as it is in the cache; `Marks`: an operation on pods marks what it
changes. That the list has the right nodes is an argument about numbers: if it
was not made anew and has as many entries as `nodeTree`, then it is `nodeTree`,
provided every item of the cache is in `nodeTree` (`SnapshotFacts`).

*The ledger* (`SchedulerKeepsLedger`). `LedgerInv` adds `Held` (a pod that was
bound holds its claim until its end was seen), `Calls` (a pod on its way to the
API server is assumed and cannot expire), `OnTree` (claims that count are on nodes
the snapshots show) and `Decided`: the host a cycle has chosen still has room when
the pod is assumed, since meanwhile no other pod is assumed and all else only
gives claims up (`StepClaims`, `FitsFewer`). Then every step of `Scheduler` is a
step of the ledger or leaves it alone (`LedgerStep`): assume is `Claim`, a binding
`Place`, expiry, a failed binding and a deletion event `Drop`, an event of a lapsed
pod `Reclaim`, the deletion of a node `Lose`, a restart drops all.

*No over-commitment* (`SchedulerNoOvercommit`) is not proved of the scheduler at
all, but of the ledger: `LedgerKept` (`Granted`, the claims that count fit;
`Backed`, what is placed holds its claim), read through the refinement.

*No lost wake-up* (`SchedulerParked`). `Stuck(p)`: p is in `unschedulableQ`, or a
goroutine will put it there, or the cycle that just failed will start such a
goroutine. `NoneMissed`: a pod that is stuck, and not `unwoken`, has no room, as
long as no handler has yet to move the pods. It is needed for pods that are only
on their way, because that is where a wake-up can be missed; and it is kept since
a move marks all of them (`Noted`, `MoveNotes`), a failed cycle has looked at the
present items of all nodes (`SnapshotFacts`), and a step that gives room either
lets a handler move all pods or notes who was not told (`Released`).

### What the proofs found

Three properties hold in the runs and not in general; the small instances do
not reach the states that refute them. Each time the exception is real, and the
history variable now records it.

- **A stale list and `NoOvercommit`.** If a node is deleted between `Schedule` and
  `Assume` of a pod, `AssumePod` makes an item without a `v1.Node`. From then on
  the cache has an item more than `nodeTree`, and the comparison
  `len(nodeInfoMap) > len(cache.nodes)` in `UpdateSnapshot` (`cache.go:254`)
  misses that another node has gone: the list keeps it, pods are assumed there,
  and when the node comes back their claims are not in the snapshot. With three
  pods, two nodes and three upsets a node is over-committed. `Assume` therefore
  counts a pod assumed on a node that is not in `nodeTree` as `lapsed`.
- **A stale list and `Parked`.** The same list may lack a node that has room, be
  of the right length, and let a cycle find no fit (four pods, two nodes, five
  upsets). `Schedule` counts that as a failure of another kind (`unwoken`).
- **A late failure and `Parked`.** A pod that is updated while it is being bound is
  in `activeQ` again; it can fail for lack of room before its binding fails. If
  pods are moved between the two failures and the next cycle has begun, the
  second one parks it although the move request was meant for it (three pods,
  one node, three upsets). `BindRecorded` counts such a pod as `unwoken`, as
  every other failure of a binding.
- **`UsedExact` and `rmmod`.** Ids are used again after the module was unloaded and
  loaded, and without the documented use a frame may be in flight across both:
  it is charged to the new vif of the old id. `ExitFree` records that two
  contexts met.

### Only model-checked

Liveness: `Converges`, `Saturates`, `ChargeIsTaken`, `PortOpsEnd`, `LatestSynced`,
`NotStarved`, `Forgotten`, and the violated `EventuallyConsistent`. The proof
system has no rules for fairness and ENABLED. The violations of section 5 are
TLC's counterexamples.

## 5. Where code and documentation disagree

- **No CPU limit** (`quota_unlimited`, `vif.c:43`). A group without a limit has
  the quota -1, which `io_control` takes for a number: below its goal such a
  container drops from all of a CPU to at most 10 ms in 100. README, line 140,
  says that the quota is increased; its example pod has no CPU limit.
- **rmmod** (`allocator_unload`, `vif.c:418`). `vif_exit` leaves the hooks set.
  README, lines 220-231, removes the module and goes on with the node; the next
  port or frame calls code that is not there.
- **Two pods at a time** (`agent_threads`, `necon.go:79`). The fields of the
  singleton are shared by all pod workers; one pod's SLO is written to the vif
  of the other. `pod_workers.go:126-127`: syncPodFn "has to be thread-safe".
- **A node that comes back** (`scheduler_rejoin`, `cache.go:639`). `RemoveNode`
  drops the pods counted on the node. If the node registers again before their
  deletion events come, `RemovePod` cannot subtract them and returns before it
  deletes the pod's entry; so do `ForgetPod` and `expirePod`. Lines 631-632 say
  that "these caches will be eventually consistent as pod deletion events
  arrive". If the binding of the pod fails in between, the pod is pending, counts
  as assumed for ever and is skipped by every scheduling cycle (`Stranded`, the
  exception of `NotStarved`).

Reachable in the models as well, without a run of its own:

- **1000 Mbps** (`necon.go:77`). `Atoi` of a quantity's canonical text `1k` is 0,
  which turns the control off (`Atoi`, the exception of `GoalSet`). README, lines
  146 and 213: the file holds the SLO, given in Mbps.
- **A second kill request** (`pod_workers.go:231`). It is ignored while one is
  undelivered, and a forgotten worker's is deleted (`Undelivered`,
  `RemoveWorkers`). `pod_workers.go:66-67` calls kill requests "always
  delivered".
- **A panic of the scheduler** (`node_info.go:558`). `NodeInfo.RemovePod` names the
  node in its error, and an item that stands for a deleted node has none: after
  a node with two pods is deleted, a late event or a new assumption makes such
  an item for one pod, and the next event of the other dereferences nil
  (`RemovePanics`). The process starts again with an empty cache; the properties
  of the two scheduler runs hold across it.

## 6. What is not modelled

- Reads of the proc files and the flag `fileread`, which decides what reads and
  writes return (planned); `pps`, `min_credit` in the kernel module's life cycle
  and `remaining_credit`, which nothing uses; `cpu_control`, commented out.
- Two `insmod`s with vifs of the first left behind (`vif_init`), and what happens
  to the memory of a fault: the model ends there.
- The bridge apart from the hooks and the order of the steps around them: STP,
  VLANs, forwarding, netpoll are Linux's.
- In the kubelet: volumes, images, probes, status updates, init containers and
  backoffs. A failure there is a sync that takes no further step. A pod has one
  container, the cgroup driver is cgroupfs. The `killPod` in `syncPod` itself
  (`kubelet.go:1618`), for a running pod whose cgroup somebody has removed.
  `NeconAgent` and `PodWorkers` are separate: in the former a pod that was killed
  or is gone does not come back under its uid.
- In the scheduler: resources other than the SLO and the number of pods allowed
  on a node, which the same comparison checks; zones and the order of nodes; the
  order within `activeQ`; priorities, and with them preemption and nominated
  pods; extenders, volumes, reserve and permit plugins, which DepCon's policy
  does not configure; pods with affinity, which the two `AssignedPod` operations
  would move; the informers of volumes, services and CSI nodes, which only ask
  for moves; a pod that is created anew under its name; the removal of a node by
  the error handler when the API server says it does not exist. A request to bind
  that is under way is lost with the process that sent it. The deadline of an
  assumed pod is half a minute away, so it does not fall between two adjacent
  calls of its binding goroutine.
- The score of the scheduler's policy: the model takes any node that fits. Its
  arithmetic (`requested_to_capacity_ratio.go`) is pure, and no property here
  depends on which node is best.
- Setup scripts, which have no state; the simulators and the CloudSim policies
  under `src/experiment`, which are offline; the rest of Kubernetes.

## 7. Plan

Done: the agent from the kubelet's workers down to the CFS quota
(`QuotaControl`, `QuotaLoop`, `QuotaPlant`, `CreditAllocator`, `NeconAgent`,
`PodWorkers`), the scheduler from the pod's creation to its binding
(`SchedulerCache`, `SchedulingQueue`, `Scheduler`), its refinement of
`SloLedger`, and proofs of every safety and action property that the runs check.
The order was by weight: the controller is the point of the system, the kernel
module its most fragile part, the kubelet agent the part with the most ways to
fail, and the scheduler decides which SLOs meet on a node.

Next, in this order:

1. `SloAssignment`, an abstract specification (each vif gets the SLO of its
   owner, once), with `NeconAgent` under sequential creation shown to implement
   it; the invariant `Aligned` is most of the argument.
2. The safety half of the liveness properties as theorems: that the walk of the
   timer comes closer to its end with every step, that a pod whose `known` version
   is not synced is in a channel, undelivered or in the work queue.
3. `QuotaPlant`: that the gain of a damped container is below 1, so that the
   distance to the goal does not grow.
4. `ProcFiles`: the `fileread` toggle with several readers and writers.
5. A composition of `PodWorkers` with `NeconAgent`, in which `syncPod` is the
   agent's sequence of steps.
