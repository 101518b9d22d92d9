--------------------------- MODULE CreditAllocator ---------------------------
(***************************************************************************)
(* The kernel side of the DepCon agent: the module Stella_con/vif.c and    *)
(* the three hooks fp_newvif, fp_delvif and fp_pay through which the       *)
(* bridge (br_if.c, br_input.c) calls it.                                  *)
(*                                                                         *)
(* Six kinds of contexts run at the same time, and vif.c takes no lock:    *)
(*   rtnl    adds and deletes bridge ports, one at a time (RTNL mutex)     *)
(*   rx      softirqs that charge a received frame to a vif (Cpus)         *)
(*   timer   the walk of quota_control over active_vif_list, once a second *)
(*   user    writers of the files under /proc/oslab (Users)                *)
(*   loader  insmod                                                        *)
(*   exit    rmmod, which deletes the vifs one by one                      *)
(* An operation is split wherever another context can see the difference.  *)
(*                                                                         *)
(* An access to memory or code that is not there is recorded in fault and  *)
(* halts the system.  Vifs are identified by their id; list_add puts a new *)
(* vif at the head of the list and ids grow, so active_vif_list is the set *)
(* active in descending order.  Left out: pps, min_credit (the file perf)  *)
(* and remaining_credit (the file resource_type), which the module stores  *)
(* and never uses, the messages, and the return values of the proc files.  *)
(***************************************************************************)
EXTENDS QuotaControl, FiniteSets, FiniteSetsExt

CONSTANTS Ports,       \* network devices that may be put on the bridge
          SystemPorts, \* those on the bridge before the module is first loaded
          Cpus,        \* contexts that receive frames
          Users,       \* processes that write weights
          Tasks,       \* processes a pid may name (positive numbers)
          Weights, Goals, Lens,   \* values written and lengths of frames
          StartQuotas, \* quota of a task group before the module touches it
          ProcSlots,   \* the size of proc_vif[] (64)
          MaxVifs,     \* bound: vifs created in one load of the module
          MaxUsed,     \* bound: bytes charged to a vif in one period
          MaxLoads,    \* bound: how often the module is loaded
          Documented,  \* insmod and rmmod only while no other container exists
          AddMayFail   \* br_add_if may fail after it called new_nbp

ASSUME AllocatorAssumption ==
    /\ SystemPorts \subseteq Ports
    /\ Tasks \subseteq Nat \ {0}
    /\ Weights \subseteq Unsigned
    /\ Goals \subseteq {0} \cup 2 .. (Word \div 8) - 1
    /\ Lens \subseteq Unsigned
    /\ StartQuotas \subseteq {NoLimit} \cup Quotas
    /\ MaxVifs \in Nat /\ ProcSlots \in Nat /\ MaxUsed \in Unsigned /\ MaxLoads \in Nat
    /\ Documented \in BOOLEAN /\ AddMayFail \in BOOLEAN

VARIABLES
    module,    \* "absent", "loading", "loaded", "failed", "unloading" or "gone"
    loads,     \* number of insmods so far
    vifCnt,    \* the next id
    vif,       \* struct ancs_container, by id
    live,      \* ids whose memory is allocated
    active,    \* ids on active_vif_list
    procs,     \* ids with files under /proc/oslab that can be opened
    total,     \* CA->total_weight
    numVif,    \* CA->num_vif
    attached,  \* ports whose rx_handler is br_handle_frame
    pvif,      \* p->vif of every port, 0 for NULL
    rtnl,      \* the operation of the RTNL holder
    rx,        \* the frame each cpu is charging
    user,      \* the weight write of each process
    timer,     \* control_timer and the walk of its callback
    exit,      \* the walk of vif_exit
    quota,     \* cfs quota of the task group of every task
    fault,     \* "none" or what went wrong
    due, owed, races   \* history: see below

loader == <<module, loads, vifCnt>>
memory == <<vif, live, active, procs>>
CA == <<total, numVif>>
bridge == <<attached, pvif>>
contexts == <<rtnl, rx, user, timer, exit>>

code == <<loader, memory, CA, bridge, contexts, quota>>

(***************************************************************************)
(* History variables, which no action reads:                               *)
(*   due    vifs on the list since the walk began that it has not visited  *)
(*   owed   bytes received through a vif since the timer last reset it     *)
(*   races  the kinds of overlap that have happened                        *)
(***************************************************************************)
history == <<due, owed, races>>

vars == <<code, fault, history>>

VifIds == 1 .. MaxVifs

Faults == {"none", "null_vif", "null_task", "no_ca", "stale_text", "freed_ca", "freed_port",
           "freed_vif_timer", "freed_vif_rx", "freed_vif_rtnl", "freed_vif_exit",
           "proc_overflow"}

Overlaps == {"weight", "unlinked", "rx", "walk", "pid", "unload", "add_failed"}

\* vif->p of a vif whose bridge port was freed
FreedPort == "freed"

ASSUME FreedPortAssumption == FreedPort \notin Ports

NoRtnl == [op |-> "idle", port |-> FreedPort, id |-> 0, sum |-> 0, pfreed |-> FALSE]
NoRx == [op |-> "idle", port |-> FreedPort, id |-> 0, len |-> 0, sum |-> 0]
NoUser == [op |-> "idle", id |-> 0, value |-> 0, sum |-> 0]
NoTimer == [st |-> "off", cur |-> 0, nxt |-> 0, goal |-> 0, perf |-> 0, after |-> 0]
NoExit == [op |-> "idle", cur |-> 0, nxt |-> 0, sum |-> 0]

\* mutant: vif->p is not set
NewRecordNoPort(p) == [port |-> FreedPort, weight |-> 1, goal |-> 0, task |-> 0, used |-> 0]

NewRecord(p) == [port |-> p, weight |-> 1, goal |-> 0, task |-> 0, used |-> 0]

(***************************************************************************)
(* The kernel oopses: the step stops at the bad access.                    *)
(***************************************************************************)
Oops(kind) ==
    /\ fault' = kind
    /\ UNCHANGED <<code, history>>

\* the kernel runs
Up == fault = "none"

\* the function pointers, set by the first insmod and never cleared
HooksSet == module # "absent"

\* vif_init is through and vif_exit has not freed CA
HasCA == module \in {"loaded", "unloading"}

\* insmod failed or rmmod is through: the code the hooks point to is not there
TextGone == module \in {"failed", "gone"}

\* mutant: the walk goes by id instead of by list
NextOnById(list, i) == IF i > 1 THEN i - 1 ELSE 0

\* mutant: the walk ends after the first vif
NextOnNone(list, i) == 0

\* the successor of i on the list; 0 is the list head
NextOn(list, i) ==
    IF \E j \in list : j < i
    THEN CHOOSE j \in list : j < i /\ \A k \in list : k < i => k <= j
    ELSE 0

FirstOn(list) ==
    IF list = {} THEN 0 ELSE CHOOSE j \in list : \A k \in list : k <= j

\* a context is between its load and its store of CA->total_weight
WeightBusy ==
    \/ rtnl.op \in {"account", "unaccount"}
    \/ exit.op = "unaccount"
    \/ \E u \in Users : user[u].op # "idle"

Race(kind, cond) == IF cond THEN {kind} ELSE {}

WeightRace == Race("weight", WeightBusy)

\* the RTNL holder is in new_vif or del_vif
InVif == rtnl.op \in {"account", "files", "unaccount", "unproc", "free"}

\* the walk of quota_control is on vif i or has it for its next
OnWalk(i) == timer.st \in {"walk", "get", "set", "reset"} /\ i \in {timer.cur, timer.nxt}

Init ==
    /\ module = "absent" /\ loads = 0 /\ vifCnt = 0
    /\ vif = [i \in VifIds |-> NewRecord(FreedPort)]
    /\ live = {} /\ active = {} /\ procs = {}
    /\ total = 0 /\ numVif = 0
    /\ attached = SystemPorts
    /\ pvif = [p \in Ports |-> 0]
    /\ rtnl = NoRtnl
    /\ rx = [c \in Cpus |-> NoRx]
    /\ user = [u \in Users |-> NoUser]
    /\ timer = NoTimer
    /\ exit = NoExit
    /\ quota \in [Tasks -> StartQuotas]
    /\ fault = "none"
    /\ due = {} /\ owed = [i \in VifIds |-> 0] /\ races = {}

-----------------------------------------------------------------------------
(* rtnl: br_add_if and br_del_if *)

(***************************************************************************)
(* br_add_if calls new_nbp, which calls fp_newvif as soon as the port is   *)
(* allocated.  new_vif allocates the vif, links it and loads total_weight. *)
(* With no module the port is set up without a vif.  RTNL does not keep    *)
(* rmmod away.                                                             *)
(***************************************************************************)
NewPort(p) ==
    /\ Up /\ rtnl.op = "idle"
    /\ p \notin attached
    /\ ~ HooksSet
    /\ rtnl' = [NoRtnl EXCEPT !.op = "attach", !.port = p]
    /\ UNCHANGED <<loader, memory, CA, bridge, rx, user, timer, exit, quota, fault, history>>

new_vif(p) ==
    /\ Up /\ rtnl.op = "idle"
    /\ p \notin attached
    /\ HooksSet
    /\ Documented => module \notin {"loading", "unloading"}
    /\ \/ TextGone /\ Oops("stale_text")
       \/ module = "loading" /\ Oops("no_ca")
       \/ /\ HasCA
          /\ vifCnt <= MaxVifs
          /\ vifCnt' = vifCnt + 1
          /\ vif' = [vif EXCEPT ![vifCnt] = NewRecord(p)]
          /\ live' = live \cup {vifCnt}
          /\ active' = active \cup {vifCnt}
          /\ pvif' = [pvif EXCEPT ![p] = vifCnt]
          /\ rtnl' = [NoRtnl EXCEPT !.op = "account", !.port = p, !.id = vifCnt,
                                    !.sum = U(total + 1)]
          /\ races' = races \cup WeightRace \cup Race("unload", module = "unloading")
          /\ owed' = [owed EXCEPT ![vifCnt] = 0]
          /\ UNCHANGED <<module, loads, procs, CA, attached, rx, user, timer, exit, quota,
                         fault, due>>

\* new_vif stores the sum and counts the vif
NewVifAccount ==
    /\ Up /\ rtnl.op = "account"
    /\ total' = rtnl.sum
    /\ numVif' = numVif + 1
    /\ rtnl' = [rtnl EXCEPT !.op = "files", !.sum = 0]
    /\ UNCHANGED <<loader, memory, bridge, rx, user, timer, exit, quota, fault, history>>

\* ... and creates its proc files, whose entries it keeps in an array it does
\* not check the size of
NewVifFiles ==
    /\ Up /\ rtnl.op = "files"
    /\ \/ rtnl.id \notin live /\ Oops("freed_vif_rtnl")
       \/ rtnl.id \in live /\ rtnl.id >= ProcSlots /\ Oops("proc_overflow")
       \/ /\ rtnl.id \in live /\ rtnl.id < ProcSlots
          /\ procs' = procs \cup {rtnl.id}
          /\ rtnl' = [rtnl EXCEPT !.op = "attach"]
          /\ UNCHANGED <<loader, vif, live, active, CA, bridge, rx, user, timer, exit, quota,
                         fault, history>>

\* br_add_if registers the rx_handler: frames of the port reach br_handle_frame
AttachPort ==
    /\ Up /\ rtnl.op = "attach"
    /\ attached' = attached \cup {rtnl.port}
    /\ rtnl' = [rtnl EXCEPT !.op = "link"]
    /\ UNCHANGED <<loader, memory, CA, pvif, rx, user, timer, exit, quota, fault, history>>

\* the rest of br_add_if succeeds ...
LinkPort ==
    /\ Up /\ rtnl.op = "link"
    /\ rtnl' = NoRtnl
    /\ UNCHANGED <<loader, memory, CA, bridge, rx, user, timer, exit, quota, fault, history>>

\* ... or does not, and the rx_handler is unregistered
LinkFails ==
    /\ Up /\ AddMayFail
    /\ rtnl.op = "link"
    /\ attached' = attached \ {rtnl.port}
    /\ rtnl' = [rtnl EXCEPT !.op = "undo"]
    /\ UNCHANGED <<loader, memory, CA, pvif, rx, user, timer, exit, quota, fault, history>>

\* no frame of the port is in flight: synchronize_net has returned
Quiesced(p) == \A c \in Cpus : rx[c].port # p

\* an error path of new_nbp or br_add_if frees the port and never calls fp_delvif
AddPortFails ==
    /\ Up /\ AddMayFail
    /\ rtnl.op = "attach" \/ (rtnl.op = "undo" /\ Quiesced(rtnl.port))
    /\ vif' = [i \in VifIds |-> IF i = rtnl.id THEN [vif[i] EXCEPT !.port = FreedPort]
                                               ELSE vif[i]]
    /\ pvif' = [pvif EXCEPT ![rtnl.port] = 0]
    /\ rtnl' = NoRtnl
    /\ races' = races \cup {"add_failed"}
    /\ UNCHANGED <<loader, live, active, procs, CA, attached, rx, user, timer, exit, quota,
                   fault, due, owed>>

\* mutant: the handler stays registered until the port is freed
DelPortKeepsHandler(p) ==
    /\ Up /\ rtnl.op = "idle"
    /\ p \in attached
    /\ rtnl' = [NoRtnl EXCEPT !.op = "quiesce", !.port = p, !.id = pvif[p]]
    /\ UNCHANGED <<loader, memory, CA, bridge, rx, user, timer, exit, quota, fault, history>>

\* del_nbp up to netdev_rx_handler_unregister: no new frame sees the port
DelPort(p) ==
    /\ Up /\ rtnl.op = "idle"
    /\ p \in attached
    /\ attached' = attached \ {p}
    /\ rtnl' = [NoRtnl EXCEPT !.op = "quiesce", !.port = p, !.id = pvif[p]]
    /\ UNCHANGED <<loader, memory, CA, pvif, rx, user, timer, exit, quota, fault, history>>

\* without the module del_nbp ends here
DelPortPlain ==
    /\ Up /\ rtnl.op = "quiesce"
    /\ Quiesced(rtnl.port)
    /\ ~ HooksSet
    /\ rtnl' = NoRtnl
    /\ UNCHANGED <<loader, memory, CA, bridge, rx, user, timer, exit, quota, fault, history>>

(***************************************************************************)
(* The hook of del_nbp: it prints p->vif->id and calls del_vif, which      *)
(* unlinks the vif and loads its weight and total_weight.  A vif that      *)
(* vif_exit has unlinked is not on a list.  (That p->vif becomes NULL      *)
(* between the hook's use and del_vif's test of it is the same fault.)     *)
(***************************************************************************)
del_vif ==
    /\ Up /\ rtnl.op = "quiesce"
    /\ Quiesced(rtnl.port)
    /\ HooksSet
    /\ Documented => module \notin {"loading", "unloading"}
    /\ \/ pvif[rtnl.port] = 0 /\ Oops("null_vif")
       \/ pvif[rtnl.port] # 0 /\ TextGone /\ Oops("stale_text")
       \/ pvif[rtnl.port] # 0 /\ HasCA /\ rtnl.id \notin active /\ Oops("freed_vif_rtnl")
       \/ /\ pvif[rtnl.port] # 0 /\ HasCA
          /\ rtnl.id \in active
          /\ active' = active \ {rtnl.id}
          /\ rtnl' = [rtnl EXCEPT !.op = "unaccount",
                                  !.sum = U(total - vif[rtnl.id].weight)]
          /\ due' = due \ {rtnl.id}
          /\ races' = races \cup WeightRace \cup Race("walk", OnWalk(rtnl.id))
                           \cup Race("unload", module = "unloading")
          /\ UNCHANGED <<loader, vif, live, procs, CA, bridge, rx, user, timer, exit, quota,
                         fault, owed>>

(***************************************************************************)
(* del_nbp queued destroy_nbp_rcu before it called the hook, so the port   *)
(* may be freed while del_vif still reads p->vif.                          *)
(***************************************************************************)
RcuFreesPort ==
    /\ Up /\ rtnl.op \in {"unaccount", "unproc", "free"}
    /\ ~ rtnl.pfreed
    /\ rtnl' = [rtnl EXCEPT !.pfreed = TRUE]
    /\ UNCHANGED <<loader, memory, CA, bridge, rx, user, timer, exit, quota, fault, history>>

\* mutant: num_vif is not decremented
DelVifAccountKeepsCount ==
    /\ Up /\ rtnl.op = "unaccount"
    /\ ~ rtnl.pfreed
    /\ total' = rtnl.sum
    /\ rtnl' = [rtnl EXCEPT !.op = "unproc", !.sum = 0]
    /\ UNCHANGED <<loader, memory, numVif, bridge, rx, user, timer, exit, quota, fault, history>>

\* del_vif stores the sum and uncounts the vif
DelVifAccount ==
    /\ Up /\ rtnl.op = "unaccount"
    /\ \/ rtnl.pfreed /\ Oops("freed_port")
       \/ /\ ~ rtnl.pfreed
          /\ total' = rtnl.sum
          /\ numVif' = numVif - 1
          /\ rtnl' = [rtnl EXCEPT !.op = "unproc", !.sum = 0]
          /\ UNCHANGED <<loader, memory, bridge, rx, user, timer, exit, quota, fault, history>>

\* mutant: the files are not removed
DelVifProcForgets ==
    /\ Up /\ rtnl.op = "unproc"
    /\ ~ rtnl.pfreed
    /\ rtnl' = [rtnl EXCEPT !.op = "free"]
    /\ UNCHANGED <<loader, memory, CA, bridge, rx, user, timer, exit, quota, fault, history>>

\* remove_proc_entry: no process can start an operation on the files any more
DelVifProc ==
    /\ Up /\ rtnl.op = "unproc"
    /\ \/ rtnl.pfreed /\ Oops("freed_port")
       \/ /\ ~ rtnl.pfreed
          /\ procs' = procs \ {rtnl.id}
          /\ rtnl' = [rtnl EXCEPT !.op = "free"]
          /\ UNCHANGED <<loader, vif, live, active, CA, bridge, rx, user, timer, exit, quota,
                         fault, history>>

\* remove_proc_entry has waited for the operations in flight
NoUserOf(i) == \A u \in Users : user[u].id # i

\* mutant: the vif is not freed
DelVifFreeLeaks ==
    /\ Up /\ rtnl.op = "free"
    /\ NoUserOf(rtnl.id)
    /\ ~ rtnl.pfreed
    /\ pvif' = [pvif EXCEPT ![rtnl.port] = 0]
    /\ rtnl' = NoRtnl
    /\ UNCHANGED <<loader, memory, CA, attached, rx, user, timer, exit, quota, fault, history>>

\* del_vif frees the vif
DelVifFree ==
    /\ Up /\ rtnl.op = "free"
    /\ NoUserOf(rtnl.id)
    /\ \/ rtnl.pfreed /\ Oops("freed_port")
       \/ /\ ~ rtnl.pfreed
          /\ live' = live \ {rtnl.id}
          /\ vif' = [vif EXCEPT ![rtnl.id] = NewRecord(FreedPort)]
          /\ pvif' = [pvif EXCEPT ![rtnl.port] = 0]
          /\ rtnl' = NoRtnl
          /\ UNCHANGED <<loader, active, procs, CA, attached, rx, user, timer, exit, quota,
                         fault, history>>

-----------------------------------------------------------------------------
(* rx: br_handle_frame and pay_credit *)

\* mutant: frames are counted, not bytes
ChargedFrames(i, len) == U(vif[i].used + 1)

\* used_credit with the length of a frame added
Charged(i, len) == U(vif[i].used + len)

(***************************************************************************)
(* br_handle_frame calls fp_pay(p->vif, skb) without testing p->vif.       *)
(* pay_credit loads used_credit here and stores the sum in RxStore.        *)
(***************************************************************************)
pay_credit(c, p, len) ==
    /\ Up /\ rx[c].op = "idle"
    /\ p \in attached
    /\ HooksSet
    /\ \/ TextGone /\ Oops("stale_text")
       \/ ~ TextGone /\ pvif[p] = 0 /\ Oops("null_vif")
       \/ /\ ~ TextGone /\ pvif[p] # 0
          /\ vif[pvif[p]].used + len <= MaxUsed
          /\ rx' = [rx EXCEPT ![c] = [op |-> "pay", port |-> p, id |-> pvif[p], len |-> len,
                                      sum |-> Charged(pvif[p], len)]]
          /\ races' = races \cup Race("rx", \E d \in Cpus : rx[d].id = pvif[p])
          /\ UNCHANGED <<loader, memory, CA, bridge, rtnl, user, timer, exit, quota, fault,
                         due, owed>>

RxStore(c) ==
    /\ Up /\ rx[c].op = "pay"
    /\ \/ rx[c].id \notin live /\ Oops("freed_vif_rx")
       \/ /\ rx[c].id \in live
          /\ vif' = [vif EXCEPT ![rx[c].id].used = rx[c].sum]
          /\ owed' = [owed EXCEPT ![rx[c].id] = @ + rx[c].len]
          /\ rx' = [rx EXCEPT ![c] = NoRx]
          /\ UNCHANGED <<loader, live, active, procs, CA, bridge, rtnl, user, timer, exit,
                         quota, fault, due, races>>

-----------------------------------------------------------------------------
(* user: vif_write *)

\* the file "goal"
WriteGoal(i, g) ==
    /\ Up /\ i \in procs
    /\ vif' = [vif EXCEPT ![i].goal = g]
    /\ UNCHANGED <<loader, live, active, procs, CA, bridge, contexts, quota, fault,
                   history>>

\* the file "pid": get_pid_task answers NULL (0) when there is no such process
WritePid(i, t) ==
    /\ Up /\ i \in procs
    /\ vif' = [vif EXCEPT ![i].task = t]
    /\ races' = races \cup Race("pid", timer.st \in {"get", "set"} /\ timer.cur = i)
    /\ UNCHANGED <<loader, live, active, procs, CA, bridge, contexts, quota, fault, due,
                   owed>>

\* mutant: the old weight is forgotten
WeightChangeAdds(i, value) == value

WeightChange(i, value) == value - vif[i].weight

\* the file "weight": value - vif->weight is added to total_weight ...
WriteWeight(u, i, value) ==
    /\ Up /\ user[u].op = "idle"
    /\ i \in procs
    /\ user' = [user EXCEPT ![u] = [op |-> "sum", id |-> i, value |-> value,
                                    sum |-> U(total + WeightChange(i, value))]]
    /\ races' = races \cup WeightRace \cup Race("unlinked", i \notin active)
    /\ UNCHANGED <<loader, memory, CA, bridge, rtnl, rx, timer, exit, quota, fault, due,
                   owed>>

\* ... the sum is stored ...
WriteWeightSum(u) ==
    /\ Up /\ user[u].op = "sum"
    /\ total' = user[u].sum
    /\ user' = [user EXCEPT ![u].op = "set", ![u].sum = 0]
    /\ UNCHANGED <<loader, memory, numVif, bridge, rtnl, rx, timer, exit, quota, fault,
                   history>>

\* ... and then the weight
WriteWeightSet(u) ==
    /\ Up /\ user[u].op = "set"
    /\ vif' = [vif EXCEPT ![user[u].id].weight = user[u].value]
    /\ user' = [user EXCEPT ![u] = NoUser]
    /\ UNCHANGED <<loader, live, active, procs, CA, bridge, rtnl, rx, timer, exit, quota,
                   fault, history>>

-----------------------------------------------------------------------------
(* timer: quota_control *)

\* the loop takes the vif i, and the one after it
Visit(i) == timer' = [NoTimer EXCEPT !.st = "walk", !.cur = i, !.nxt = NextOn(active, i)]

\* mutant: the timer is not set again when the list is empty
TimerFiresUnlessEmpty ==
    /\ Up /\ timer.st = "armed"
    /\ IF active = {} THEN timer' = [timer EXCEPT !.st = "off"] ELSE Visit(FirstOn(active))
    /\ due' = active
    /\ UNCHANGED <<loader, memory, CA, bridge, rtnl, rx, user, exit, quota, fault, owed, races>>

\* the timer expires and list_for_each_entry_safe takes the first two vifs
TimerFires ==
    /\ Up /\ timer.st = "armed"
    /\ Visit(FirstOn(active))
    /\ due' = active
    /\ UNCHANGED <<loader, memory, CA, bridge, rtnl, rx, user, exit, quota, fault, owed, races>>

\* what the walk does with a vif fails when the vif is freed
WalkMeetsFreed == timer.cur \notin live /\ Oops("freed_vif_timer")

\* One round of the loop: with a task, io_control runs to its early return.
quota_control ==
    /\ Up /\ timer.st = "walk"
    /\ timer.cur # 0
    /\ \/ WalkMeetsFreed
       \/ /\ timer.cur \in live
          /\ LET i    == timer.cur
                 perf == Perf(vif[i].used)
             IN  timer' = IF vif[i].task # 0 /\ Regulates(vif[i].goal, perf)
                          THEN [timer EXCEPT !.st = "get", !.goal = vif[i].goal, !.perf = perf]
                          ELSE [timer EXCEPT !.st = "reset"]
          /\ UNCHANGED <<loader, memory, CA, bridge, rtnl, rx, user, exit, quota, fault,
                         history>>

\* tg_get_cfs_quota of the task that ts names now, and the computation ...
GetQuota ==
    /\ Up /\ timer.st = "get"
    /\ \/ WalkMeetsFreed
       \/ timer.cur \in live /\ vif[timer.cur].task = 0 /\ Oops("null_task")
       \/ /\ timer.cur \in live /\ vif[timer.cur].task # 0
          /\ timer' = [timer EXCEPT !.st = "set", !.goal = 0, !.perf = 0,
                          !.after = NextQuota(timer.goal, timer.perf,
                                              quota[vif[timer.cur].task])]
          /\ UNCHANGED <<loader, memory, CA, bridge, rtnl, rx, user, exit, quota, fault,
                         history>>

\* ... and tg_set_cfs_quota of the task it names then
SetQuota ==
    /\ Up /\ timer.st = "set"
    /\ \/ WalkMeetsFreed
       \/ timer.cur \in live /\ vif[timer.cur].task = 0 /\ Oops("null_task")
       \/ /\ timer.cur \in live /\ vif[timer.cur].task # 0
          /\ quota' = [quota EXCEPT ![vif[timer.cur].task] = timer.after]
          /\ timer' = [timer EXCEPT !.st = "reset", !.after = 0]
          /\ UNCHANGED <<loader, memory, CA, bridge, rtnl, rx, user, exit, fault, history>>

\* The round ends with the reset of the counters and the advance, which reads
\* nxt->next.
ResetCredit ==
    /\ Up /\ timer.st = "reset"
    /\ \/ WalkMeetsFreed
       \/ timer.nxt # 0 /\ timer.nxt \notin active /\ Oops("freed_vif_timer")
       \/ /\ timer.cur \in live
          /\ timer.nxt # 0 => timer.nxt \in active
          /\ vif' = [vif EXCEPT ![timer.cur].used = 0]
          /\ owed' = [owed EXCEPT ![timer.cur] = 0]
          /\ due' = due \ {timer.cur}
          /\ races' = races \cup Race("rx", \E c \in Cpus : rx[c].id = timer.cur)
          /\ Visit(timer.nxt)
          /\ UNCHANGED <<loader, live, active, procs, CA, bridge, rtnl, rx, user, exit, quota,
                         fault>>

\* mod_timer on the timer in CA
TimerRearms ==
    /\ Up /\ timer.st = "walk"
    /\ timer.cur = 0
    /\ \/ TextGone /\ Oops("freed_ca")
       \/ /\ ~ TextGone
          /\ timer' = [NoTimer EXCEPT !.st = "armed"]
          /\ UNCHANGED <<loader, memory, CA, bridge, rtnl, rx, user, exit, quota, fault,
                         history>>

-----------------------------------------------------------------------------
(* loader: insmod *)

\* README: no container but Kubernetes' own exists when the module comes and goes
Admitted == Documented => rtnl.op = "idle" /\ attached \subseteq SystemPorts

\* vif_init resets the id counter and sets the hooks before it allocates CA.
\* Bound: a vif that an earlier load has left behind ends the modelling.
vif_init ==
    /\ Up /\ module \in {"absent", "failed", "gone"}
    /\ loads < MaxLoads
    /\ timer.st = "off" /\ live = {}
    /\ Admitted
    /\ module' = "loading"
    /\ loads' = loads + 1
    /\ vifCnt' = 1
    /\ UNCHANGED <<memory, CA, bridge, contexts, quota, fault, history>>

\* ... CA, /proc/oslab and the timer
InitAllocator ==
    /\ Up /\ module = "loading"
    /\ module' = "loaded"
    /\ total' = 0
    /\ numVif' = 0
    /\ timer' = [timer EXCEPT !.st = "armed"]
    /\ UNCHANGED <<loads, vifCnt, memory, bridge, rtnl, rx, user, exit, quota, fault, history>>

\* kmalloc fails: insmod fails with -ENOMEM and the hooks stay set
InitFails ==
    /\ Up /\ module = "loading"
    /\ module' = "failed"
    /\ UNCHANGED <<loads, vifCnt, memory, CA, bridge, contexts, quota, fault, history>>

-----------------------------------------------------------------------------
(* exit: rmmod *)

(***************************************************************************)
(* vif_exit walks over the list and calls del_vif(vif->p) for every vif.   *)
(* It takes no lock: new_vif and del_vif of the RTNL holder, writers, cpus *)
(* and the timer go on.                                                    *)
(***************************************************************************)
vif_exit ==
    /\ Up /\ module = "loaded"
    /\ Admitted
    /\ module' = "unloading"
    /\ exit' = [NoExit EXCEPT !.op = "walk", !.cur = FirstOn(active),
                              !.nxt = NextOn(active, FirstOn(active))]
    /\ races' = races \cup Race("unload", InVif)
    /\ UNCHANGED <<loads, vifCnt, memory, CA, bridge, rtnl, rx, user, timer, quota, fault,
                   due, owed>>

\* the port of the vif vif_exit is on was freed
ExitMeetsFreed == vif[exit.cur].port = FreedPort /\ Oops("freed_port")

\* its del_vif unlinks the vif, which may have been unlinked meanwhile ...
ExitDelVif ==
    /\ Up /\ exit.op = "walk"
    /\ exit.cur # 0
    /\ \/ exit.cur \notin active /\ Oops("freed_vif_exit")
       \/ exit.cur \in active /\ ExitMeetsFreed
       \/ /\ exit.cur \in active /\ vif[exit.cur].port # FreedPort
          /\ active' = active \ {exit.cur}
          /\ exit' = [exit EXCEPT !.op = "unaccount", !.sum = U(total - vif[exit.cur].weight)]
          /\ due' = due \ {exit.cur}
          /\ races' = races \cup WeightRace \cup Race("walk", OnWalk(exit.cur))
          /\ UNCHANGED <<loader, vif, live, procs, CA, bridge, rtnl, rx, user, timer, quota,
                         fault, owed>>

\* ... stores the sum and uncounts it ...
ExitAccount ==
    /\ Up /\ exit.op = "unaccount"
    /\ \/ ExitMeetsFreed
       \/ /\ vif[exit.cur].port # FreedPort
          /\ total' = exit.sum
          /\ numVif' = numVif - 1
          /\ exit' = [exit EXCEPT !.op = "unproc", !.sum = 0]
          /\ UNCHANGED <<loader, memory, bridge, rtnl, rx, user, timer, quota, fault, history>>

\* ... removes its files ...
ExitUnproc ==
    /\ Up /\ exit.op = "unproc"
    /\ \/ ExitMeetsFreed
       \/ /\ vif[exit.cur].port # FreedPort
          /\ procs' = procs \ {exit.cur}
          /\ exit' = [exit EXCEPT !.op = "free"]
          /\ UNCHANGED <<loader, vif, live, active, CA, bridge, rtnl, rx, user, timer, quota,
                         fault, history>>

\* mutant: list_for_each_entry, which asks the vif just freed for its next
ExitFreeUnsafe ==
    /\ Up /\ exit.op = "free"
    /\ NoUserOf(exit.cur)
    /\ Oops("freed_vif_exit")

\* ... and frees it; the walk goes on to what it had for the next
ExitFree ==
    /\ Up /\ exit.op = "free"
    /\ NoUserOf(exit.cur)
    /\ \/ ExitMeetsFreed
       \/ /\ vif[exit.cur].port # FreedPort
          /\ live' = live \ {exit.cur}
          /\ vif' = [vif EXCEPT ![exit.cur] = NewRecord(FreedPort)]
          /\ pvif' = [p \in Ports |-> IF pvif[p] = exit.cur THEN 0 ELSE pvif[p]]
          /\ exit' = [NoExit EXCEPT !.op = "walk", !.cur = exit.nxt,
                                    !.nxt = NextOn(active, exit.nxt)]
          /\ races' = races \cup Race("rx", \E c \in Cpus : rx[c].id = exit.cur)
          /\ UNCHANGED <<loader, active, procs, CA, attached, rtnl, rx, user, timer, quota,
                         fault, due, owed>>

(***************************************************************************)
(* The walk is over: /proc/oslab goes, the timer is deleted without        *)
(* waiting for a callback that runs, and CA and the code are freed, which  *)
(* waits for softirqs only.                                                *)
(***************************************************************************)
ExitDone ==
    /\ Up /\ exit.op = "walk"
    /\ exit.cur = 0
    /\ LET entered == InVif \/ \E u \in Users : user[u].op # "idle"
       IN  \/ entered /\ Oops("stale_text")
           \/ /\ ~ entered
              /\ module' = "gone"
              /\ procs' = {}
              /\ total' = 0
              /\ numVif' = 0
              /\ timer' = IF timer.st = "armed" THEN NoTimer ELSE timer
              /\ exit' = NoExit
              /\ UNCHANGED <<loads, vifCnt, vif, live, active, bridge, rtnl, rx, user, quota,
                             fault, history>>

-----------------------------------------------------------------------------
\* after an oops nothing runs
Halted == ~ Up /\ UNCHANGED vars

RtnlStep ==
    \/ NewVifAccount \/ NewVifFiles \/ AttachPort \/ LinkPort \/ LinkFails \/ AddPortFails
    \/ DelPortPlain \/ del_vif \/ DelVifAccount \/ DelVifProc \/ DelVifFree

TimerStep ==
    TimerFires \/ quota_control \/ GetQuota \/ SetQuota \/ ResetCredit \/ TimerRearms

ExitStep == ExitDelVif \/ ExitAccount \/ ExitUnproc \/ ExitFree \/ ExitDone

UserStep(u) == WriteWeightSum(u) \/ WriteWeightSet(u)

Next ==
    \/ \E p \in Ports : NewPort(p) \/ new_vif(p) \/ DelPort(p)
    \/ RtnlStep \/ RcuFreesPort
    \/ \E c \in Cpus : RxStore(c) \/ \E p \in Ports, len \in Lens : pay_credit(c, p, len)
    \/ \E i \in VifIds : \/ \E g \in Goals : WriteGoal(i, g)
                         \/ \E t \in Tasks \cup {0} : WritePid(i, t)
    \/ \E u \in Users : UserStep(u) \/ \E i \in VifIds, w \in Weights : WriteWeight(u, i, w)
    \/ TimerStep
    \/ vif_init \/ InitAllocator \/ InitFails \/ vif_exit \/ ExitStep
    \/ Halted

Spec == Init /\ [][Next]_vars

(***************************************************************************)
(* Whoever has begun goes on: a softirq and the timer run when they are    *)
(* due, a system call returns, the RTNL holder and rmmod finish.  Nothing  *)
(* says that ports come and go, that frames arrive or that files are       *)
(* written.                                                                *)
(***************************************************************************)
Fairness ==
    /\ WF_vars(TimerStep)
    /\ WF_vars(RtnlStep)
    /\ WF_vars(ExitStep)
    /\ \A c \in Cpus : WF_vars(RxStore(c))
    /\ \A u \in Users : WF_vars(UserStep(u))

FairSpec == Spec /\ Fairness

-----------------------------------------------------------------------------
\* Type invariant.
TypeOK ==
    /\ module \in {"absent", "loading", "loaded", "failed", "unloading", "gone"}
    /\ loads \in 0 .. MaxLoads
    /\ vifCnt \in 0 .. MaxVifs + 1
    /\ vif \in [VifIds -> [port : Ports \cup {FreedPort}, weight : Unsigned, goal : Unsigned,
                           task : Tasks \cup {0}, used : Unsigned]]
    /\ live \subseteq VifIds /\ active \subseteq VifIds /\ procs \subseteq VifIds
    /\ total \in Unsigned /\ numVif \in Int
    /\ attached \subseteq Ports
    /\ pvif \in [Ports -> VifIds \cup {0}]
    /\ rtnl \in [op : {"idle", "account", "files", "attach", "link", "undo",
                        "quiesce", "unaccount", "unproc", "free"},
                 port : Ports \cup {FreedPort}, id : VifIds \cup {0}, sum : Unsigned,
                 pfreed : BOOLEAN]
    /\ rx \in [Cpus -> [op : {"idle", "pay"}, port : Ports \cup {FreedPort},
                        id : VifIds \cup {0}, len : Unsigned, sum : Unsigned]]
    /\ user \in [Users -> [op : {"idle", "sum", "set"}, id : VifIds \cup {0},
                           value : Unsigned, sum : Unsigned]]
    /\ timer \in [st : {"off", "armed", "walk", "get", "set", "reset"},
                   cur : VifIds \cup {0}, nxt : VifIds \cup {0},
                   goal : Unsigned, perf : Nat, after : Quotas \cup {0}]
    /\ exit \in [op : {"idle", "walk", "unaccount", "unproc", "free"},
                  cur : VifIds \cup {0}, nxt : VifIds \cup {0}, sum : Unsigned]
    /\ quota \in [Tasks -> StartQuotas \cup Quotas]
    /\ fault \in Faults
    /\ due \subseteq VifIds /\ owed \in [VifIds -> Nat] /\ races \subseteq Overlaps

(***************************************************************************)
(* A vif's memory is released exactly when its deletion is complete: what  *)
(* is allocated is on the list or in the hands of the del_vif under way,   *)
(* that of RTNL or that of rmmod, also when the two overlap.  And unless   *)
(* they have overlapped, rmmod leaves nothing allocated: a vif that was    *)
(* added behind its walk is one that no list reaches any more.             *)
(***************************************************************************)
NoLeak ==
    /\ live = active
            \cup (IF rtnl.op \in {"unaccount", "unproc", "free"} THEN {rtnl.id} ELSE {})
            \cup (IF exit.op \in {"unaccount", "unproc", "free"} THEN {exit.cur} ELSE {})
    /\ module = "gone" /\ "unload" \notin races => live = {}

(***************************************************************************)
(* vif_write never works on a freed vif: del_vif removes the proc files,   *)
(* waiting for the writers in flight, before it frees the vif, whether     *)
(* for a port or for rmmod.  An rmmod that overlaps a new_vif may free the *)
(* vif and then see the files appear, which is the one exception.          *)
(***************************************************************************)
UsersSafe ==
    "unload" \notin races => \A u \in Users : user[u].op # "idle" => user[u].id \in live

(***************************************************************************)
(* pay_credit never charges a freed vif as long as the module is loaded    *)
(* and unloaded as README says: del_nbp unregisters the rx_handler and     *)
(* waits for the frames in flight before it calls del_vif.                 *)
(***************************************************************************)
RxSafe ==
    Documented /\ SystemPorts = {} =>
        /\ \A c \in Cpus : rx[c].op = "pay" => rx[c].id \in live
        /\ fault # "freed_vif_rx"

(***************************************************************************)
(* CA->num_vif counts the vifs on the list, but for the update under way,  *)
(* as long as RTNL and rmmod have not both been at it.                     *)
(***************************************************************************)
NumVifExact ==
    HasCA /\ "unload" \notin races =>
        Cardinality(active) = CASE rtnl.op = "account"   -> numVif + 1
                                [] "unaccount" \in {rtnl.op, exit.op} -> numVif - 1
                                [] OTHER                 -> numVif

(***************************************************************************)
(* CA->total_weight is the sum of the weights on the list whenever nobody  *)
(* is updating it, provided no two updates overlapped and no weight was    *)
(* written for a vif already unlinked.  Nothing else disturbs it.          *)
(***************************************************************************)
TotalWeightExact ==
    HasCA /\ ~ WeightBusy /\ races \cap {"weight", "unlinked"} = {}
        => total = U(MapThenSumSet(LAMBDA i : vif[i].weight, active))

(***************************************************************************)
(* used_credit is what was received since the last reset, unless two cpus  *)
(* or a cpu and the timer met on the same vif, or the module was unloaded  *)
(* under a cpu that was charging one.                                      *)
(***************************************************************************)
UsedExact == "rx" \notin races => \A i \in live : vif[i].used = owed[i]

(***************************************************************************)
(* The walk of quota_control, which holds no lock, visits every vif that   *)
(* stays on the list from its beginning to its end.                        *)
(***************************************************************************)
WalkComplete == timer.st = "walk" /\ timer.cur = 0 => due = {}

(***************************************************************************)
(* The walk touches freed or unlinked memory only if the very vif it is on *)
(* or the one after it was deleted during the walk: other deletions, and   *)
(* additions, do not disturb it.  And io_control, which reads ts three     *)
(* times, meets a NULL only if the file pid of this vif was written after  *)
(* the first.                                                              *)
(***************************************************************************)
TimerFaultCause ==
    /\ fault = "freed_vif_timer" => "walk" \in races
    /\ fault = "null_task" => "pid" \in races

(***************************************************************************)
(* What a pointer to a port or a vif that was freed takes: del_vif reads   *)
(* p->vif of a freed port after the grace period that del_nbp started too  *)
(* early, or in rmmod after a br_add_if that failed; and RTNL and rmmod    *)
(* meet a vif of each other only if one enters vif.c while the other is in *)
(* it.                                                                     *)
(***************************************************************************)
StalePointerCause ==
    /\ fault = "freed_port" => rtnl.pfreed \/ "add_failed" \in races
    /\ fault = "freed_vif_exit" => "unload" \in races
    /\ fault = "freed_vif_rtnl" => "unload" \in races \/ module = "unloading"

(***************************************************************************)
(* A vif on the list belongs to a port that is on the bridge or under      *)
(* addition or deletion, and that port to it; only a failed br_add_if      *)
(* leaves a vif behind whose port is gone.                                 *)
(***************************************************************************)
VifOwnsPort ==
    "add_failed" \notin races =>
        \A i \in active : LET p == vif[i].port
                          IN  p \in attached \cup {rtnl.port} /\ p \in Ports /\ pvif[p] = i

(***************************************************************************)
(* Used as README says, on a node whose bridge has no port before insmod,  *)
(* the hooks never meet a port without a vif or an allocator that is not   *)
(* there yet.                                                              *)
(***************************************************************************)
DocumentedUse ==
    Documented /\ SystemPorts = {} => fault \notin {"null_vif", "no_ca"}

\* Traffic is acted upon: bytes charged to a vif are taken by the timer, or
\* the vif is deleted, or the kernel oopses.
ChargeIsTaken ==
    \A i \in VifIds : i \in active /\ vif[i].used > 0
                        ~> vif[i].used = 0 \/ i \notin active \/ fault # "none"

\* An addition or deletion of a port ends: del_nbp, which holds the RTNL mutex,
\* waits for the frames in flight, and never for ever.
PortOpsEnd == rtnl.op # "idle" ~> rtnl.op = "idle" \/ fault # "none"

(***************************************************************************)
(* README, stopping the agent: once the pods are deleted, rmmod the module *)
(* and go on with the node.  The hooks stay set, so the bridge calls into  *)
(* the code that was unloaded.                                             *)
(***************************************************************************)
UnloadIsClean == module = "gone" => fault # "stale_text"

=============================================================================
