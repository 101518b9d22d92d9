------------------------ MODULE CreditAllocatorProofs ------------------------
(***************************************************************************)
(* Proofs about CreditAllocator, for any ports, cpus, processes, tasks and *)
(* numbers of vifs, frames and loads: its state has its types, nothing     *)
(* that is allocated is lost sight of while the module is loaded, the      *)
(* counters are exact but for the overlaps on record, the walk of the      *)
(* timer misses no vif, and every access to freed memory has its cause on  *)
(* record.                                                                 *)
(***************************************************************************)
EXTENDS CreditAllocator, QuotaControlProofs, SumProofs

-----------------------------------------------------------------------------
(* the inductive invariant *)

\* the timer is in the loop of quota_control, and there in the round of a vif
Walking == timer.st \in {"walk", "get", "set", "reset"}
InRound == timer.st \in {"get", "set", "reset"}

\* goals are those io_control's arithmetic is good for ...
Goal == \A i \in VifIds : vif[i].goal \in Goals \cup {0}

\* ... so is the one it has read, and what it makes of it is a quota
Regulated ==
    /\ timer.st = "get" => timer.goal \in Goals \cup {0} /\ Regulates(timer.goal, timer.perf)
    /\ timer.st = "set" => timer.after \in Quotas

\* the module allocates ids and memory, and has files and writers, only while it is there
Loaded ==
    /\ module # "absent" => vifCnt >= 1
    /\ \A i \in live : i < vifCnt
    /\ module \in {"absent", "loading", "failed"} => live = {}
    /\ ~ HasCA => ~ InVif /\ procs = {} /\ \A u \in Users : user[u].op = "idle"
    /\ exit.op # "idle" <=> module = "unloading"

\* the del_vif of a port is between unlinking its vif and freeing it
Deleting == rtnl.op \in {"unaccount", "unproc", "free"}

\* so is that of rmmod
Exiting == exit.op \in {"unaccount", "unproc", "free"}

\* the RTNL holder works on a port that receives frames only once it is being linked, and on
\* its vif, unless rmmod has freed that
Holder ==
    /\ rtnl.op = "idle" => rtnl = NoRtnl
    /\ rtnl.op # "idle" =>
          /\ rtnl.port \in Ports
          /\ rtnl.port \in attached <=> rtnl.op = "link"
          /\ pvif[rtnl.port] \in {rtnl.id, 0}
    /\ InVif => rtnl.id # 0
    /\ Deleting => rtnl.id \notin active /\ pvif[rtnl.port] = rtnl.id
    /\ "unload" \notin races /\ rtnl.op \in {"account", "files"} => rtnl.id \in active

\* rmmod has a vif of its own in hand
Remover ==
    /\ exit.op = "idle" => exit = NoExit
    /\ Exiting => /\ exit.cur # 0 /\ exit.cur \notin active
                  /\ Deleting => exit.cur # rtnl.id

\* p->vif is NULL or an allocated vif, and no vif has two ports
PortVif ==
    /\ \A p \in Ports : pvif[p] # 0 => pvif[p] \in live
    /\ \A p, q \in Ports : pvif[p] # 0 /\ pvif[p] = pvif[q] => p = q

\* files belong to a vif on the list, or to one whose files are about to go
Files ==
    "unload" \notin races =>
        procs \subseteq active
                 \cup (IF rtnl.op \in {"unaccount", "unproc"} THEN {rtnl.id} ELSE {})
                 \cup (IF exit.op \in {"unaccount", "unproc"} THEN {exit.cur} ELSE {})

\* a writer's vif has its files, or it is one that remove_proc_entry waits for
Writers ==
    \A u \in Users : user[u].op # "idle" =>
        /\ user[u].id \in VifIds
        /\ "unload" \notin races => \/ user[u].id \in procs
                                    \/ rtnl.op = "free" /\ user[u].id = rtnl.id
                                    \/ exit.op = "free" /\ user[u].id = exit.cur

\* what the walk of rmmod has still to delete lies before it, unless RTNL met it
Sweep ==
    module = "unloading" /\ "unload" \notin races =>
        /\ ~ InVif
        /\ exit.nxt \in active \cup {0}
        /\ exit.nxt # 0 => exit.nxt # exit.cur
        /\ exit.op = "walk" => exit.cur \in active \cup {0} /\ (exit.cur = 0 => exit.nxt = 0)
        /\ \A i \in active : i = exit.cur \/ i <= exit.nxt

(***************************************************************************)
(* A frame is charged to the vif of its port, which receives frames or is  *)
(* the one synchronize_net waits for.  Only an unloading under traffic,    *)
(* which README excludes, disturbs that.                                   *)
(***************************************************************************)
Frames ==
    "rx" \notin races \/ (Documented /\ SystemPorts = {}) =>
        \A c \in Cpus : rx[c].op = "pay" =>
            /\ rx[c].port \in Ports
            /\ rx[c].id = pvif[rx[c].port] /\ rx[c].id # 0
            /\ \/ rx[c].port \in attached
               \/ rtnl.op \in {"quiesce", "undo"} /\ rx[c].port = rtnl.port

\* the sum a cpu is about to store is right, and no other cpu has the vif
Charges ==
    "rx" \notin races =>
        /\ \A c \in Cpus : rx[c].op = "pay" =>
               rx[c].sum = vif[rx[c].id].used + rx[c].len
        /\ \A c, d \in Cpus : c # d /\ rx[c].op = "pay" => rx[c].id # rx[d].id
        /\ UsedExact

\* the walk holds vifs of the list, and only a deletion of one of them changes that
Cursor ==
    /\ timer.st # "off" => vifCnt >= 1
    /\ Walking =>
          /\ InRound => timer.cur # 0
          /\ timer.cur < vifCnt /\ timer.nxt < vifCnt
          /\ "walk" \notin races => timer.cur \in active \cup {0} /\ timer.nxt \in active \cup {0}

\* what the walk has still to visit lies before it
Ahead ==
    Walking =>
        /\ timer.cur = 0 => timer.nxt = 0
        /\ due \subseteq active
        /\ \A i \in due : i = timer.cur \/ i <= timer.nxt

\* io_control has found a task, and only a write to the file pid takes it away
Tasked ==
    timer.st \in {"get", "set"} /\ timer.cur \in live /\ "pid" \notin races =>
        vif[timer.cur].task # 0

\* a vif's port is on the bridge, or in the hands of the RTNL holder
Owners ==
    "add_failed" \notin races =>
        /\ \A i \in active : LET p == vif[i].port
                             IN  /\ p \in attached \/ (rtnl.op # "idle" /\ p = rtnl.port)
                                 /\ p \in Ports /\ pvif[p] = i
        /\ Exiting => vif[exit.cur].port \in Ports

\* with the module used as README says, a port that the hooks may meet has a vif ...
Hooked ==
    Documented /\ SystemPorts = {} /\ HooksSet =>
        /\ \A p \in attached : pvif[p] # 0
        /\ rtnl.op \in {"account", "files", "attach", "link", "quiesce"} => pvif[rtnl.port] # 0

\* ... and there is no such port while the module comes or goes
Quiet ==
    Documented /\ SystemPorts = {} /\ module \in {"loading", "unloading"} =>
        rtnl.op = "idle" /\ attached = {}

-----------------------------------------------------------------------------
(* finite sets of naturals *)

\* A set of ids has a greatest element: the one farthest from the bound is the least.
LEMMA GreatestOn ==
    ASSUME NEW list \in SUBSET VifIds, list # {}
    PROVE  \E j \in list : \A k \in list : k <= j
  <1> DEFINE T == {n \in Nat : MaxVifs - n \in list}
  <1>1. MaxVifs \in Nat /\ \A i \in list : i \in Nat /\ i <= MaxVifs
    BY AllocatorAssumption DEF VifIds
  <1>2. \A i \in list : MaxVifs - i \in T
    BY <1>1
  <1>3. PICK x \in T : \A y \in T : x <= y
    BY <1>2, LeastElement
  <1>4. MaxVifs - x \in list /\ \A k \in list : k <= MaxVifs - x
    BY <1>1, <1>2, <1>3
  <1>q. QED
    BY <1>4

\* The list is walked from its head down: the first vif has the greatest id ...
LEMMA FirstOnGreatest ==
    ASSUME NEW list \in SUBSET VifIds
    PROVE  /\ FirstOn(list) \in list \cup {0}
           /\ \A i \in list : i <= FirstOn(list)
  <1>1. CASE list = {}
    BY <1>1 DEF FirstOn
  <1>2. CASE list # {}
    <2>1. \E j \in list : \A k \in list : k <= j
      BY <1>2, GreatestOn
    <2>2. /\ FirstOn(list) = CHOOSE j \in list : \A k \in list : k <= j
          /\ FirstOn(list) \in list /\ \A k \in list : k <= FirstOn(list)
      BY <1>2, <2>1 DEF FirstOn
    <2>q. QED
      BY <2>2
  <1>q. QED
    BY <1>1, <1>2

\* ... and the next one is the greatest below.
LEMMA NextOnBelow ==
    ASSUME NEW list \in SUBSET VifIds, NEW i \in VifIds \cup {0}
    PROVE  /\ NextOn(list, i) \in list \cup {0}
           /\ NextOn(list, i) # 0 => NextOn(list, i) < i
           /\ \A j \in list : j < i => j <= NextOn(list, i)
           /\ i = 0 => NextOn(list, i) = 0
  <1> DEFINE below == {j \in list : j < i}
  <1>1. CASE below = {}
    BY <1>1 DEF NextOn, VifIds
  <1>2. CASE below # {}
    <2>1. \E j \in below : \A k \in below : k <= j
      BY <1>2, GreatestOn
    <2>2. /\ NextOn(list, i) = CHOOSE j \in list : j < i /\ \A k \in list : k < i => k <= j
          /\ \E j \in list : j < i /\ \A k \in list : k < i => k <= j
      BY <1>2, <2>1 DEF NextOn
    <2>3. /\ NextOn(list, i) \in list /\ NextOn(list, i) < i
          /\ \A k \in list : k < i => k <= NextOn(list, i)
      BY <2>2
    <2>4. \A j \in list : j \in Nat /\ j >= 1
      BY AllocatorAssumption DEF VifIds
    <2>5. i # 0
      BY <1>2, <2>4
    <2>q. QED
      BY <2>3, <2>5
  <1>q. QED
    BY <1>1, <1>2

\* A walk down the list starts at its head and has all of it before it ...
LEMMA WalkStarts ==
    ASSUME NEW list \in SUBSET VifIds, NEW first, first = FirstOn(list)
    PROVE  /\ first \in list \cup {0} /\ NextOn(list, first) \in list \cup {0}
           /\ NextOn(list, first) # 0 => NextOn(list, first) # first
           /\ first = 0 => NextOn(list, first) = 0
           /\ \A i \in list : i = first \/ i <= NextOn(list, first)
  <1>1. \A i \in VifIds : i \in Nat /\ i # 0
    BY AllocatorAssumption DEF VifIds
  <1>2. /\ first \in list \cup {0} /\ \A i \in list : i <= first
        /\ NextOn(list, first) \in list \cup {0}
        /\ NextOn(list, first) # 0 => NextOn(list, first) < first
        /\ \A j \in list : j < first => j <= NextOn(list, first)
        /\ first = 0 => NextOn(list, first) = 0
    BY FirstOnGreatest, NextOnBelow
  <1>q. QED
    BY <1>1, <1>2

\* ... and passes over nothing when it goes on to what it had for the next.
LEMMA WalkGoesOn ==
    ASSUME NEW list \in SUBSET VifIds, NEW next \in VifIds \cup {0},
           NEW ahead \in SUBSET list, \A i \in ahead : i <= next
    PROVE  /\ NextOn(list, next) \in list \cup {0}
           /\ NextOn(list, next) # 0 => NextOn(list, next) # next
           /\ next = 0 => NextOn(list, next) = 0
           /\ \A i \in ahead : i = next \/ i <= NextOn(list, next)
  <1>1. \A i \in VifIds : i \in Nat /\ i # 0
    BY AllocatorAssumption DEF VifIds
  <1>2. /\ NextOn(list, next) \in list \cup {0}
        /\ NextOn(list, next) # 0 => NextOn(list, next) < next
        /\ \A j \in list : j < next => j <= NextOn(list, next)
        /\ next = 0 => NextOn(list, next) = 0
    BY NextOnBelow
  <1>q. QED
    BY <1>1, <1>2

\* The id of a new vif.
LEMMA NewId ==
    ASSUME NEW n \in Int, n >= 1, n <= MaxVifs
    PROVE  n \in VifIds /\ n + 1 \in 0 .. MaxVifs + 1
  BY AllocatorAssumption DEF VifIds

-----------------------------------------------------------------------------
(* the lives of vifs, files and ports *)

Lives ==
    /\ Loaded /\ NoLeak /\ Holder /\ Remover /\ PortVif /\ Files /\ Writers /\ Sweep

livesVars == <<module, vifCnt, live, active, procs, attached, pvif, rtnl, user, exit>>

\* A step that leaves these variables alone, such as one that ends in an oops.
LEMMA LivesUnchanged ==
    ASSUME Lives, UNCHANGED livesVars, races \subseteq races'
    PROVE  Lives'
  <1> USE DEF livesVars
  <1>1. /\ HasCA' = HasCA /\ InVif' = InVif /\ Deleting' = Deleting /\ Exiting' = Exiting
    BY DEF HasCA, InVif, Deleting, Exiting
  <1>q. QED
    BY <1>1 DEF Lives, Loaded, NoLeak, Holder, Remover, PortVif, Files, Writers, Sweep

\* After an oops nothing but fault has changed.
LEMMA OopsChanges ==
    ASSUME NEW kind, Oops(kind)
    PROVE  /\ fault' = kind /\ UNCHANGED livesVars /\ UNCHANGED code /\ UNCHANGED history
           /\ races' = races
  BY DEF Oops, code, loader, memory, bridge, contexts, livesVars, history

\* What has happened stays on record.
LEMMA RacesGrow ==
    ASSUME [Next]_vars
    PROVE  races \subseteq races'
  <1> USE DEF history
  <1>o. CASE \E kind : Oops(kind)
    BY <1>o, OopsChanges
  <1>1. ASSUME NEW p \in Ports, NewPort(p) \/ new_vif(p) \/ DelPort(p), ~ \E kind : Oops(kind)
        PROVE  races \subseteq races'
    BY <1>1 DEF NewPort, new_vif, DelPort
  <1>2. CASE RtnlStep /\ ~ \E kind : Oops(kind)
    BY <1>2 DEF RtnlStep, NewVifAccount, NewVifFiles, AttachPort, LinkPort, LinkFails,
                AddPortFails, DelPortPlain, del_vif, DelVifAccount, DelVifProc, DelVifFree
  <1>3. CASE RcuFreesPort \/ vif_init \/ InitAllocator \/ InitFails \/ vif_exit
    BY <1>3 DEF RcuFreesPort, vif_init, InitAllocator, InitFails, vif_exit
  <1>4. ASSUME NEW c \in Cpus, ~ \E kind : Oops(kind),
               RxStore(c) \/ \E p \in Ports, len \in Lens : pay_credit(c, p, len)
        PROVE  races \subseteq races'
    BY <1>4 DEF RxStore, pay_credit
  <1>5. ASSUME NEW i \in VifIds, NEW x, WriteGoal(i, x) \/ WritePid(i, x)
        PROVE  races \subseteq races'
    BY <1>5 DEF WriteGoal, WritePid
  <1>6. ASSUME NEW u \in Users,
               UserStep(u) \/ \E i \in VifIds, w \in Weights : WriteWeight(u, i, w)
        PROVE  races \subseteq races'
    BY <1>6 DEF UserStep, WriteWeightSum, WriteWeightSet, WriteWeight
  <1>7. CASE TimerStep /\ ~ \E kind : Oops(kind)
    BY <1>7 DEF TimerStep, TimerFires, quota_control, GetQuota, SetQuota, ResetCredit,
                TimerRearms, WalkMeetsFreed, Visit
  <1>8. CASE ExitStep /\ ~ \E kind : Oops(kind)
    BY <1>8 DEF ExitStep, ExitDelVif, ExitAccount, ExitUnproc, ExitFree, ExitDone, ExitMeetsFreed
  <1>9. CASE Halted \/ UNCHANGED vars
    BY <1>9 DEF Halted, vars
  <1>q. QED
    BY <1>o, <1>1, <1>2, <1>3, <1>4, <1>5, <1>6, <1>7, <1>8, <1>9 DEF Next

\* br_add_if: a new vif is fresh, and its port is not yet attached.
LEMMA LivesAdd ==
    ASSUME TypeOK, Lives,
           \/ \E p \in Ports : NewPort(p) \/ new_vif(p)
           \/ NewVifAccount \/ NewVifFiles \/ AttachPort \/ LinkPort \/ LinkFails \/ AddPortFails
    PROVE  Lives'
  <1> USE DEF Lives, Loaded, NoLeak, Holder, Remover, PortVif, Files, Writers, Sweep,
              Deleting, Exiting, HasCA, InVif, loader, memory, CA, bridge, contexts, history
  <1>1. ASSUME NEW p \in Ports, NewPort(p)
        PROVE  Lives'
    BY <1>1 DEF NewPort, HooksSet, NoRtnl, TypeOK
  <1>2. ASSUME NEW p \in Ports, new_vif(p)
        PROVE  Lives'
    <2>1. CASE \E kind : Oops(kind)
      BY <2>1, OopsChanges, LivesUnchanged
    <2>2. CASE ~ \E kind : Oops(kind)
      <3>1. /\ rtnl = NoRtnl /\ p \in Ports \ attached /\ module \in {"loaded", "unloading"}
            /\ vifCnt \in VifIds /\ vifCnt \notin live /\ vifCnt # 0
            /\ vifCnt' = vifCnt + 1
            /\ live' = live \cup {vifCnt} /\ active' = active \cup {vifCnt}
            /\ pvif' = [pvif EXCEPT ![p] = vifCnt]
            /\ rtnl' = [NoRtnl EXCEPT !.op = "account", !.port = p, !.id = vifCnt,
                                      !.sum = U(total + 1)]
            /\ races \subseteq races' /\ (module = "unloading" => "unload" \in races')
            /\ UNCHANGED <<module, procs, attached, user, exit>>
        <4>1. /\ rtnl.op = "idle" /\ p \notin attached /\ module \in {"loaded", "unloading"}
              /\ vifCnt <= MaxVifs /\ vifCnt' = vifCnt + 1
              /\ live' = live \cup {vifCnt} /\ active' = active \cup {vifCnt}
              /\ pvif' = [pvif EXCEPT ![p] = vifCnt]
              /\ rtnl' = [NoRtnl EXCEPT !.op = "account", !.port = p, !.id = vifCnt,
                                        !.sum = U(total + 1)]
              /\ races \subseteq races' /\ (module = "unloading" => "unload" \in races')
              /\ UNCHANGED <<module, procs, attached, user, exit>>
          BY <1>2, <2>2 DEF new_vif, Race
        <4>2. vifCnt \in VifIds /\ vifCnt \notin live /\ vifCnt # 0
          BY <4>1, AllocatorAssumption DEF VifIds, TypeOK
        <4>q. QED
          BY <4>1, <4>2
      <3>2. /\ rtnl'.op = "account" /\ rtnl'.port = p /\ rtnl'.id = vifCnt
            /\ rtnl.op = "idle"
        BY <3>1 DEF NoRtnl
      <3>3. Loaded' /\ NoLeak'
        BY <3>1, <3>2 DEF VifIds, TypeOK
      <3>4. Holder' /\ Remover'
        BY <3>1, <3>2 DEF VifIds, TypeOK
      <3>5. PortVif' /\ Files' /\ Writers' /\ Sweep'
        BY <3>1, <3>2 DEF TypeOK
      <3>q. QED
        BY <3>3, <3>4, <3>5
    <2>q. QED
      BY <2>1, <2>2
  <1>3. CASE NewVifAccount
    <2>1. /\ rtnl.op = "account"
          /\ rtnl' = [rtnl EXCEPT !.op = "files", !.sum = 0]
          /\ UNCHANGED <<module, vifCnt, live, active, procs, attached, pvif, user, exit, races>>
      BY <1>3 DEF NewVifAccount
    <2>q. QED
      BY <2>1 DEF TypeOK
  <1>4. CASE NewVifFiles
    <2>1. CASE \E kind : Oops(kind)
      BY <2>1, OopsChanges, LivesUnchanged
    <2>2. CASE ~ \E kind : Oops(kind)
      <3>1. /\ rtnl.op = "files"
            /\ procs' = procs \cup {rtnl.id}
            /\ rtnl' = [rtnl EXCEPT !.op = "attach"]
            /\ UNCHANGED <<module, vifCnt, live, active, attached, pvif, user, exit, races>>
        BY <1>4, <2>2 DEF NewVifFiles
      <3>q. QED
        BY <3>1 DEF TypeOK
    <2>q. QED
      BY <2>1, <2>2
  <1>5. CASE AttachPort
    BY <1>5 DEF AttachPort, TypeOK
  <1>6. CASE LinkPort
    BY <1>6 DEF LinkPort, NoRtnl, TypeOK
  <1>7. CASE LinkFails
    BY <1>7 DEF LinkFails, TypeOK
  <1>8. CASE AddPortFails
    <2>1. /\ rtnl.op \in {"attach", "undo"} /\ rtnl' = NoRtnl
          /\ pvif' = [pvif EXCEPT ![rtnl.port] = 0]
          /\ races \subseteq races'
          /\ ("unload" \in races' => "unload" \in races)
          /\ UNCHANGED <<module, vifCnt, live, active, procs, attached, user, exit>>
      BY <1>8 DEF AddPortFails
    <2>q. QED
      BY <2>1 DEF NoRtnl, TypeOK
  <1>q. QED
    BY <1>1, <1>2, <1>3, <1>4, <1>5, <1>6, <1>7, <1>8

\* br_del_if: the vif leaves the list, its files go, and only then its memory.
LEMMA LivesDelete ==
    ASSUME TypeOK, Lives,
           \/ \E p \in Ports : DelPort(p)
           \/ DelPortPlain \/ del_vif \/ RcuFreesPort
           \/ DelVifAccount \/ DelVifProc \/ DelVifFree
    PROVE  Lives'
  <1> USE DEF Lives, Loaded, NoLeak, Holder, Remover, PortVif, Files, Writers, Sweep,
              Deleting, Exiting, HasCA, InVif, loader, memory, CA, bridge, contexts, history
  <1>1. ASSUME NEW p \in Ports, DelPort(p)
        PROVE  Lives'
    <2>1. /\ rtnl = NoRtnl /\ attached' = attached \ {p}
          /\ rtnl' = [NoRtnl EXCEPT !.op = "quiesce", !.port = p, !.id = pvif[p]]
          /\ UNCHANGED <<module, vifCnt, live, active, procs, pvif, user, exit, races>>
      BY <1>1 DEF DelPort
    <2>2. rtnl.op = "idle" /\ rtnl'.op = "quiesce" /\ rtnl'.port = p /\ rtnl'.id = pvif[p]
      BY <2>1 DEF NoRtnl
    <2>3. Holder'
      BY <2>1, <2>2
    <2>4. Loaded' /\ NoLeak' /\ Remover' /\ PortVif' /\ Files' /\ Writers' /\ Sweep'
      BY <2>1, <2>2
    <2>q. QED
      BY <2>3, <2>4
  <1>2. CASE DelPortPlain
    BY <1>2 DEF DelPortPlain, NoRtnl, TypeOK
  <1>o. CASE \E kind : Oops(kind)
    BY <1>o, OopsChanges, LivesUnchanged
  <1>3. CASE del_vif /\ ~ \E kind : Oops(kind)
    <2>1. /\ rtnl.op = "quiesce" /\ pvif[rtnl.port] # 0
          /\ module \in {"loaded", "unloading"} /\ rtnl.id \in active
          /\ active' = active \ {rtnl.id}
          /\ rtnl' = [rtnl EXCEPT !.op = "unaccount",
                                  !.sum = U(total - vif[rtnl.id].weight)]
          /\ races \subseteq races' /\ (module = "unloading" => "unload" \in races')
          /\ UNCHANGED <<module, vifCnt, live, procs, attached, pvif, user, exit>>
      BY <1>3 DEF del_vif, Race
    <2>2. /\ rtnl'.op = "unaccount" /\ rtnl'.id = rtnl.id /\ rtnl'.port = rtnl.port
          /\ pvif[rtnl.port] = rtnl.id /\ rtnl.id # 0 /\ rtnl.id \in live
          /\ (Exiting => exit.cur # rtnl.id)
      BY <2>1 DEF TypeOK
    <2>3. Loaded' /\ NoLeak' /\ PortVif' /\ Writers'
      BY <2>1, <2>2
    <2>4. Holder' /\ Remover' /\ Files'
      BY <2>1, <2>2
    <2>5. Sweep'
      BY <2>1, <2>2
    <2>q. QED
      BY <2>3, <2>4, <2>5
  <1>4. CASE RcuFreesPort
    BY <1>4 DEF RcuFreesPort, TypeOK
  <1>5. CASE DelVifAccount /\ ~ \E kind : Oops(kind)
    <2>1. /\ rtnl.op = "unaccount"
          /\ rtnl' = [rtnl EXCEPT !.op = "unproc", !.sum = 0]
          /\ UNCHANGED <<module, vifCnt, live, active, procs, attached, pvif, user, exit, races>>
      BY <1>5 DEF DelVifAccount
    <2>q. QED
      BY <2>1 DEF TypeOK
  <1>6. CASE DelVifProc /\ ~ \E kind : Oops(kind)
    <2>1. /\ rtnl.op = "unproc"
          /\ procs' = procs \ {rtnl.id}
          /\ rtnl' = [rtnl EXCEPT !.op = "free"]
          /\ UNCHANGED <<module, vifCnt, live, active, attached, pvif, user, exit, races>>
      BY <1>6 DEF DelVifProc
    <2>q. QED
      BY <2>1 DEF TypeOK
  <1>7. CASE DelVifFree /\ ~ \E kind : Oops(kind)
    <2>1. /\ rtnl.op = "free" /\ NoUserOf(rtnl.id)
          /\ live' = live \ {rtnl.id}
          /\ pvif' = [pvif EXCEPT ![rtnl.port] = 0]
          /\ rtnl' = NoRtnl
          /\ UNCHANGED <<module, vifCnt, active, procs, attached, user, exit, races>>
      BY <1>7 DEF DelVifFree
    <2>q. QED
      BY <2>1 DEF NoUserOf, NoRtnl, TypeOK
  <1>q. QED
    BY <1>o, <1>1, <1>2, <1>3, <1>4, <1>5, <1>6, <1>7

\* vif_write: the files a writer has opened are those of an allocated vif.
LEMMA LivesUsers ==
    ASSUME TypeOK, Lives, NEW u \in Users,
           UserStep(u) \/ \E i \in VifIds, w \in Weights : WriteWeight(u, i, w)
    PROVE  Lives'
  <1> USE DEF loader, memory, CA, bridge, contexts, history
  <1> DEFINE Others == /\ UNCHANGED <<module, vifCnt, live, active, procs, attached, pvif, rtnl,
                                      exit>>
                       /\ ("unload" \in races' <=> "unload" \in races)
  <1>k. ASSUME Others, Writers', \A v \in Users : user'[v].op # "idle" => HasCA
        PROVE  Lives'
    <2>1. /\ HasCA' = HasCA /\ InVif' = InVif /\ Deleting' = Deleting /\ Exiting' = Exiting
      BY <1>k DEF HasCA, InVif, Deleting, Exiting
    <2>q. QED
      BY <1>k, <2>1 DEF Lives, Loaded, NoLeak, Holder, Remover, PortVif, Files, Sweep
  <1>1. ASSUME NEW i \in VifIds, NEW w \in Weights, WriteWeight(u, i, w)
        PROVE  Lives'
    <2>1. /\ i \in procs
          /\ user' = [user EXCEPT ![u] = [op |-> "sum", id |-> i, value |-> w,
                                          sum |-> U(total + WeightChange(i, w))]]
          /\ Others
      BY <1>1 DEF WriteWeight, WeightRace, Race
    <2>2. user'[u].id = i /\ \A v \in Users \ {u} : user'[v] = user[v]
      BY <2>1 DEF TypeOK
    <2>3. Writers' /\ \A v \in Users : user'[v].op # "idle" => HasCA
      BY <2>1, <2>2 DEF Lives, Writers, Loaded
    <2>q. QED
      BY <2>1, <2>3, <1>k
  <1>2. CASE UserStep(u)
    <2>1. /\ Others
          /\ user[u].op # "idle"
          /\ \/ user' = [user EXCEPT ![u].op = "set", ![u].sum = 0]
             \/ user' = [user EXCEPT ![u] = NoUser]
      BY <1>2 DEF UserStep, WriteWeightSum, WriteWeightSet
    <2>2. \A v \in Users : user'[v].op # "idle" => user[v].op # "idle" /\ user'[v].id = user[v].id
      BY <2>1 DEF NoUser, TypeOK
    <2>3. Writers' /\ \A v \in Users : user'[v].op # "idle" => HasCA
      BY <2>1, <2>2 DEF Lives, Writers, Loaded
    <2>q. QED
      BY <2>1, <2>3, <1>k
  <1>q. QED
    BY <1>1, <1>2

\* insmod comes to an empty table, and rmmod starts with the list before it.
LEMMA LivesLoader ==
    ASSUME TypeOK, Lives, vif_init \/ InitAllocator \/ InitFails \/ vif_exit
    PROVE  Lives'
  <1> USE DEF Lives, Loaded, NoLeak, Holder, Remover, PortVif, Files, Writers, Sweep,
              Deleting, Exiting, HasCA, InVif, loader, memory, CA, bridge, contexts, history
  <1>1. CASE vif_init
    BY <1>1 DEF vif_init, TypeOK
  <1>2. CASE InitAllocator
    BY <1>2 DEF InitAllocator, TypeOK
  <1>3. CASE InitFails
    BY <1>3 DEF InitFails, TypeOK
  <1>4. CASE vif_exit
    <2> DEFINE first == FirstOn(active)
    <2>1. /\ module = "loaded" /\ module' = "unloading"
          /\ exit' = [NoExit EXCEPT !.op = "walk", !.cur = first, !.nxt = NextOn(active, first)]
          /\ races \subseteq races' /\ (InVif => "unload" \in races')
          /\ UNCHANGED <<vifCnt, live, active, procs, attached, pvif, rtnl, user>>
      BY <1>4 DEF vif_exit, Race
    <2>2. /\ first \in active \cup {0} /\ NextOn(active, first) \in active \cup {0}
          /\ NextOn(active, first) # 0 => NextOn(active, first) # first
          /\ first = 0 => NextOn(active, first) = 0
          /\ \A i \in active : i = first \/ i <= NextOn(active, first)
      BY WalkStarts DEF TypeOK
    <2> HIDE DEF first
    <2>3. exit'.op = "walk" /\ exit'.cur = first /\ exit'.nxt = NextOn(active, first)
      BY <2>1 DEF NoExit
    <2>4. exit.op = "idle"
      BY <2>1 DEF TypeOK
    <2>5. Loaded' /\ NoLeak' /\ Holder' /\ Remover' /\ PortVif'
      BY <2>1, <2>3, <2>4
    <2>6. Files' /\ Writers' /\ Sweep'
      BY <2>1, <2>2, <2>3, <2>4
    <2>q. QED
      BY <2>5, <2>6
  <1>q. QED
    BY <1>1, <1>2, <1>3, <1>4

\* rmmod deletes one vif after the other, and the last step finds none left.
LEMMA LivesExit ==
    ASSUME TypeOK, Lives, ExitStep
    PROVE  Lives'
  <1> USE DEF Lives, Loaded, NoLeak, Holder, Remover, PortVif, Files, Writers, Sweep,
              Deleting, Exiting, HasCA, InVif, loader, memory, CA, bridge, contexts, history
  <1>0. \A i \in VifIds : i \in Nat /\ i # 0
    BY AllocatorAssumption DEF VifIds
  <1>o. CASE \E kind : Oops(kind)
    BY <1>o, OopsChanges, LivesUnchanged
  <1>1. CASE ExitDelVif /\ ~ \E kind : Oops(kind)
    <2>1. /\ exit.op = "walk" /\ exit.cur # 0 /\ exit.cur \in active
          /\ active' = active \ {exit.cur}
          /\ exit' = [exit EXCEPT !.op = "unaccount", !.sum = U(total - vif[exit.cur].weight)]
          /\ races \subseteq races'
          /\ UNCHANGED <<module, vifCnt, live, procs, attached, pvif, rtnl, user>>
      BY <1>1 DEF ExitDelVif, ExitMeetsFreed
    <2>2. exit'.op = "unaccount" /\ exit'.cur = exit.cur /\ exit'.nxt = exit.nxt
      BY <2>1 DEF TypeOK
    <2>3. Loaded' /\ NoLeak' /\ PortVif' /\ Writers'
      BY <2>1, <2>2
    <2>4. Remover' /\ Files' /\ Sweep'
      BY <2>1, <2>2
    <2>5. Holder'
      <3>1. module = "unloading"
        BY <2>1 DEF TypeOK
      <3>q. QED
        BY <2>1, <3>1
    <2>q. QED
      BY <2>3, <2>4, <2>5
  <1>2. CASE ExitAccount /\ ~ \E kind : Oops(kind)
    <2>1. /\ exit.op = "unaccount"
          /\ exit' = [exit EXCEPT !.op = "unproc", !.sum = 0]
          /\ UNCHANGED <<module, vifCnt, live, active, procs, attached, pvif, rtnl, user, races>>
      BY <1>2 DEF ExitAccount, ExitMeetsFreed
    <2>q. QED
      BY <2>1 DEF TypeOK
  <1>3. CASE ExitUnproc /\ ~ \E kind : Oops(kind)
    <2>1. /\ exit.op = "unproc"
          /\ procs' = procs \ {exit.cur}
          /\ exit' = [exit EXCEPT !.op = "free"]
          /\ UNCHANGED <<module, vifCnt, live, active, attached, pvif, rtnl, user, races>>
      BY <1>3 DEF ExitUnproc, ExitMeetsFreed
    <2>q. QED
      BY <2>1 DEF TypeOK
  <1>4. CASE ExitFree /\ ~ \E kind : Oops(kind)
    <2> DEFINE next == exit.nxt
    <2>1. /\ exit.op = "free" /\ NoUserOf(exit.cur)
          /\ live' = live \ {exit.cur}
          /\ pvif' = [p \in Ports |-> IF pvif[p] = exit.cur THEN 0 ELSE pvif[p]]
          /\ exit' = [NoExit EXCEPT !.op = "walk", !.cur = next, !.nxt = NextOn(active, next)]
          /\ races \subseteq races' /\ ("unload" \in races' => "unload" \in races)
          /\ UNCHANGED <<module, vifCnt, active, procs, attached, rtnl, user>>
      BY <1>4 DEF ExitFree, ExitMeetsFreed, Race
    <2>2. exit'.op = "walk" /\ exit'.cur = next /\ exit'.nxt = NextOn(active, next)
      BY <2>1 DEF NoExit
    <2>3. exit.cur # 0 /\ exit.cur \notin active /\ module = "unloading"
      BY <2>1 DEF TypeOK
    <2>4. Loaded' /\ NoLeak' /\ Remover' /\ PortVif'
      BY <2>1, <2>2, <2>3 DEF TypeOK
    <2>5. Holder' /\ Files' /\ Writers'
      BY <2>1, <2>2, <2>3 DEF TypeOK, NoUserOf
    <2>6. Sweep'
      <3>1. CASE "unload" \in races
        BY <2>1, <3>1
      <3>2. CASE "unload" \notin races
        <4>1. ~ InVif /\ next \in active \cup {0} /\ \A i \in active : i <= next
          BY <2>3, <3>2
        <4>2. active \in SUBSET VifIds /\ next \in VifIds \cup {0} /\ active \in SUBSET active
          BY DEF TypeOK
        <4>3. /\ NextOn(active, next) \in active \cup {0}
              /\ NextOn(active, next) # 0 => NextOn(active, next) # next
              /\ next = 0 => NextOn(active, next) = 0
              /\ \A i \in active : i = next \/ i <= NextOn(active, next)
          BY <4>1, <4>2, WalkGoesOn
        <4> HIDE DEF next
        <4>4. InVif' = InVif /\ active' = active
          BY <2>1
        <4>q. QED
          BY <2>2, <4>1, <4>3, <4>4
      <3>q. QED
        BY <3>1, <3>2
    <2>q. QED
      BY <2>4, <2>5, <2>6
  <1>5. CASE ExitDone /\ ~ \E kind : Oops(kind)
    <2>1. /\ exit.op = "walk" /\ exit.cur = 0
          /\ ~ InVif /\ \A u \in Users : user[u].op = "idle"
          /\ module' = "gone" /\ procs' = {} /\ exit' = NoExit
          /\ UNCHANGED <<vifCnt, live, active, attached, pvif, rtnl, user, races>>
      BY <1>5 DEF ExitDone
    <2>2. exit'.op = "idle" /\ module = "unloading"
      BY <2>1 DEF NoExit
    <2>3. "unload" \notin races => active = {}
      BY <1>0, <2>1, <2>2 DEF TypeOK
    <2>4. Loaded' /\ Holder' /\ Remover' /\ PortVif'
      BY <2>1, <2>2
    <2>5. NoLeak' /\ Files' /\ Writers' /\ Sweep'
      BY <2>1, <2>2, <2>3
    <2>q. QED
      BY <2>4, <2>5
  <1>q. QED
    BY <1>o, <1>1, <1>2, <1>3, <1>4, <1>5 DEF ExitStep

\* What the cpus and the timer do, and the other files, is nothing to the lives of vifs.
LEMMA LivesElse ==
    ASSUME \/ \E c \in Cpus : RxStore(c) \/ \E p \in Ports, len \in Lens : pay_credit(c, p, len)
           \/ \E i \in VifIds : \/ \E g \in Goals : WriteGoal(i, g)
                                \/ \E t \in Tasks \cup {0} : WritePid(i, t)
           \/ TimerStep \/ Halted \/ UNCHANGED vars
    PROVE  UNCHANGED livesVars
  <1> USE DEF livesVars, loader, memory, CA, bridge, contexts, history
  <1>o. CASE \E kind : Oops(kind)
    BY <1>o, OopsChanges
  <1>1. ASSUME NEW c \in Cpus, RxStore(c), ~ \E kind : Oops(kind)
        PROVE  UNCHANGED livesVars
    BY <1>1 DEF RxStore
  <1>2. ASSUME NEW c \in Cpus, NEW p \in Ports, NEW len \in Lens, pay_credit(c, p, len),
               ~ \E kind : Oops(kind)
        PROVE  UNCHANGED livesVars
    BY <1>2 DEF pay_credit
  <1>3. ASSUME NEW i \in VifIds, NEW g, WriteGoal(i, g)
        PROVE  UNCHANGED livesVars
    BY <1>3 DEF WriteGoal
  <1>4. ASSUME NEW i \in VifIds, NEW t, WritePid(i, t)
        PROVE  UNCHANGED livesVars
    BY <1>4 DEF WritePid
  <1>5. CASE TimerStep /\ ~ \E kind : Oops(kind)
    BY <1>5 DEF TimerStep, TimerFires, quota_control, GetQuota, SetQuota, ResetCredit,
                TimerRearms, WalkMeetsFreed
  <1>6. CASE Halted \/ UNCHANGED vars
    BY <1>6 DEF Halted, vars, code
  <1>q. QED
    BY <1>o, <1>1, <1>2, <1>3, <1>4, <1>5, <1>6

\* Every step keeps the lives of vifs, files and ports in order.
LEMMA LivesStep ==
    ASSUME TypeOK, Lives, [Next]_vars
    PROVE  Lives'
  <1>1. races \subseteq races'
    BY RacesGrow
  <1>q. QED
    BY <1>1, LivesAdd, LivesDelete, LivesUsers, LivesLoader, LivesExit, LivesElse, LivesUnchanged
    DEF Next, RtnlStep

-----------------------------------------------------------------------------
(* types *)

\* U makes words ...
LEMMA StoredWord == \A x \in Int : U(x) \in Unsigned
  BY UnsignedWord DEF Unsigned

\* ... which are numbers, 0 and 1 among them ...
LEMMA ZeroWord == 0 \in Unsigned /\ 1 \in Unsigned /\ Unsigned \subseteq Nat
  BY QuotaAssumption DEF Unsigned

\* ... and so is what is written to the files or received.
LEMMA InputWords ==
    Goals \cup {0} \subseteq Unsigned /\ Weights \subseteq Unsigned /\ Lens \subseteq Unsigned
  BY QuotaAssumption, AllocatorAssumption DEF Unsigned

\* The bounds are numbers.
LEMMA Bounds ==
    /\ MaxVifs \in Nat /\ ProcSlots \in Nat /\ MaxLoads \in Nat
    /\ MaxUsed \in Nat /\ MaxUsed < Word /\ Word \in Nat
  BY AllocatorAssumption, QuotaAssumption DEF Unsigned

\* Words are integers.
LEMMA UnsignedInt == Unsigned \subseteq Int
  BY QuotaAssumption DEF Unsigned

VifRecord == [port : Ports \cup {FreedPort}, weight : Unsigned, goal : Unsigned,
              task : Tasks \cup {0}, used : Unsigned]

RtnlRecord ==
    [op : {"idle", "account", "files", "attach", "link", "undo",
           "quiesce", "unaccount", "unproc", "free"},
     port : Ports \cup {FreedPort}, id : VifIds \cup {0}, sum : Unsigned, pfreed : BOOLEAN]

Frame == [op : {"idle", "pay"}, port : Ports \cup {FreedPort},
          id : VifIds \cup {0}, len : Unsigned, sum : Unsigned]

WalkRecord == [st : {"off", "armed", "walk", "get", "set", "reset"},
               cur : VifIds \cup {0}, nxt : VifIds \cup {0},
               goal : Unsigned, perf : Nat, after : Quotas \cup {0}]

SweepRecord == [op : {"idle", "walk", "unaccount", "unproc", "free"},
                cur : VifIds \cup {0}, nxt : VifIds \cup {0}, sum : Unsigned]

Writer == [op : {"idle", "sum", "set"}, id : VifIds \cup {0}, value : Unsigned, sum : Unsigned]

\* The record of a new vif, or of one that was freed.
LEMMA NewRecordTyped ==
    ASSUME NEW p \in Ports \cup {FreedPort}
    PROVE  NewRecord(p) \in VifRecord /\ NewRecord(p).goal = 0
                                      /\ NewRecord(p).used = 0 /\ NewRecord(p).port = p
  BY ZeroWord DEF NewRecord, VifRecord

\* Goals are in the range of io_control's arithmetic.
LEMMA GoalsInRange == \A g \in Goals \cup {0} : g # 0 => g \in Nat /\ g >= 2 /\ g < Word \div 8
  BY QuotaAssumption, AllocatorAssumption

\* io_control computes a quota in its range.
LEMMA QuotaTyped ==
    ASSUME NEW g \in Goals \cup {0}, NEW perf \in Nat, Regulates(g, perf),
           NEW q \in StartQuotas \cup Quotas
    PROVE  NextQuota(g, perf, q) \in Quotas
  <1>1. g \in Nat /\ g >= 2 /\ g < Word \div 8
    BY GoalsInRange DEF Regulates
  <1>2. q \in Int
    BY AllocatorAssumption, QuotaAssumption DEF Quotas, NoLimit
  <1>q. QED
    BY <1>1, <1>2, NextQuotaInQuotas

\* An oops keeps the types.
LEMMA TypesOops ==
    ASSUME TypeOK, Goal, NEW kind \in Faults, Oops(kind)
    PROVE  TypeOK' /\ Goal'
  BY DEF Oops, TypeOK, Goal, code, loader, memory, CA, bridge, contexts, history

\* A step from one point of the RTNL holder to another, which may attach the port, store the
\* total or open or close files.
LEMMA TypesRtnlMoves ==
    ASSUME TypeOK, Goal, rtnl' \in RtnlRecord, attached' \subseteq Ports, total' \in Unsigned,
           numVif' \in Int, procs' \subseteq VifIds,
           UNCHANGED <<loader, vif, live, active, pvif, rx, user, timer, exit, quota, fault,
                       history>>
    PROVE  TypeOK' /\ Goal'
  BY DEF TypeOK, Goal, RtnlRecord, loader, history

\* The records of these points.
LEMMA RtnlTyped ==
    ASSUME TypeOK
    PROVE  /\ rtnl \in RtnlRecord /\ NoRtnl \in RtnlRecord
           /\ \A r \in RtnlRecord :
                 /\ [r EXCEPT !.pfreed = TRUE] \in RtnlRecord
                 /\ \A op \in {"files", "attach", "link", "undo", "unproc", "free"} :
                       /\ [r EXCEPT !.op = op] \in RtnlRecord
                       /\ [r EXCEPT !.op = op, !.sum = 0] \in RtnlRecord
           /\ \A p \in Ports :
                 /\ [NoRtnl EXCEPT !.op = "attach", !.port = p] \in RtnlRecord
                 /\ [NoRtnl EXCEPT !.op = "quiesce", !.port = p, !.id = pvif[p]] \in RtnlRecord
  <1>1. rtnl \in RtnlRecord /\ NoRtnl \in RtnlRecord
    BY ZeroWord DEF TypeOK, RtnlRecord, NoRtnl
  <1>2. \A r \in RtnlRecord :
           /\ [r EXCEPT !.pfreed = TRUE] \in RtnlRecord
           /\ \A op \in {"files", "attach", "link", "undo", "unproc", "free"} :
                 /\ [r EXCEPT !.op = op] \in RtnlRecord
                 /\ [r EXCEPT !.op = op, !.sum = 0] \in RtnlRecord
    BY ZeroWord DEF RtnlRecord
  <1>3. ASSUME NEW p \in Ports
        PROVE  /\ [NoRtnl EXCEPT !.op = "attach", !.port = p] \in RtnlRecord
               /\ [NoRtnl EXCEPT !.op = "quiesce", !.port = p, !.id = pvif[p]] \in RtnlRecord
    <2>1. pvif[p] \in VifIds \cup {0}
      BY DEF TypeOK
    <2>q. QED
      BY <2>1, ZeroWord DEF RtnlRecord, NoRtnl
  <1>q. QED
    BY <1>1, <1>2, <1>3

\* The steps of the RTNL holder keep the types.
LEMMA TypesRtnl ==
    ASSUME TypeOK, Goal, Lives,
           \/ \E p \in Ports : NewPort(p) \/ new_vif(p) \/ DelPort(p)
           \/ RtnlStep \/ RcuFreesPort
    PROVE  TypeOK' /\ Goal'
  <1> USE StoredWord, ZeroWord, InputWords DEF TypeOK, Goal, loader, memory, CA, bridge, contexts, history
  <1>0. /\ {"null_vif", "no_ca", "stale_text", "freed_port", "freed_vif_rtnl", "proc_overflow"}
              \subseteq Faults
        /\ {"weight", "walk", "unload", "add_failed"} \subseteq Overlaps
    BY DEF Faults, Overlaps
  <1>1. ASSUME NEW p \in Ports, NewPort(p)
        PROVE  TypeOK' /\ Goal'
    <2>1. rtnl' \in RtnlRecord
      BY <1>1, RtnlTyped DEF NewPort
    <2>q. QED
      BY <1>1, <2>1, TypesRtnlMoves DEF NewPort
  <1>2. ASSUME NEW p \in Ports, new_vif(p)
        PROVE  TypeOK' /\ Goal'
    <2>1. CASE Oops("stale_text") \/ Oops("no_ca")
      BY <2>1, <1>0, TypesOops
    <2>2. CASE ~ (Oops("stale_text") \/ Oops("no_ca"))
      <3>1. /\ HasCA /\ vifCnt <= MaxVifs
            /\ vifCnt' = vifCnt + 1
            /\ vif' = [vif EXCEPT ![vifCnt] = NewRecord(p)]
            /\ live' = live \cup {vifCnt}
            /\ active' = active \cup {vifCnt}
            /\ pvif' = [pvif EXCEPT ![p] = vifCnt]
            /\ rtnl' = [NoRtnl EXCEPT !.op = "account", !.port = p, !.id = vifCnt,
                                      !.sum = U(total + 1)]
            /\ races' \subseteq races \cup {"weight", "unload"}
            /\ owed' = [owed EXCEPT ![vifCnt] = 0]
            /\ UNCHANGED <<module, loads, procs, CA, attached, rx, user, timer, exit, quota,
                           fault, due>>
        BY <1>2, <2>2 DEF new_vif, WeightRace, Race
      <3>2. vifCnt \in VifIds /\ vifCnt' \in 0 .. MaxVifs + 1
        <4>1. vifCnt \in Int /\ vifCnt >= 1
          BY <3>1, Bounds DEF Lives, Loaded, HasCA
        <4>q. QED
          BY <4>1, <3>1, NewId
      <3>3. vif' \in [VifIds -> VifRecord] /\ Goal'
        BY <3>1, <3>2, NewRecordTyped DEF VifRecord
      <3>4. U(total + 1) \in Unsigned
        OBVIOUS
      <3>5. rtnl' \in RtnlRecord
        BY <3>1, <3>2, <3>4 DEF NoRtnl, RtnlRecord
      <3>q. QED
        BY <3>1, <3>2, <3>3, <3>5, <1>0 DEF VifRecord, RtnlRecord
    <2>q. QED
      BY <2>1, <2>2
  <1>3. ASSUME NEW p \in Ports, DelPort(p)
        PROVE  TypeOK' /\ Goal'
    <2>1. rtnl' \in RtnlRecord
      BY <1>3, RtnlTyped DEF DelPort
    <2>q. QED
      BY <1>3, <2>1, TypesRtnlMoves DEF DelPort
  <1>4. CASE NewVifAccount
    <2>1. /\ total' = rtnl.sum /\ numVif' = numVif + 1
          /\ rtnl' = [rtnl EXCEPT !.op = "files", !.sum = 0]
          /\ UNCHANGED <<loader, memory, bridge, rx, user, timer, exit, quota, fault, history>>
      BY <1>4 DEF NewVifAccount
    <2>2. numVif' \in Int /\ total' \in Unsigned
      BY <2>1
    <2>3. rtnl' \in RtnlRecord
      BY <2>1, RtnlTyped
    <2>q. QED
      BY <2>1, <2>2, <2>3, TypesRtnlMoves
  <1>5. CASE NewVifFiles
    <2>1. CASE Oops("proc_overflow") \/ Oops("freed_vif_rtnl")
      BY <2>1, <1>0, TypesOops
    <2>2. CASE ~ (Oops("proc_overflow") \/ Oops("freed_vif_rtnl"))
      <3>1. /\ rtnl.id \in live
            /\ procs' = procs \cup {rtnl.id}
            /\ rtnl' = [rtnl EXCEPT !.op = "attach"]
            /\ UNCHANGED <<loader, vif, live, active, CA, bridge, rx, user, timer, exit, quota,
                           fault, history>>
        BY <1>5, <2>2 DEF NewVifFiles
      <3>2. rtnl' \in RtnlRecord /\ procs' \subseteq VifIds
        BY <3>1, RtnlTyped
      <3>q. QED
        BY <3>1, <3>2, TypesRtnlMoves
    <2>q. QED
      BY <2>1, <2>2
  <1>11. CASE AttachPort
    <2>1. rtnl' \in RtnlRecord /\ attached' \subseteq Ports
      BY <1>11, RtnlTyped DEF AttachPort, Lives, Holder
    <2>q. QED
      BY <1>11, <2>1, TypesRtnlMoves DEF AttachPort
  <1>12. CASE LinkPort \/ LinkFails
    <2>1. rtnl' \in {NoRtnl, [rtnl EXCEPT !.op = "undo"]}
      BY <1>12 DEF LinkPort, LinkFails
    <2>2. NoRtnl \in RtnlRecord /\ [rtnl EXCEPT !.op = "undo"] \in RtnlRecord
      BY RtnlTyped
    <2>3. rtnl' \in RtnlRecord
      BY <2>1, <2>2
    <2>q. QED
      BY <1>12, <2>3, TypesRtnlMoves DEF LinkPort, LinkFails
  <1>6. CASE AddPortFails
    <2>1. vif' \in [VifIds -> VifRecord] /\ Goal'
      <3>1. vif \in [VifIds -> VifRecord]
        BY DEF VifRecord
      <3>2. \A v \in VifRecord : /\ [v EXCEPT !.port = FreedPort] \in VifRecord
                                /\ [v EXCEPT !.port = FreedPort].goal = v.goal
        BY DEF VifRecord
      <3>3. vif' = [i \in VifIds |-> IF i = rtnl.id THEN [vif[i] EXCEPT !.port = FreedPort]
                                                    ELSE vif[i]]
        BY <1>6 DEF AddPortFails
      <3>q. QED
        BY <3>1, <3>2, <3>3
    <2>2. rtnl' \in RtnlRecord /\ pvif' \in [Ports -> VifIds \cup {0}]
      BY <1>6 DEF AddPortFails, NoRtnl, RtnlRecord
    <2>q. QED
      BY <1>6, <2>1, <2>2, <1>0 DEF AddPortFails, VifRecord, RtnlRecord
  <1>7. CASE DelPortPlain
    <2>1. rtnl' \in RtnlRecord
      BY <1>7, RtnlTyped DEF DelPortPlain
    <2>q. QED
      BY <1>7, <2>1, TypesRtnlMoves DEF DelPortPlain
  <1>8. CASE del_vif
    <2>1. CASE Oops("null_vif") \/ Oops("stale_text") \/ Oops("freed_vif_rtnl")
      BY <2>1, <1>0, TypesOops
    <2>2. CASE ~ (Oops("null_vif") \/ Oops("stale_text") \/ Oops("freed_vif_rtnl"))
      <3>1. /\ active' = active \ {rtnl.id}
            /\ rtnl' = [rtnl EXCEPT !.op = "unaccount",
                                    !.sum = U(total - vif[rtnl.id].weight)]
            /\ due' = due \ {rtnl.id}
            /\ races' \subseteq races \cup {"weight", "walk", "unload"}
            /\ UNCHANGED <<loader, vif, live, procs, CA, bridge, rx, user, timer, exit, quota,
                           fault, owed>>
            /\ rtnl.id \in active
        BY <1>8, <2>2 DEF del_vif, WeightRace, Race
      <3>2. vif[rtnl.id].weight \in Unsigned
        BY <3>1
      <3>3. U(total - vif[rtnl.id].weight) \in Unsigned
        <4>1. total \in Int /\ vif[rtnl.id].weight \in Int
          BY <3>2, UnsignedInt
        <4>2. total - vif[rtnl.id].weight \in Int
          BY <4>1
        <4>q. QED
          BY <4>2
      <3>4. rtnl' \in RtnlRecord
        BY <3>1, <3>3 DEF RtnlRecord
      <3>q. QED
        BY <3>1, <3>4, <1>0 DEF RtnlRecord
    <2>q. QED
      BY <2>1, <2>2
  <1>9. CASE RcuFreesPort
    <2>1. rtnl' \in RtnlRecord
      BY <1>9, RtnlTyped DEF RcuFreesPort
    <2>q. QED
      BY <1>9, <2>1, TypesRtnlMoves DEF RcuFreesPort
  <1>10. CASE DelVifAccount \/ DelVifProc \/ DelVifFree
    <2>1. CASE Oops("freed_port")
      BY <2>1, <1>0, TypesOops
    <2>2. CASE DelVifAccount /\ ~ Oops("freed_port")
      <3>1. /\ total' = rtnl.sum /\ numVif' = numVif - 1
            /\ rtnl' = [rtnl EXCEPT !.op = "unproc", !.sum = 0]
            /\ UNCHANGED <<loader, memory, bridge, rx, user, timer, exit, quota, fault,
                           history>>
        BY <2>2 DEF DelVifAccount
      <3>2. numVif' \in Int /\ total' \in Unsigned
        BY <3>1
      <3>3. rtnl' \in RtnlRecord
        BY <3>1, RtnlTyped
      <3>q. QED
        BY <3>1, <3>2, <3>3, TypesRtnlMoves
    <2>3. CASE DelVifProc /\ ~ Oops("freed_port")
      <3>1. /\ procs' = procs \ {rtnl.id}
            /\ rtnl' = [rtnl EXCEPT !.op = "free"]
            /\ UNCHANGED <<loader, vif, live, active, CA, bridge, rx, user, timer, exit, quota,
                           fault, history>>
        BY <2>3 DEF DelVifProc
      <3>2. rtnl' \in RtnlRecord
        BY <3>1, RtnlTyped
      <3>q. QED
        BY <3>1, <3>2, TypesRtnlMoves
    <2>4. CASE DelVifFree /\ ~ Oops("freed_port")
      <3>1. /\ rtnl.op = "free"
            /\ live' = live \ {rtnl.id}
            /\ vif' = [vif EXCEPT ![rtnl.id] = NewRecord(FreedPort)]
            /\ pvif' = [pvif EXCEPT ![rtnl.port] = 0]
            /\ rtnl' = NoRtnl
            /\ UNCHANGED <<loader, active, procs, CA, attached, rx, user, timer, exit,
                           quota, fault, history>>
        BY <2>4 DEF DelVifFree
      <3>2. vif' \in [VifIds -> VifRecord] /\ Goal'
        BY <3>1, NewRecordTyped DEF VifRecord
      <3>3. rtnl' \in RtnlRecord /\ pvif' \in [Ports -> VifIds \cup {0}]
        BY <3>1 DEF NoRtnl, RtnlRecord
      <3>q. QED
        BY <3>1, <3>2, <3>3 DEF VifRecord, RtnlRecord
    <2>q. QED
      BY <1>10, <2>1, <2>2, <2>3, <2>4
  <1>q. QED
    BY <1>1, <1>2, <1>3, <1>4, <1>5, <1>6, <1>7, <1>8, <1>9, <1>10, <1>11,
       <1>12 DEF RtnlStep

\* Storing a field of a vif keeps the types of the vifs.
LEMMA StoreField ==
    ASSUME vif \in [VifIds -> VifRecord], Goal, NEW i \in VifIds, NEW x,
           \/ x \in Unsigned /\ vif' = [vif EXCEPT ![i].used = x]
           \/ x \in Unsigned /\ vif' = [vif EXCEPT ![i].weight = x]
           \/ x \in Tasks \cup {0} /\ vif' = [vif EXCEPT ![i].task = x]
           \/ x \in Goals /\ vif' = [vif EXCEPT ![i].goal = x]
    PROVE  vif' \in [VifIds -> VifRecord] /\ Goal'
  <1>1. Goals \subseteq Unsigned
    BY InputWords
  <1>2. vif' \in [VifIds -> VifRecord]
    BY <1>1 DEF VifRecord
  <1>3. Goal'
    BY DEF Goal, VifRecord
  <1>q. QED
    BY <1>2, <1>3

\* So do the cpus that charge frames ...
LEMMA TypesRx ==
    ASSUME TypeOK, Goal, NEW c \in Cpus,
           RxStore(c) \/ \E p \in Ports, len \in Lens : pay_credit(c, p, len)
    PROVE  TypeOK' /\ Goal'
  <1> USE DEF TypeOK, Goal, loader, memory, CA, bridge, contexts, history
  <1>0. {"stale_text", "null_vif", "freed_vif_rx"} \subseteq Faults /\ "rx" \in Overlaps
    BY DEF Faults, Overlaps
  <1>1. CASE Oops("stale_text") \/ Oops("null_vif") \/ Oops("freed_vif_rx")
    BY <1>0, <1>1, TypesOops
  <1>2. ASSUME NEW p \in Ports, NEW len \in Lens, pay_credit(c, p, len),
               ~ (Oops("stale_text") \/ Oops("null_vif"))
        PROVE  TypeOK' /\ Goal'
    <2>1. /\ pvif[p] # 0
          /\ rx' = [rx EXCEPT ![c] = [op |-> "pay", port |-> p, id |-> pvif[p], len |-> len,
                                      sum |-> Charged(pvif[p], len)]]
          /\ races' \subseteq races \cup {"rx"}
          /\ UNCHANGED <<loader, memory, CA, bridge, rtnl, user, timer, exit, quota, fault, due,
                         owed>>
      BY <1>2 DEF pay_credit, Race
    <2>2. Charged(pvif[p], len) \in Unsigned
      <3>1. vif[pvif[p]].used \in Int /\ len \in Int
        BY <2>1, UnsignedInt, InputWords
      <3>2. vif[pvif[p]].used + len \in Int
        BY <3>1
      <3>q. QED
        BY <3>2, StoredWord DEF Charged
    <2>3. rx' \in [Cpus -> Frame]
      BY <2>1, <2>2, InputWords DEF Frame
    <2>q. QED
      BY <2>1, <2>3, <1>0 DEF Frame
  <1>3. CASE RxStore(c) /\ ~ Oops("freed_vif_rx")
    <2>1. /\ rx[c].id \in live
          /\ vif' = [vif EXCEPT ![rx[c].id].used = rx[c].sum]
          /\ owed' = [owed EXCEPT ![rx[c].id] = @ + rx[c].len]
          /\ rx' = [rx EXCEPT ![c] = NoRx]
          /\ UNCHANGED <<loader, live, active, procs, CA, bridge, rtnl, user, timer, exit,
                         quota, fault, due, races>>
      BY <1>3 DEF RxStore
    <2>2. vif' \in [VifIds -> VifRecord] /\ Goal'
      <3>1. vif \in [VifIds -> VifRecord] /\ rx[c].id \in VifIds /\ rx[c].sum \in Unsigned
        BY <2>1 DEF VifRecord
      <3>q. QED
        BY <2>1, <3>1, StoreField
    <2>3. owed' \in [VifIds -> Nat]
      <3>1. rx[c].len \in Nat /\ owed[rx[c].id] \in Nat
        BY <2>1, ZeroWord
      <3>2. owed[rx[c].id] + rx[c].len \in Nat
        BY <3>1
      <3>q. QED
        BY <2>1, <3>2
    <2>4. rx' \in [Cpus -> Frame]
      BY <2>1, ZeroWord DEF Frame, NoRx
    <2>q. QED
      BY <2>1, <2>2, <2>3, <2>4 DEF VifRecord, Frame
  <1>q. QED
    BY <1>1, <1>2, <1>3

\* ... the processes that write files ...
LEMMA TypesUsers ==
    ASSUME TypeOK, Goal, Lives,
           \/ \E i \in VifIds : \/ \E g \in Goals : WriteGoal(i, g)
                                \/ \E t \in Tasks \cup {0} : WritePid(i, t)
           \/ \E u \in Users : UserStep(u) \/ \E i \in VifIds, w \in Weights : WriteWeight(u, i, w)
    PROVE  TypeOK' /\ Goal'
  <1> USE DEF TypeOK, Goal, loader, memory, CA, bridge, contexts, history
  <1>1. ASSUME NEW i \in VifIds, NEW g \in Goals, WriteGoal(i, g)
        PROVE  TypeOK' /\ Goal'
    <2>1. vif \in [VifIds -> VifRecord]
      BY DEF VifRecord
    <2>2. vif' \in [VifIds -> VifRecord] /\ Goal'
      BY <1>1, <2>1, StoreField DEF WriteGoal
    <2>q. QED
      BY <1>1, <2>2 DEF WriteGoal, VifRecord
  <1>2. ASSUME NEW i \in VifIds, NEW t \in Tasks \cup {0}, WritePid(i, t)
        PROVE  TypeOK' /\ Goal'
    <2>1. vif \in [VifIds -> VifRecord]
      BY DEF VifRecord
    <2>2. vif' \in [VifIds -> VifRecord] /\ Goal'
      BY <1>2, <2>1, StoreField DEF WritePid
    <2>3. races' \subseteq races \cup {"pid"}
      BY <1>2 DEF WritePid, Race
    <2>q. QED
      BY <1>2, <2>2, <2>3 DEF WritePid, VifRecord, Overlaps
  <1>3. ASSUME NEW u \in Users, NEW i \in VifIds, NEW w \in Weights, WriteWeight(u, i, w)
        PROVE  TypeOK' /\ Goal'
    <2>1. U(total + WeightChange(i, w)) \in Unsigned
      <3>1. total \in Int /\ w \in Int /\ vif[i].weight \in Int
        BY UnsignedInt, InputWords
      <3>2. total + (w - vif[i].weight) \in Int
        BY <3>1
      <3>q. QED
        BY <3>2, StoredWord DEF WeightChange
    <2>2. user' \in [Users -> Writer]
      BY <1>3, <2>1, InputWords DEF WriteWeight, Writer
    <2>3. races' \subseteq races \cup {"weight", "unlinked"}
      BY <1>3 DEF WriteWeight, WeightRace, Race
    <2>4. /\ UNCHANGED <<loader, memory, CA, bridge, rtnl, rx, timer, exit, quota, fault, due,
                         owed>>
          /\ races' \subseteq Overlaps
      BY <1>3, <2>3 DEF WriteWeight, Overlaps
    <2>q. QED
      BY <2>2, <2>4 DEF Writer
  <1>4. ASSUME NEW u \in Users, WriteWeightSum(u)
        PROVE  TypeOK' /\ Goal'
    <2>1. user \in [Users -> Writer]
      BY DEF Writer
    <2>2. user' = [user EXCEPT ![u].op = "set", ![u].sum = 0] /\ total' = user[u].sum
      BY <1>4 DEF WriteWeightSum
    <2>3. user' \in [Users -> Writer]
      <3>1. \A v \in Writer : [v EXCEPT !.op = "set", !.sum = 0] \in Writer
        BY ZeroWord DEF Writer
      <3>q. QED
        BY <2>1, <2>2, <3>1
    <2>4. total' \in Unsigned
      BY <2>1, <2>2 DEF Writer
    <2>q. QED
      BY <1>4, <2>3, <2>4 DEF WriteWeightSum, Writer
  <1>5. ASSUME NEW u \in Users, WriteWeightSet(u)
        PROVE  TypeOK' /\ Goal'
    <2>1. user[u].id \in VifIds /\ user[u].value \in Unsigned
      BY <1>5 DEF WriteWeightSet, Lives, Writers
    <2>2. vif' \in [VifIds -> VifRecord] /\ Goal'
      <3>1. vif \in [VifIds -> VifRecord]
        BY DEF VifRecord
      <3>q. QED
        BY <1>5, <2>1, <3>1, StoreField DEF WriteWeightSet
    <2>3. user' \in [Users -> Writer]
      BY <1>5, ZeroWord DEF WriteWeightSet, NoUser, Writer
    <2>q. QED
      BY <1>5, <2>2, <2>3 DEF WriteWeightSet, VifRecord, Writer
  <1>q. QED
    BY <1>1, <1>2, <1>3, <1>4, <1>5 DEF UserStep

\* ... the timer ...
LEMMA TypesTimer ==
    ASSUME TypeOK, Goal, Regulated, TimerStep
    PROVE  TypeOK' /\ Goal' /\ Regulated'
  <1> USE DEF TypeOK, Goal, Regulated, loader, memory, CA, bridge, contexts, history
  <1>0. /\ {"freed_vif_timer", "freed_ca", "null_task"} \subseteq Faults /\ "rx" \in Overlaps
        /\ live \subseteq VifIds /\ active \in SUBSET VifIds /\ timer \in WalkRecord
        /\ \A r \in WalkRecord : /\ r.cur \in VifIds \cup {0} /\ r.nxt \in VifIds \cup {0}
                                 /\ r.goal \in Unsigned /\ r.perf \in Nat
    BY DEF Faults, Overlaps, WalkRecord
  <1>1. CASE Oops("freed_vif_timer") \/ Oops("freed_ca") \/ Oops("null_task")
    BY <1>0, <1>1, TypesOops DEF Oops, code
  <1>v. ASSUME NEW i \in VifIds \cup {0}, Visit(i)
        PROVE  timer' \in WalkRecord /\ timer'.st = "walk"
    <2>1. NextOn(active, i) \in VifIds \cup {0}
      BY <1>0, NextOnBelow
    <2>2. timer' = [st |-> "walk", cur |-> i, nxt |-> NextOn(active, i), goal |-> 0,
                    perf |-> 0, after |-> 0]
      BY <1>v DEF Visit, NoTimer
    <2>q. QED
      BY <2>1, <2>2, ZeroWord DEF WalkRecord
  <1>2. CASE TimerFires
    <2>1. FirstOn(active) \in VifIds \cup {0}
      BY FirstOnGreatest
    <2>2. timer' \in WalkRecord /\ timer'.st = "walk"
      BY <1>2, <2>1, <1>v DEF TimerFires
    <2>q. QED
      BY <1>2, <2>2 DEF TimerFires, WalkRecord
  <1>3. CASE quota_control /\ ~ Oops("freed_vif_timer")
    <2> DEFINE v == vif[timer.cur]
               perf == Perf(v.used)
    <2>1. /\ timer.cur \in live
          /\ \/ /\ Regulates(v.goal, perf)
                /\ timer' = [timer EXCEPT !.st = "get", !.goal = v.goal, !.perf = perf]
             \/ timer' = [timer EXCEPT !.st = "reset"]
          /\ UNCHANGED <<loader, memory, CA, bridge, rtnl, rx, user, exit, quota, fault,
                         history>>
      BY <1>3 DEF quota_control, WalkMeetsFreed
    <2>2. v.goal \in Unsigned /\ v.goal \in Goals \cup {0} /\ perf \in Nat
      BY <1>0, <2>1, PerfRange
    <2> HIDE DEF v, perf
    <2>3. timer' \in WalkRecord
      <3>1. \A r \in WalkRecord :
               /\ [r EXCEPT !.st = "get", !.goal = v.goal, !.perf = perf] \in WalkRecord
               /\ [r EXCEPT !.st = "reset"] \in WalkRecord
        BY <2>2 DEF WalkRecord
      <3>2. /\ [timer EXCEPT !.st = "get", !.goal = v.goal, !.perf = perf] \in WalkRecord
            /\ [timer EXCEPT !.st = "reset"] \in WalkRecord
        BY <1>0, <3>1
      <3>q. QED
        BY <2>1, <3>2
    <2>4. timer'.st = "get" => timer'.goal = v.goal /\ timer'.perf = perf /\ Regulates(v.goal, perf)
      BY <2>1
    <2>5. timer'.st # "set"
      BY <2>1
    <2>q. QED
      BY <2>1, <2>2, <2>3, <2>4, <2>5 DEF WalkRecord
  <1>4. CASE GetQuota /\ ~ Oops("freed_vif_timer") /\ ~ Oops("null_task")
    <2> DEFINE q == quota[vif[timer.cur].task]
               next == NextQuota(timer.goal, timer.perf, q)
    <2>1. /\ timer.st = "get" /\ timer.cur \in live /\ vif[timer.cur].task # 0
          /\ timer' = [timer EXCEPT !.st = "set", !.goal = 0, !.perf = 0, !.after = next]
          /\ UNCHANGED <<loader, memory, CA, bridge, rtnl, rx, user, exit, quota, fault,
                         history>>
      BY <1>4 DEF GetQuota, WalkMeetsFreed
    <2>2. q \in StartQuotas \cup Quotas
      BY <1>0, <2>1
    <2>3. timer.goal \in Goals \cup {0} /\ timer.perf \in Nat /\ Regulates(timer.goal, timer.perf)
      BY <1>0, <2>1
    <2> HIDE DEF q
    <2>4. next \in Quotas
      BY <2>2, <2>3, QuotaTyped
    <2> HIDE DEF next
    <2>5. timer' \in WalkRecord /\ timer'.st = "set" /\ timer'.after = next
      BY <1>0, <2>1, <2>4, ZeroWord DEF WalkRecord
    <2>q. QED
      BY <2>1, <2>4, <2>5 DEF WalkRecord
  <1>5. CASE SetQuota /\ ~ Oops("freed_vif_timer") /\ ~ Oops("null_task")
    <2>1. /\ timer.st = "set" /\ timer.cur \in live /\ vif[timer.cur].task # 0
          /\ quota' = [quota EXCEPT ![vif[timer.cur].task] = timer.after]
          /\ timer' = [timer EXCEPT !.st = "reset", !.after = 0]
          /\ UNCHANGED <<loader, memory, CA, bridge, rtnl, rx, user, exit, fault, history>>
      BY <1>5 DEF SetQuota, WalkMeetsFreed
    <2>2. quota' \in [Tasks -> StartQuotas \cup Quotas]
      BY <1>0, <2>1
    <2>3. timer' \in WalkRecord /\ timer'.st = "reset"
      BY <1>0, <2>1 DEF WalkRecord
    <2>q. QED
      BY <2>1, <2>2, <2>3 DEF WalkRecord
  <1>6. CASE ResetCredit /\ ~ Oops("freed_vif_timer")
    <2>1. /\ timer.cur \in live
          /\ vif' = [vif EXCEPT ![timer.cur].used = 0]
          /\ owed' = [owed EXCEPT ![timer.cur] = 0]
          /\ due' = due \ {timer.cur}
          /\ races' \subseteq races \cup {"rx"}
          /\ Visit(timer.nxt)
          /\ UNCHANGED <<loader, live, active, procs, CA, bridge, rtnl, rx, user, exit, quota,
                         fault>>
      BY <1>6 DEF ResetCredit, WalkMeetsFreed, Race
    <2>2. vif' \in [VifIds -> VifRecord] /\ Goal'
      BY <1>0, <2>1, StoreField, ZeroWord DEF VifRecord
    <2>3. timer' \in WalkRecord /\ timer'.st = "walk"
      BY <1>0, <2>1, <1>v
    <2>4. owed' \in [VifIds -> Nat]
      BY <2>1
    <2>q. QED
      BY <1>0, <2>1, <2>2, <2>3, <2>4 DEF VifRecord, WalkRecord
  <1>7. CASE TimerRearms /\ ~ Oops("freed_ca")
    BY <1>7, ZeroWord DEF TimerRearms, NoTimer
  <1>q. QED
    BY <1>1, <1>2, <1>3, <1>4, <1>5, <1>6, <1>7 DEF TimerStep

\* ... the loader ...
LEMMA TypesLoader ==
    ASSUME TypeOK, Goal, vif_init \/ InitAllocator \/ InitFails \/ vif_exit
    PROVE  TypeOK' /\ Goal'
  <1> USE DEF TypeOK, Goal, loader, memory, CA, bridge, contexts, history
  <1>1. CASE vif_init
    BY <1>1, Bounds DEF vif_init
  <1>2. CASE InitAllocator
    BY <1>2, ZeroWord DEF InitAllocator
  <1>3. CASE InitFails
    BY <1>3 DEF InitFails
  <1>4. CASE vif_exit
    <2>1. /\ FirstOn(active) \in VifIds \cup {0}
          /\ NextOn(active, FirstOn(active)) \in VifIds \cup {0}
      BY FirstOnGreatest, NextOnBelow
    <2>2. /\ exit' = [NoExit EXCEPT !.op = "walk", !.cur = FirstOn(active),
                                    !.nxt = NextOn(active, FirstOn(active))]
          /\ races' \subseteq races \cup {"unload"} /\ module' = "unloading"
          /\ UNCHANGED <<loads, vifCnt, memory, CA, bridge, rtnl, rx, user, timer, quota, fault,
                         due, owed>>
      BY <1>4 DEF vif_exit, Race
    <2>3. exit' \in SweepRecord
      BY <2>1, <2>2, ZeroWord DEF NoExit, SweepRecord
    <2>q. QED
      BY <2>2, <2>3 DEF SweepRecord, Overlaps
  <1>q. QED
    BY <1>1, <1>2, <1>3, <1>4

\* ... and rmmod.
LEMMA TypesExit ==
    ASSUME TypeOK, Goal, Lives, ExitStep
    PROVE  TypeOK' /\ Goal'
  <1> USE DEF TypeOK, Goal, loader, memory, CA, bridge, contexts, history
  <1>0. /\ {"freed_vif_exit", "freed_port", "stale_text"} \subseteq Faults
        /\ {"weight", "walk", "rx"} \subseteq Overlaps /\ exit \in SweepRecord
    BY DEF Faults, Overlaps, SweepRecord
  <1>1. CASE Oops("freed_vif_exit") \/ Oops("freed_port") \/ Oops("stale_text")
    BY <1>0, <1>1, TypesOops
  <1>2. CASE ExitDelVif /\ ~ Oops("freed_vif_exit") /\ ~ Oops("freed_port")
    <2>1. /\ exit.cur \in active
          /\ active' = active \ {exit.cur}
          /\ exit' = [exit EXCEPT !.op = "unaccount", !.sum = U(total - vif[exit.cur].weight)]
          /\ due' = due \ {exit.cur}
          /\ races' \subseteq races \cup {"weight", "walk"}
          /\ UNCHANGED <<loader, vif, live, procs, CA, bridge, rtnl, rx, user, timer, quota,
                         fault, owed>>
      BY <1>2 DEF ExitDelVif, ExitMeetsFreed, WeightRace, Race
    <2>2. U(total - vif[exit.cur].weight) \in Unsigned
      <3>1. total \in Int /\ vif[exit.cur].weight \in Int
        BY <2>1, UnsignedInt
      <3>2. total - vif[exit.cur].weight \in Int
        BY <3>1
      <3>q. QED
        BY <3>2, StoredWord
    <2>3. exit' \in SweepRecord
      BY <1>0, <2>1, <2>2 DEF SweepRecord
    <2>q. QED
      BY <1>0, <2>1, <2>3 DEF SweepRecord
  <1>3. CASE ExitAccount /\ ~ Oops("freed_port")
    <2>1. /\ total' = exit.sum /\ numVif' = numVif - 1
          /\ exit' = [exit EXCEPT !.op = "unproc", !.sum = 0]
          /\ UNCHANGED <<loader, memory, bridge, rtnl, rx, user, timer, quota, fault, history>>
      BY <1>3 DEF ExitAccount, ExitMeetsFreed
    <2>2. numVif' \in Int /\ total' \in Unsigned
      BY <2>1
    <2>3. exit' \in SweepRecord
      BY <1>0, <2>1, ZeroWord DEF SweepRecord
    <2>q. QED
      BY <2>1, <2>2, <2>3 DEF SweepRecord
  <1>4. CASE ExitUnproc /\ ~ Oops("freed_port")
    BY <1>4 DEF ExitUnproc, ExitMeetsFreed
  <1>5. CASE ExitFree /\ ~ Oops("freed_port")
    <2>1. /\ exit.op = "free"
          /\ live' = live \ {exit.cur}
          /\ vif' = [vif EXCEPT ![exit.cur] = NewRecord(FreedPort)]
          /\ pvif' = [p \in Ports |-> IF pvif[p] = exit.cur THEN 0 ELSE pvif[p]]
          /\ exit' = [NoExit EXCEPT !.op = "walk", !.cur = exit.nxt,
                                    !.nxt = NextOn(active, exit.nxt)]
          /\ races' \subseteq races \cup {"rx"}
          /\ UNCHANGED <<loader, active, procs, CA, attached, rtnl, rx, user, timer, quota,
                         fault, due, owed>>
      BY <1>5 DEF ExitFree, ExitMeetsFreed, Race
    <2>2. vif' \in [VifIds -> VifRecord] /\ Goal'
      <3>1. NewRecord(FreedPort) \in VifRecord /\ NewRecord(FreedPort).goal = 0
        BY NewRecordTyped
      <3>2. vif \in [VifIds -> VifRecord]
        BY DEF VifRecord
      <3>q. QED
        BY <2>1, <3>1, <3>2
    <2>3. exit.nxt \in VifIds \cup {0} /\ NextOn(active, exit.nxt) \in VifIds \cup {0}
      BY NextOnBelow
    <2>4. exit' \in SweepRecord
      BY <2>1, <2>3, ZeroWord DEF NoExit, SweepRecord
    <2>5. pvif' \in [Ports -> VifIds \cup {0}]
      BY <2>1
    <2>q. QED
      BY <1>0, <2>1, <2>2, <2>4, <2>5 DEF VifRecord, SweepRecord
  <1>6. CASE ExitDone /\ ~ Oops("stale_text")
    <2>1. /\ module' = "gone" /\ procs' = {} /\ total' = 0 /\ numVif' = 0 /\ exit' = NoExit
          /\ timer' \in {NoTimer, timer}
          /\ UNCHANGED <<loads, vifCnt, vif, live, active, bridge, rtnl, rx, user, quota,
                         fault, history>>
      BY <1>6 DEF ExitDone
    <2>2. timer' \in WalkRecord /\ exit' \in SweepRecord
      BY <2>1, ZeroWord DEF NoTimer, NoExit, WalkRecord, SweepRecord
    <2>3. Goal'
      BY <2>1 DEF NoTimer
    <2>q. QED
      BY <2>1, <2>2, <2>3, ZeroWord DEF WalkRecord, SweepRecord
  <1>q. QED
    BY <1>1, <1>2, <1>3, <1>4, <1>5, <1>6 DEF ExitStep

\* Every step keeps the types.
LEMMA TypesStep ==
    ASSUME TypeOK, Goal, Regulated, Lives, [Next]_vars
    PROVE  TypeOK' /\ Goal'
  <1>1. CASE Halted \/ UNCHANGED vars
    BY <1>1 DEF Halted, vars, code, TypeOK, Goal, loader, memory, CA, bridge, contexts, history
  <1>q. QED
    BY <1>1, TypesRtnl, TypesRx, TypesUsers, TypesTimer, TypesLoader, TypesExit DEF Next

\* Only the timer gets to the computation of a quota.
LEMMA RegulatedStep ==
    ASSUME TypeOK, Goal, Regulated, [Next]_vars
    PROVE  Regulated'
  <1> USE DEF loader, memory, CA, bridge, contexts, history
  <1>k. ASSUME UNCHANGED timer
        PROVE  Regulated'
    BY <1>k DEF Regulated
  <1>o. CASE \E kind : Oops(kind)
    BY <1>o, <1>k, OopsChanges DEF code
  <1>1. CASE TimerStep
    BY <1>1, TypesTimer
  <1>2. CASE InitAllocator
    BY <1>2 DEF InitAllocator, Regulated, TypeOK
  <1>3. CASE ExitDone /\ ~ \E kind : Oops(kind)
    BY <1>3 DEF ExitDone, Regulated, NoTimer
  <1>4. ASSUME NEW p \in Ports, NewPort(p) \/ new_vif(p) \/ DelPort(p), ~ \E kind : Oops(kind)
        PROVE  UNCHANGED timer
    BY <1>4 DEF NewPort, new_vif, DelPort
  <1>5. CASE (RtnlStep \/ RcuFreesPort) /\ ~ \E kind : Oops(kind)
    <2>1. UNCHANGED timer
      BY <1>5 DEF RtnlStep, NewVifAccount, NewVifFiles, AttachPort, LinkPort, LinkFails,
                  AddPortFails, DelPortPlain, del_vif, DelVifAccount, DelVifProc, DelVifFree,
                  RcuFreesPort
    <2>q. QED
      BY <2>1, <1>k
  <1>6. CASE vif_init \/ InitFails \/ vif_exit
    BY <1>6, <1>k DEF vif_init, InitFails, vif_exit
  <1>7. ASSUME NEW c \in Cpus, ~ \E kind : Oops(kind),
               RxStore(c) \/ \E p \in Ports, len \in Lens : pay_credit(c, p, len)
        PROVE  UNCHANGED timer
    BY <1>7 DEF RxStore, pay_credit
  <1>8. ASSUME NEW i \in VifIds, NEW x, WriteGoal(i, x) \/ WritePid(i, x)
        PROVE  UNCHANGED timer
    BY <1>8 DEF WriteGoal, WritePid
  <1>9. ASSUME NEW u \in Users,
               UserStep(u) \/ \E i \in VifIds, w \in Weights : WriteWeight(u, i, w)
        PROVE  UNCHANGED timer
    BY <1>9 DEF UserStep, WriteWeightSum, WriteWeightSet, WriteWeight
  <1>10. CASE (ExitDelVif \/ ExitAccount \/ ExitUnproc \/ ExitFree) /\ ~ \E kind : Oops(kind)
    <2>1. UNCHANGED timer
      BY <1>10 DEF ExitDelVif, ExitAccount, ExitUnproc, ExitFree, ExitMeetsFreed
    <2>q. QED
      BY <2>1, <1>k
  <1>11. CASE Halted \/ UNCHANGED vars
    BY <1>11, <1>k DEF Halted, vars, code
  <1>q. QED
    BY <1>k, <1>o, <1>1, <1>2, <1>3, <1>4, <1>5, <1>6, <1>7, <1>8, <1>9, <1>10, <1>11
    DEF Next, ExitStep

-----------------------------------------------------------------------------
(* ports and their vifs *)

PortsOK == Owners /\ Hooked /\ Quiet

\* A step that leaves ports and vifs alone, but for a counter, a weight, a goal or a pid.
LEMMA PortsUnchanged ==
    ASSUME TypeOK, Lives, PortsOK, UNCHANGED <<module, active, attached, pvif, rtnl, exit>>,
           \A i \in VifIds : vif'[i].port = vif[i].port, races \subseteq races'
    PROVE  PortsOK'
  <1>1. Exiting => exit.cur \in VifIds
    BY DEF Lives, Remover, Exiting, TypeOK
  <1>q. QED
    BY <1>1 DEF PortsOK, Owners, Hooked, Quiet, HooksSet, Exiting, TypeOK

\* A step of the RTNL holder that keeps the port and what it has for its vif.
LEMMA PortsMove ==
    ASSUME TypeOK, PortsOK, UNCHANGED <<module, vif, active, attached, pvif, exit, races>>,
           rtnl.op # "idle", rtnl'.op # "idle", rtnl'.port = rtnl.port,
           \/ rtnl'.op \in {"unaccount", "unproc", "free"}
           \/ rtnl.op \in {"account", "files", "attach"}
    PROVE  PortsOK'
  BY DEF PortsOK, Owners, Hooked, Quiet, HooksSet, Exiting

\* A new vif belongs to the new port; a failed addition is on record.
LEMMA PortsAdd ==
    ASSUME TypeOK, Lives, PortsOK,
           \/ \E p \in Ports : NewPort(p) \/ new_vif(p)
           \/ NewVifAccount \/ NewVifFiles \/ AttachPort \/ LinkPort \/ LinkFails \/ AddPortFails
    PROVE  PortsOK'
  <1> USE DEF PortsOK, Owners, Hooked, Quiet, HooksSet, Exiting, loader, memory, CA, bridge,
              contexts, history
  <1>o. CASE \E kind : Oops(kind)
    BY <1>o, PortsUnchanged, OopsChanges DEF code
  <1>1. ASSUME NEW p \in Ports, NewPort(p)
        PROVE  PortsOK'
    <2>1. live = {} /\ active = {} /\ exit.op = "idle"
      BY <1>1 DEF NewPort, Lives, Loaded, NoLeak, TypeOK
    <2>q. QED
      BY <1>1, <2>1 DEF NewPort
  <1>2. ASSUME NEW p \in Ports, new_vif(p), ~ \E kind : Oops(kind)
        PROVE  PortsOK'
    <2>1. /\ rtnl.op = "idle" /\ p \notin attached /\ vifCnt <= MaxVifs /\ HasCA
          /\ Documented => module # "loading" /\ module # "unloading"
          /\ vif' = [vif EXCEPT ![vifCnt] = NewRecord(p)]
          /\ active' = active \cup {vifCnt}
          /\ pvif' = [pvif EXCEPT ![p] = vifCnt]
          /\ rtnl' = [NoRtnl EXCEPT !.op = "account", !.port = p, !.id = vifCnt,
                                    !.sum = U(total + 1)]
          /\ races \subseteq races'
          /\ UNCHANGED <<module, attached, exit>>
      BY <1>2 DEF new_vif
    <2>2. vifCnt \in VifIds
      <3>1. vifCnt \in Int /\ vifCnt >= 1
        BY <2>1, Bounds DEF Lives, Loaded, TypeOK, HasCA
      <3>q. QED
        BY <3>1, <2>1, NewId
    <2>3. vifCnt \notin live /\ \A i \in active : i # vifCnt
      BY <2>2 DEF Lives, Loaded, NoLeak, TypeOK, VifIds
    <2>4. rtnl'.op = "account" /\ rtnl'.port = p
      BY <2>1 DEF NoRtnl
    <2>5. /\ vif'[vifCnt].port = p /\ pvif'[p] = vifCnt
          /\ \A i \in active : vif'[i] = vif[i]
          /\ \A q \in Ports \ {p} : pvif'[q] = pvif[q]
      BY <2>1, <2>2, <2>3, NewRecordTyped DEF TypeOK
    <2>6. Exiting => vif'[exit.cur] = vif[exit.cur]
      <3>1. Exiting => exit.cur \in live
        BY DEF Lives, NoLeak
      <3>q. QED
        BY <2>1, <2>2, <2>3, <3>1 DEF TypeOK
    <2>7. Owners'
      BY <2>1, <2>4, <2>5, <2>6
    <2>8. Hooked'
      <3>1. vifCnt # 0 /\ module # "absent"
        BY <2>1, <2>2, AllocatorAssumption DEF VifIds, HasCA
      <3>q. QED
        BY <2>1, <2>4, <2>5, <3>1
    <2>9. Quiet'
      BY <2>1
    <2>q. QED
      BY <2>7, <2>8, <2>9
  <1>3. CASE NewVifAccount
    <2>1. /\ rtnl.op = "account"
          /\ rtnl' = [rtnl EXCEPT !.op = "files", !.sum = 0]
          /\ UNCHANGED <<module, vif, active, attached, pvif, exit, races>>
      BY <1>3 DEF NewVifAccount
    <2>2. rtnl'.op = "files" /\ rtnl'.port = rtnl.port
      BY <2>1 DEF TypeOK
    <2>q. QED
      BY <2>1, <2>2, PortsMove
  <1>4. CASE NewVifFiles /\ ~ \E kind : Oops(kind)
    <2>1. /\ rtnl.op = "files"
          /\ rtnl' = [rtnl EXCEPT !.op = "attach"]
          /\ UNCHANGED <<module, vif, active, attached, pvif, exit, races>>
      BY <1>4 DEF NewVifFiles
    <2>2. rtnl'.op = "attach" /\ rtnl'.port = rtnl.port
      BY <2>1 DEF TypeOK
    <2>q. QED
      BY <2>1, <2>2, PortsMove
  <1>5. CASE AttachPort
    <2>1. /\ rtnl.op = "attach" /\ attached' = attached \cup {rtnl.port}
          /\ rtnl' = [rtnl EXCEPT !.op = "link"]
          /\ UNCHANGED <<module, vif, active, pvif, exit, races>>
      BY <1>5 DEF AttachPort
    <2>2. rtnl'.op = "link" /\ rtnl'.port = rtnl.port
      BY <2>1 DEF TypeOK
    <2>q. QED
      BY <2>1, <2>2
  <1>6. CASE LinkPort
    <2>1. /\ rtnl.op = "link" /\ rtnl' = NoRtnl
          /\ UNCHANGED <<module, vif, active, attached, pvif, exit, races>>
      BY <1>6 DEF LinkPort
    <2>2. rtnl.port \in attached /\ rtnl'.op = "idle"
      BY <2>1 DEF Lives, Holder, NoRtnl
    <2>q. QED
      BY <2>1, <2>2
  <1>7. CASE LinkFails
    <2>1. /\ rtnl.op = "link" /\ attached' = attached \ {rtnl.port}
          /\ rtnl' = [rtnl EXCEPT !.op = "undo"]
          /\ UNCHANGED <<module, vif, active, pvif, exit, races>>
      BY <1>7 DEF LinkFails
    <2>2. rtnl'.op = "undo" /\ rtnl'.port = rtnl.port
      BY <2>1 DEF TypeOK
    <2>q. QED
      BY <2>1, <2>2
  <1>8. CASE AddPortFails
    <2>1. /\ "add_failed" \in races'
          /\ rtnl.op \in {"attach", "undo"} /\ rtnl'.op = "idle"
          /\ pvif' = [pvif EXCEPT ![rtnl.port] = 0]
          /\ UNCHANGED <<module, attached>>
      BY <1>8 DEF AddPortFails, NoRtnl
    <2>2. rtnl.port \in Ports \ attached
      BY <2>1 DEF Lives, Holder
    <2>q. QED
      BY <2>1, <2>2 DEF TypeOK
  <1>q. QED
    BY <1>o, <1>1, <1>2, <1>3, <1>4, <1>5, <1>6, <1>7, <1>8

\* A vif leaves the list before its port forgets it.
LEMMA PortsDelete ==
    ASSUME TypeOK, Lives, PortsOK,
           \/ \E p \in Ports : DelPort(p)
           \/ DelPortPlain \/ del_vif \/ RcuFreesPort
           \/ DelVifAccount \/ DelVifProc \/ DelVifFree
    PROVE  PortsOK'
  <1> USE DEF PortsOK, Owners, Hooked, Quiet, HooksSet, Exiting, loader, memory, CA, bridge,
              contexts, history
  <1>o. CASE \E kind : Oops(kind)
    BY <1>o, PortsUnchanged, OopsChanges DEF code
  <1>1. ASSUME NEW p \in Ports, DelPort(p)
        PROVE  PortsOK'
    <2>1. /\ rtnl.op = "idle" /\ p \in attached /\ attached' = attached \ {p}
          /\ rtnl'.op = "quiesce" /\ rtnl'.port = p
          /\ UNCHANGED <<module, vif, active, pvif, exit, races>>
      BY <1>1 DEF DelPort, NoRtnl
    <2>q. QED
      BY <2>1
  <1>2. CASE DelPortPlain
    <2>1. live = {} /\ active = {} /\ exit.op = "idle"
      BY <1>2 DEF DelPortPlain, HooksSet, Lives, Loaded, NoLeak, TypeOK
    <2>q. QED
      BY <1>2, <2>1 DEF DelPortPlain, NoRtnl
  <1>3. CASE del_vif /\ ~ \E kind : Oops(kind)
    <2>1. /\ rtnl.op = "quiesce"
          /\ active' = active \ {rtnl.id}
          /\ rtnl' = [rtnl EXCEPT !.op = "unaccount",
                                  !.sum = U(total - vif[rtnl.id].weight)]
          /\ races \subseteq races'
          /\ Documented => module # "loading" /\ module # "unloading"
          /\ UNCHANGED <<module, vif, attached, pvif, exit>>
      BY <1>3 DEF del_vif
    <2>2. rtnl'.op = "unaccount" /\ rtnl'.port = rtnl.port
      BY <2>1 DEF TypeOK
    <2>q. QED
      BY <2>1, <2>2
  <1>4. CASE RcuFreesPort
    <2>1. /\ rtnl.op \in {"unaccount", "unproc", "free"}
          /\ rtnl' = [rtnl EXCEPT !.pfreed = TRUE]
          /\ UNCHANGED <<module, vif, active, attached, pvif, exit, races>>
      BY <1>4 DEF RcuFreesPort
    <2>2. rtnl'.op = rtnl.op /\ rtnl'.port = rtnl.port
      BY <2>1 DEF TypeOK
    <2>q. QED
      BY <2>1, <2>2, PortsMove
  <1>5. CASE (DelVifAccount \/ DelVifProc) /\ ~ \E kind : Oops(kind)
    <2>1. /\ rtnl.op \in {"unaccount", "unproc"}
          /\ \/ rtnl' = [rtnl EXCEPT !.op = "unproc", !.sum = 0]
             \/ rtnl' = [rtnl EXCEPT !.op = "free"]
          /\ UNCHANGED <<module, vif, active, attached, pvif, exit, races>>
      BY <1>5 DEF DelVifAccount, DelVifProc
    <2>2. rtnl'.op \in {"unproc", "free"} /\ rtnl'.port = rtnl.port
      BY <2>1 DEF TypeOK
    <2>q. QED
      BY <2>1, <2>2, PortsMove
  <1>7. CASE DelVifFree /\ ~ \E kind : Oops(kind)
    <2>1. /\ rtnl.op = "free"
          /\ vif' = [vif EXCEPT ![rtnl.id] = NewRecord(FreedPort)]
          /\ pvif' = [pvif EXCEPT ![rtnl.port] = 0]
          /\ rtnl'.op = "idle"
          /\ UNCHANGED <<module, active, attached, exit, races>>
      BY <1>7 DEF DelVifFree, NoRtnl
    <2>2. /\ rtnl.id \notin active /\ rtnl.port \in Ports \ attached
          /\ pvif[rtnl.port] = rtnl.id /\ (Exiting => exit.cur # rtnl.id)
      BY <2>1 DEF Lives, Holder, Remover, Deleting
    <2>3. /\ \A i \in active : vif'[i] = vif[i]
          /\ Exiting => vif'[exit.cur] = vif[exit.cur]
          /\ \A p \in Ports \ {rtnl.port} : pvif'[p] = pvif[p]
      BY <2>1, <2>2 DEF TypeOK
    <2>4. "add_failed" \notin races => \A i \in active : vif[i].port # rtnl.port
      BY <2>2
    <2>5. Owners'
      BY <2>1, <2>3, <2>4
    <2>6. Hooked' /\ Quiet'
      BY <2>1, <2>2, <2>3 DEF TypeOK
    <2>q. QED
      BY <2>5, <2>6
  <1>q. QED
    BY <1>o, <1>1, <1>2, <1>3, <1>4, <1>5, <1>7

\* The other contexts.
LEMMA PortsElse ==
    ASSUME TypeOK, TypeOK', Lives, PortsOK,
           \/ \E c \in Cpus : RxStore(c) \/ \E p \in Ports, len \in Lens : pay_credit(c, p, len)
           \/ \E i \in VifIds : \/ \E g \in Goals : WriteGoal(i, g)
                                \/ \E t \in Tasks \cup {0} : WritePid(i, t)
           \/ \E u \in Users : UserStep(u) \/ \E i \in VifIds, w \in Weights : WriteWeight(u, i, w)
           \/ TimerStep \/ Halted \/ UNCHANGED vars
    PROVE  PortsOK'
  <1> USE DEF loader, memory, CA, bridge, contexts, history
  <1> DEFINE Kept == /\ UNCHANGED <<module, active, attached, pvif, rtnl, exit>>
                     /\ \A i \in VifIds : vif'[i].port = vif[i].port
                     /\ races \subseteq races'
  <1>o. CASE \E kind : Oops(kind)
    BY <1>o, OopsChanges, PortsUnchanged DEF code
  <1>1. ASSUME NEW c \in Cpus, RxStore(c), ~ \E kind : Oops(kind)
        PROVE  Kept
    <2>1. /\ UNCHANGED <<module, active, attached, pvif, rtnl, exit, races>>
          /\ vif' = [vif EXCEPT ![rx[c].id].used = rx[c].sum]
      BY <1>1 DEF RxStore
    <2>q. QED
      BY <2>1 DEF TypeOK
  <1>2. ASSUME NEW c \in Cpus, NEW p \in Ports, NEW len \in Lens, pay_credit(c, p, len),
               ~ \E kind : Oops(kind)
        PROVE  Kept
    BY <1>2 DEF pay_credit
  <1>3. ASSUME NEW i \in VifIds, NEW g, WriteGoal(i, g)
        PROVE  Kept
    BY <1>3 DEF WriteGoal, TypeOK
  <1>4. ASSUME NEW i \in VifIds, NEW t, WritePid(i, t)
        PROVE  Kept
    <2>1. /\ UNCHANGED <<module, active, attached, pvif, rtnl, exit>> /\ races \subseteq races'
          /\ vif' = [vif EXCEPT ![i].task = t]
      BY <1>4 DEF WritePid
    <2>q. QED
      BY <2>1 DEF TypeOK
  <1>5. ASSUME NEW u \in Users, NEW i \in VifIds, NEW w \in Weights, WriteWeight(u, i, w)
        PROVE  Kept
    BY <1>5 DEF WriteWeight
  <1>6. ASSUME NEW u \in Users, UserStep(u)
        PROVE  Kept
    <2>1. /\ UNCHANGED <<module, active, attached, pvif, rtnl, exit, races>>
          /\ vif' = vif \/ vif' = [vif EXCEPT ![user[u].id].weight = user[u].value]
      BY <1>6 DEF UserStep, WriteWeightSum, WriteWeightSet
    <2>2. CASE vif' = vif
      BY <2>1, <2>2
    <2>3. CASE vif' = [vif EXCEPT ![user[u].id].weight = user[u].value]
      <3>1. \A i \in VifIds : vif'[i].port = vif[i].port
        BY <2>3 DEF TypeOK
      <3>q. QED
        BY <2>1, <3>1
    <2>q. QED
      BY <2>1, <2>2, <2>3
  <1>7. CASE TimerStep /\ ~ \E kind : Oops(kind)
    <2>1. CASE ResetCredit
      <3>1. /\ UNCHANGED <<module, active, attached, pvif, rtnl, exit>>
            /\ races \subseteq races'
            /\ vif' = [vif EXCEPT ![timer.cur].used = 0]
        BY <1>7, <2>1 DEF ResetCredit, WalkMeetsFreed
      <3>2. Kept
        BY <3>1 DEF TypeOK
      <3>q. QED
        BY <3>2, PortsUnchanged
    <2>2. CASE TimerFires \/ quota_control \/ GetQuota \/ SetQuota \/ TimerRearms
      BY <1>7, <2>2, PortsUnchanged
      DEF TimerFires, quota_control, GetQuota, SetQuota, TimerRearms, WalkMeetsFreed
    <2>q. QED
      BY <1>7, <2>1, <2>2 DEF TimerStep
  <1>8. CASE Halted \/ UNCHANGED vars
    BY <1>8, PortsUnchanged DEF Halted, vars, code
  <1>q. QED
    BY <1>o, <1>1, <1>2, <1>3, <1>4, <1>5, <1>6, <1>7, <1>8, PortsUnchanged

\* README's way is to load and unload the module when every port is gone.
LEMMA PortsLoader ==
    ASSUME TypeOK, Lives, PortsOK, vif_init \/ InitAllocator \/ InitFails \/ vif_exit
    PROVE  PortsOK'
  <1> USE DEF PortsOK, Owners, Hooked, Quiet, HooksSet, Exiting, loader, memory, CA, bridge,
              contexts, history
  <1>1. CASE vif_init
    BY <1>1 DEF vif_init, Admitted
  <1>2. CASE InitAllocator
    BY <1>2 DEF InitAllocator
  <1>3. CASE InitFails
    BY <1>3 DEF InitFails
  <1>4. CASE vif_exit
    <2>1. /\ module = "loaded" /\ module' = "unloading" /\ exit'.op = "walk"
          /\ Documented => rtnl.op = "idle" /\ attached \subseteq SystemPorts
          /\ races \subseteq races'
          /\ UNCHANGED <<vif, active, attached, pvif, rtnl>>
      BY <1>4 DEF vif_exit, Admitted, NoExit
    <2>q. QED
      BY <2>1
  <1>q. QED
    BY <1>1, <1>2, <1>3, <1>4

\* rmmod, too, takes a vif off the list before the port forgets it.
LEMMA PortsExit ==
    ASSUME TypeOK, Lives, PortsOK, ExitStep
    PROVE  PortsOK'
  <1> USE DEF PortsOK, Owners, Hooked, Quiet, HooksSet, Exiting, loader, memory, CA, bridge,
              contexts, history
  <1>o. CASE \E kind : Oops(kind)
    BY <1>o, PortsUnchanged, OopsChanges DEF code
  <1>1. CASE ExitDelVif /\ ~ \E kind : Oops(kind)
    <2>1. /\ exit.op = "walk" /\ exit.cur \in active
          /\ active' = active \ {exit.cur}
          /\ exit' = [exit EXCEPT !.op = "unaccount", !.sum = U(total - vif[exit.cur].weight)]
          /\ races \subseteq races'
          /\ UNCHANGED <<module, vif, attached, pvif, rtnl>>
      BY <1>1 DEF ExitDelVif, ExitMeetsFreed
    <2>2. exit'.op = "unaccount" /\ exit'.cur = exit.cur
      BY <2>1 DEF TypeOK
    <2>q. QED
      BY <2>1, <2>2
  <1>2. CASE (ExitAccount \/ ExitUnproc) /\ ~ \E kind : Oops(kind)
    <2>1. /\ exit.op \in {"unaccount", "unproc"}
          /\ \/ exit' = [exit EXCEPT !.op = "unproc", !.sum = 0]
             \/ exit' = [exit EXCEPT !.op = "free"]
          /\ UNCHANGED <<module, vif, active, attached, pvif, rtnl, races>>
      BY <1>2 DEF ExitAccount, ExitUnproc, ExitMeetsFreed
    <2>2. exit'.cur = exit.cur
      BY <2>1 DEF TypeOK
    <2>q. QED
      BY <2>1, <2>2
  <1>3. CASE ExitFree /\ ~ \E kind : Oops(kind)
    <2>1. /\ exit.op = "free"
          /\ vif' = [vif EXCEPT ![exit.cur] = NewRecord(FreedPort)]
          /\ pvif' = [p \in Ports |-> IF pvif[p] = exit.cur THEN 0 ELSE pvif[p]]
          /\ exit'.op = "walk"
          /\ races \subseteq races'
          /\ UNCHANGED <<module, active, attached, rtnl>>
      BY <1>3 DEF ExitFree, ExitMeetsFreed, NoExit
    <2>2. exit.cur \notin active /\ module = "unloading"
      BY <2>1 DEF Lives, Remover, Loaded, TypeOK
    <2>3. /\ \A i \in active : vif'[i] = vif[i]
          /\ \A p \in Ports : pvif[p] \in active => pvif'[p] = pvif[p]
      BY <2>1, <2>2 DEF TypeOK
    <2>4. Owners'
      BY <2>1, <2>3
    <2>5. Hooked' /\ Quiet'
      BY <2>1, <2>2
    <2>q. QED
      BY <2>4, <2>5
  <1>4. CASE ExitDone /\ ~ \E kind : Oops(kind)
    <2>1. /\ module = "unloading" /\ module' = "gone" /\ exit'.op = "idle"
          /\ UNCHANGED <<vif, active, attached, pvif, rtnl, races>>
      BY <1>4 DEF ExitDone, NoExit, Lives, Loaded, TypeOK
    <2>q. QED
      BY <2>1
  <1>q. QED
    BY <1>o, <1>1, <1>2, <1>3, <1>4 DEF ExitStep

\* Every step keeps ports and vifs together.
LEMMA PortsStep ==
    ASSUME TypeOK, TypeOK', Lives, PortsOK, [Next]_vars
    PROVE  PortsOK'
  BY PortsAdd, PortsDelete, PortsElse, PortsLoader, PortsExit DEF Next, RtnlStep

-----------------------------------------------------------------------------
(* frames *)

Traffic == Frames /\ Charges

\* the step touches no frame, no counter and no port
TrafficKept ==
    /\ UNCHANGED <<rx, pvif, attached, live, owed>>
    /\ \A i \in VifIds : vif'[i].used = vif[i].used
    /\ races \subseteq races'
    /\ rtnl.op \in {"quiesce", "undo"} =>
          rtnl'.op \in {"quiesce", "undo"} /\ rtnl'.port = rtnl.port

\* Such a step keeps frames and charges as they are.
LEMMA TrafficUnchanged ==
    ASSUME TypeOK, Traffic, TrafficKept
    PROVE  Traffic'
  BY DEF Traffic, TrafficKept, Frames, Charges, UsedExact, TypeOK

\* Where the invariant speaks of frames, the vif of a frame is allocated, and it is not the one
\* that the RTNL holder deletes.
LEMMA FrameVif ==
    ASSUME TypeOK, Lives, Frames, "rx" \notin races \/ (Documented /\ SystemPorts = {}),
           NEW c \in Cpus, rx[c].op = "pay"
    PROVE  /\ rx[c].id \in live /\ rx[c].id \in VifIds
           /\ rx[c].port \in Ports /\ rx[c].id = pvif[rx[c].port]
           /\ \/ rx[c].port \in attached
              \/ rtnl.op \in {"quiesce", "undo"} /\ rx[c].port = rtnl.port
           /\ Deleting => rx[c].id # rtnl.id
  BY DEF Frames, Lives, PortVif, NoLeak, Holder, Deleting, TypeOK

\* Ports come without frames, and go again when none is left.
LEMMA TrafficAdd ==
    ASSUME TypeOK, Lives, Traffic,
           \/ \E p \in Ports : NewPort(p) \/ new_vif(p)
           \/ NewVifAccount \/ NewVifFiles \/ AttachPort \/ LinkPort \/ LinkFails \/ AddPortFails
    PROVE  Traffic'
  <1> USE DEF loader, memory, CA, bridge, contexts, history
  <1>o. CASE \E kind : Oops(kind)
    BY <1>o, TrafficUnchanged, OopsChanges DEF code, TrafficKept
  <1>1. ASSUME NEW p \in Ports, NewPort(p)
        PROVE  Traffic'
    BY <1>1, TrafficUnchanged DEF NewPort, TrafficKept
  <1>2. ASSUME NEW p \in Ports, new_vif(p), ~ \E kind : Oops(kind)
        PROVE  Traffic'
    <2>1. /\ rtnl.op = "idle" /\ p \notin attached /\ vifCnt <= MaxVifs
          /\ vif' = [vif EXCEPT ![vifCnt] = NewRecord(p)]
          /\ live' = live \cup {vifCnt}
          /\ pvif' = [pvif EXCEPT ![p] = vifCnt]
          /\ rtnl' = [NoRtnl EXCEPT !.op = "account", !.port = p, !.id = vifCnt,
                                    !.sum = U(total + 1)]
          /\ races \subseteq races' /\ ("rx" \in races' => "rx" \in races)
          /\ owed' = [owed EXCEPT ![vifCnt] = 0]
          /\ UNCHANGED <<attached, rx>>
          /\ HasCA
      BY <1>2 DEF new_vif, WeightRace, Race
    <2>2. vifCnt \in VifIds /\ vifCnt \notin live
      <3>1. vifCnt \in Int /\ vifCnt >= 1 /\ \A i \in live : i < vifCnt /\ i \in Int
        BY <2>1, Bounds DEF Lives, Loaded, TypeOK, VifIds, HasCA
      <3>q. QED
        BY <3>1, <2>1, NewId
    <2>3. /\ vif'[vifCnt].used = 0 /\ owed'[vifCnt] = 0
          /\ \A i \in live : vif'[i] = vif[i] /\ owed'[i] = owed[i]
      BY <2>1, <2>2, NewRecordTyped DEF TypeOK
    <2>4. Frames'
      BY <2>1 DEF Frames, TypeOK, Traffic
    <2>5. Charges'
      BY <2>1, <2>3, FrameVif DEF Charges, UsedExact, Traffic
    <2>q. QED
      BY <2>4, <2>5 DEF Traffic
  <1>3. CASE (NewVifAccount \/ NewVifFiles) /\ ~ \E kind : Oops(kind)
    BY <1>3, TrafficUnchanged DEF NewVifAccount, NewVifFiles, TrafficKept
  <1>4. CASE AttachPort
    BY <1>4 DEF AttachPort, Traffic, Frames, Charges, UsedExact, TypeOK
  <1>5. CASE LinkPort
    BY <1>5, TrafficUnchanged DEF LinkPort, TrafficKept
  <1>6. CASE LinkFails
    <2>1. /\ rtnl.op = "link" /\ attached' = attached \ {rtnl.port}
          /\ rtnl'.op = "undo" /\ rtnl'.port = rtnl.port
          /\ UNCHANGED <<pvif, rx, vif, live, owed, races>>
      BY <1>6 DEF LinkFails, TypeOK
    <2>2. Frames'
      BY <2>1 DEF Traffic, Frames
    <2>3. Charges'
      BY <2>1 DEF Traffic, Charges, UsedExact
    <2>q. QED
      BY <2>2, <2>3 DEF Traffic
  <1>7. CASE AddPortFails
    <2>1. /\ rtnl.op = "attach" \/ (rtnl.op = "undo" /\ Quiesced(rtnl.port))
          /\ rtnl.port \in Ports \ attached
          /\ \A i \in VifIds : vif'[i].used = vif[i].used
          /\ pvif' = [pvif EXCEPT ![rtnl.port] = 0]
          /\ races' = races \cup {"add_failed"}
          /\ UNCHANGED <<attached, rx, live, owed>>
      BY <1>7 DEF AddPortFails, Lives, Holder, TypeOK
    <2>2. "rx" \notin races \/ (Documented /\ SystemPorts = {}) =>
             \A c \in Cpus : rx[c].op = "pay" => rx[c].port \in attached
      BY <2>1 DEF Traffic, Frames, Quiesced
    <2>3. Frames'
      BY <2>1, <2>2 DEF Frames, Traffic, TypeOK
    <2>4. Charges'
      BY <2>1, FrameVif DEF Charges, UsedExact, Traffic, TypeOK
    <2>q. QED
      BY <2>3, <2>4 DEF Traffic
  <1>q. QED
    BY <1>o, <1>1, <1>2, <1>3, <1>4, <1>5, <1>6, <1>7

\* synchronize_net lets del_nbp go on when no frame of the port is left.
LEMMA TrafficDelete ==
    ASSUME TypeOK, Lives, Traffic,
           \/ \E p \in Ports : DelPort(p)
           \/ DelPortPlain \/ del_vif \/ RcuFreesPort
           \/ DelVifAccount \/ DelVifProc \/ DelVifFree
    PROVE  Traffic'
  <1> USE DEF loader, memory, CA, bridge, contexts, history
  <1>o. CASE \E kind : Oops(kind)
    BY <1>o, TrafficUnchanged, OopsChanges DEF code, TrafficKept
  <1>1. ASSUME NEW p \in Ports, DelPort(p)
        PROVE  Traffic'
    <2>1. /\ rtnl.op = "idle" /\ attached' = attached \ {p}
          /\ rtnl'.op = "quiesce" /\ rtnl'.port = p
          /\ UNCHANGED <<pvif, rx, vif, live, owed, races>>
      BY <1>1 DEF DelPort, NoRtnl
    <2>2. Frames'
      BY <2>1 DEF Traffic, Frames
    <2>3. Charges'
      BY <2>1 DEF Traffic, Charges, UsedExact
    <2>q. QED
      BY <2>2, <2>3 DEF Traffic
  <1>2. CASE DelPortPlain
    BY <1>2 DEF DelPortPlain, Quiesced, Traffic, Frames, Charges, UsedExact, TypeOK
  <1>3. CASE del_vif /\ ~ \E kind : Oops(kind)
    <2>1. /\ Quiesced(rtnl.port) /\ rtnl.op = "quiesce"
          /\ races \subseteq races'
          /\ UNCHANGED <<vif, live, attached, pvif, rx, owed>>
      BY <1>3 DEF del_vif
    <2>q. QED
      BY <2>1 DEF Quiesced, Traffic, Frames, Charges, UsedExact, TypeOK
  <1>4. CASE RcuFreesPort
    BY <1>4, TrafficUnchanged DEF RcuFreesPort, TrafficKept
  <1>5. CASE DelVifAccount /\ ~ \E kind : Oops(kind)
    BY <1>5, TrafficUnchanged DEF DelVifAccount, TrafficKept
  <1>6. CASE DelVifProc /\ ~ \E kind : Oops(kind)
    BY <1>6, TrafficUnchanged DEF DelVifProc, TrafficKept
  <1>7. CASE DelVifFree /\ ~ \E kind : Oops(kind)
    <2>1. /\ rtnl.op = "free" /\ rtnl.port \in Ports \ attached
          /\ live' = live \ {rtnl.id}
          /\ vif' = [vif EXCEPT ![rtnl.id] = NewRecord(FreedPort)]
          /\ pvif' = [pvif EXCEPT ![rtnl.port] = 0]
          /\ UNCHANGED <<attached, rx, races, owed>>
      BY <1>7 DEF DelVifFree, Lives, Holder
    <2>2. \A i \in VifIds : i # rtnl.id => vif'[i] = vif[i]
      BY <2>1 DEF TypeOK
    <2>3. Frames'
      BY <2>1 DEF Frames, Traffic, TypeOK
    <2>4. Charges'
      BY <2>1, <2>2, FrameVif DEF Charges, UsedExact, Traffic, TypeOK, Deleting
    <2>q. QED
      BY <2>3, <2>4 DEF Traffic
  <1>q. QED
    BY <1>o, <1>1, <1>2, <1>3, <1>4, <1>5, <1>6, <1>7

\* rmmod may free a vif under a frame: that is on record, and with README's way there is none.
LEMMA TrafficExit ==
    ASSUME TypeOK, Lives, PortsOK, Traffic, ExitStep
    PROVE  Traffic'
  <1> USE DEF loader, memory, CA, bridge, contexts, history
  <1>o. CASE \E kind : Oops(kind)
    BY <1>o, TrafficUnchanged, OopsChanges DEF code, TrafficKept
  <1>1. CASE (ExitDelVif \/ ExitAccount \/ ExitUnproc \/ ExitDone) /\ ~ \E kind : Oops(kind)
    BY <1>1, TrafficUnchanged
    DEF ExitDelVif, ExitAccount, ExitUnproc, ExitDone, ExitMeetsFreed, TrafficKept
  <1>2. CASE ExitFree /\ ~ \E kind : Oops(kind)
    <2>1. /\ exit.op = "free"
          /\ live' = live \ {exit.cur}
          /\ vif' = [vif EXCEPT ![exit.cur] = NewRecord(FreedPort)]
          /\ pvif' = [p \in Ports |-> IF pvif[p] = exit.cur THEN 0 ELSE pvif[p]]
          /\ races \subseteq races'
          /\ "rx" \notin races' => \A c \in Cpus : rx[c].id # exit.cur
          /\ UNCHANGED <<attached, rtnl, rx, owed>>
      BY <1>2 DEF ExitFree, ExitMeetsFreed, Race
    <2>2. \A i \in VifIds : i # exit.cur => vif'[i] = vif[i]
      BY <2>1 DEF TypeOK
    <2>3. module = "unloading"
      BY <2>1 DEF Lives, Loaded
    <2>4. Documented /\ SystemPorts = {} => \A c \in Cpus : rx[c].op # "pay"
      BY <2>3, FrameVif DEF PortsOK, Quiet, Traffic
    <2>5. Frames'
      BY <2>1, <2>4 DEF Frames, Traffic, TypeOK
    <2>6. Charges'
      BY <2>1, <2>2, FrameVif DEF Charges, UsedExact, Traffic, TypeOK
    <2>q. QED
      BY <2>5, <2>6 DEF Traffic
  <1>q. QED
    BY <1>o, <1>1, <1>2 DEF ExitStep

\* A charge adds to the counter what the frame brought, and nobody else does at the same time.
LEMMA TrafficRx ==
    ASSUME TypeOK, Lives, Traffic, NEW c \in Cpus,
           RxStore(c) \/ \E p \in Ports, len \in Lens : pay_credit(c, p, len)
    PROVE  Traffic'
  <1> USE DEF loader, memory, CA, bridge, contexts, history
  <1>o. CASE \E kind : Oops(kind)
    BY <1>o, TrafficUnchanged, OopsChanges DEF code, TrafficKept
  <1>1. ASSUME NEW p \in Ports, NEW len \in Lens, pay_credit(c, p, len), ~ \E kind : Oops(kind)
        PROVE  Traffic'
    <2>1. /\ p \in attached /\ pvif[p] # 0
          /\ vif[pvif[p]].used + len <= MaxUsed
          /\ rx' = [rx EXCEPT ![c] = [op |-> "pay", port |-> p, id |-> pvif[p], len |-> len,
                                      sum |-> Charged(pvif[p], len)]]
          /\ races \subseteq races'
          /\ "rx" \notin races' => \A d \in Cpus : rx[d].id # pvif[p]
          /\ UNCHANGED <<vif, live, attached, pvif, rtnl, owed>>
      BY <1>1 DEF pay_credit, Race
    <2>2. pvif[p] \in VifIds
      BY <2>1 DEF TypeOK
    <2>3. Charged(pvif[p], len) = vif[pvif[p]].used + len
      <3>1. vif[pvif[p]].used \in Nat /\ len \in Nat
        BY <2>2, ZeroWord, InputWords DEF TypeOK
      <3>2. vif[pvif[p]].used + len \in 0 .. Word - 1
        BY <2>1, <3>1, Bounds
      <3>q. QED
        BY <3>2, Bounds DEF Charged, U
    <2>4. /\ rx'[c].op = "pay" /\ rx'[c].port = p /\ rx'[c].id = pvif[p] /\ rx'[c].len = len
          /\ rx'[c].sum = vif[pvif[p]].used + len
          /\ \A d \in Cpus \ {c} : rx'[d] = rx[d]
      BY <2>1, <2>3 DEF TypeOK
    <2>5. Frames'
      BY <2>1, <2>4 DEF Frames, Traffic
    <2>6. Charges'
      BY <2>1, <2>4 DEF Charges, UsedExact, Traffic
    <2>q. QED
      BY <2>5, <2>6 DEF Traffic
  <1>2. CASE RxStore(c) /\ ~ \E kind : Oops(kind)
    <2>1. /\ rx[c].id \in live /\ rx[c].op = "pay"
          /\ vif' = [vif EXCEPT ![rx[c].id].used = rx[c].sum]
          /\ owed' = [owed EXCEPT ![rx[c].id] = @ + rx[c].len]
          /\ rx' = [rx EXCEPT ![c] = NoRx]
          /\ UNCHANGED <<live, attached, pvif, rtnl, races>>
      BY <1>2 DEF RxStore
    <2>2. /\ vif'[rx[c].id].used = rx[c].sum
          /\ owed'[rx[c].id] = owed[rx[c].id] + rx[c].len
          /\ \A i \in VifIds : i # rx[c].id => vif'[i] = vif[i] /\ owed'[i] = owed[i]
          /\ rx[c].id \in VifIds /\ live \subseteq VifIds
          /\ rx'[c].op = "idle" /\ rx'[c].id = 0 /\ \A d \in Cpus \ {c} : rx'[d] = rx[d]
      BY <2>1 DEF TypeOK, NoRx
    <2>3. Frames'
      BY <2>1, <2>2 DEF Frames, Traffic
    <2>4. CASE "rx" \in races
      BY <2>1, <2>3, <2>4 DEF Charges, Traffic
    <2>5. CASE "rx" \notin races
      <3>1. UsedExact'
        BY <2>1, <2>2, <2>5 DEF Charges, UsedExact, Traffic
      <3>2. \A d \in Cpus \ {c} : rx[d].op = "pay" =>
                rx[d].id # rx[c].id /\ rx[d].id \in VifIds
        BY <2>1, <2>5, FrameVif DEF Charges, Traffic
      <3>3. \A d \in Cpus : rx'[d].op = "pay" => rx'[d].sum = vif'[rx'[d].id].used + rx'[d].len
        BY <2>1, <2>2, <2>5, <3>2 DEF Charges, Traffic
      <3>4. \A d, e \in Cpus : d # e /\ rx'[d].op = "pay" => rx'[d].id # rx'[e].id
        BY <2>1, <2>2, <2>5, <3>2, FrameVif DEF Charges, Traffic, VifIds
      <3>q. QED
        BY <2>1, <2>3, <3>1, <3>3, <3>4 DEF Charges, Traffic
    <2>q. QED
      BY <2>4, <2>5
  <1>q. QED
    BY <1>o, <1>1, <1>2

\* The timer takes what was charged.
LEMMA TrafficTimer ==
    ASSUME TypeOK, Lives, Traffic, TimerStep
    PROVE  Traffic'
  <1> USE DEF loader, memory, CA, bridge, contexts, history
  <1>o. CASE \E kind : Oops(kind)
    BY <1>o, TrafficUnchanged, OopsChanges DEF code, TrafficKept
  <1>1. CASE /\ TimerFires \/ quota_control \/ GetQuota \/ SetQuota \/ TimerRearms
             /\ ~ \E kind : Oops(kind)
    BY <1>1, TrafficUnchanged
    DEF TimerFires, quota_control, GetQuota, SetQuota, TimerRearms, WalkMeetsFreed, TrafficKept
  <1>2. CASE ResetCredit /\ ~ \E kind : Oops(kind)
    <2>1. /\ timer.cur \in live
          /\ vif' = [vif EXCEPT ![timer.cur].used = 0]
          /\ owed' = [owed EXCEPT ![timer.cur] = 0]
          /\ races \subseteq races'
          /\ "rx" \notin races' => \A c \in Cpus : rx[c].id # timer.cur
          /\ UNCHANGED <<live, attached, pvif, rtnl, rx>>
      BY <1>2 DEF ResetCredit, WalkMeetsFreed, Race
    <2>2. /\ vif'[timer.cur].used = 0 /\ owed'[timer.cur] = 0
          /\ \A i \in VifIds : i # timer.cur => vif'[i] = vif[i] /\ owed'[i] = owed[i]
          /\ live \subseteq VifIds
      BY <2>1 DEF TypeOK
    <2>3. Frames'
      BY <2>1 DEF Frames, Traffic
    <2>4. Charges'
      BY <2>1, <2>2, FrameVif DEF Charges, UsedExact, Traffic
    <2>q. QED
      BY <2>3, <2>4 DEF Traffic
  <1>q. QED
    BY <1>o, <1>1, <1>2 DEF TimerStep

\* Neither the files nor the loader disturb the counters.
LEMMA TrafficElse ==
    ASSUME TypeOK, Lives, Traffic,
           \/ \E i \in VifIds : \/ \E g \in Goals : WriteGoal(i, g)
                                \/ \E t \in Tasks \cup {0} : WritePid(i, t)
           \/ \E u \in Users : UserStep(u) \/ \E i \in VifIds, w \in Weights : WriteWeight(u, i, w)
           \/ vif_init \/ InitAllocator \/ InitFails \/ vif_exit
           \/ Halted \/ UNCHANGED vars
    PROVE  Traffic'
  <1> USE DEF loader, memory, CA, bridge, contexts, history
  <1>1. ASSUME NEW i \in VifIds, NEW g, WriteGoal(i, g)
        PROVE  Traffic'
    BY <1>1, TrafficUnchanged DEF WriteGoal, TrafficKept, TypeOK
  <1>2. ASSUME NEW i \in VifIds, NEW t, WritePid(i, t)
        PROVE  Traffic'
    <2>1. /\ vif' = [vif EXCEPT ![i].task = t] /\ races \subseteq races'
          /\ UNCHANGED <<rx, pvif, attached, live, owed, rtnl>>
      BY <1>2 DEF WritePid
    <2>2. TrafficKept
      BY <2>1 DEF TrafficKept, TypeOK
    <2>q. QED
      BY <2>2, TrafficUnchanged
  <1>3. ASSUME NEW u \in Users, NEW i \in VifIds, NEW w \in Weights, WriteWeight(u, i, w)
        PROVE  Traffic'
    BY <1>3, TrafficUnchanged DEF WriteWeight, TrafficKept
  <1>4. ASSUME NEW u \in Users, WriteWeightSum(u)
        PROVE  Traffic'
    BY <1>4, TrafficUnchanged DEF WriteWeightSum, TrafficKept
  <1>5. ASSUME NEW u \in Users, WriteWeightSet(u)
        PROVE  Traffic'
    <2>1. /\ vif' = [vif EXCEPT ![user[u].id].weight = user[u].value]
          /\ UNCHANGED <<rx, pvif, attached, live, owed, races, rtnl>>
      BY <1>5 DEF WriteWeightSet
    <2>2. TrafficKept
      BY <2>1 DEF TrafficKept, TypeOK
    <2>q. QED
      BY <2>2, TrafficUnchanged
  <1>6. CASE vif_init \/ InitAllocator \/ InitFails \/ vif_exit
    BY <1>6, TrafficUnchanged DEF vif_init, InitAllocator, InitFails, vif_exit, TrafficKept
  <1>8. CASE Halted \/ UNCHANGED vars
    BY <1>8, TrafficUnchanged DEF Halted, vars, code, TrafficKept
  <1>q. QED
    BY <1>1, <1>2, <1>3, <1>4, <1>5, <1>6, <1>8 DEF UserStep

\* Every step keeps the frames with the vif of their port, and the counters exact.
LEMMA TrafficStep ==
    ASSUME TypeOK, Lives, PortsOK, Traffic, [Next]_vars
    PROVE  Traffic'
  BY TrafficAdd, TrafficDelete, TrafficRx, TrafficTimer, TrafficExit, TrafficElse
  DEF Next, RtnlStep

-----------------------------------------------------------------------------
(* the walk of quota_control *)

Walk == Cursor /\ Ahead /\ Tasked

\* A step of another context: what it takes off the list is on record when the walk holds it,
\* and the vif the walk is on keeps its task.
LEMMA WalkKept ==
    ASSUME TypeOK, Walk, UNCHANGED timer, vifCnt' \in {vifCnt, vifCnt + 1},
           races \subseteq races',
           \A i \in active \ active' : OnWalk(i) => "walk" \in races',
           due' \subseteq due \cap active',
           Walking /\ timer.cur \in live' =>
               timer.cur \in live /\ vif'[timer.cur].task = vif[timer.cur].task
    PROVE  Walk'
  <1>1. vifCnt \in Int /\ vifCnt' \in Int /\ vifCnt <= vifCnt'
    BY DEF TypeOK
  <1>2. \A i \in {timer.cur, timer.nxt} : i \in Int
    BY DEF TypeOK, VifIds
  <1>3. Cursor'
    BY <1>1, <1>2 DEF Walk, Cursor, Walking, InRound, OnWalk
  <1>4. Ahead' /\ Tasked'
    BY DEF Walk, Ahead, Tasked, Walking
  <1>q. QED
    BY <1>3, <1>4 DEF Walk

\* A new vif goes to the head of the list, behind the walk; a deleted one is on record when the
\* walk holds it.
LEMMA WalkRtnl ==
    ASSUME TypeOK, Lives, Walk,
           \/ \E p \in Ports : NewPort(p) \/ new_vif(p) \/ DelPort(p)
           \/ RtnlStep \/ RcuFreesPort
    PROVE  Walk'
  <1> USE DEF loader, memory, CA, bridge, contexts, history
  <1>d. due \subseteq active \/ ~ Walking
    BY DEF Walk, Ahead
  <1> DEFINE Kept == /\ UNCHANGED <<timer, vifCnt, active, due>> /\ races \subseteq races'
                     /\ live' \subseteq live
                     /\ \A i \in live' : vif'[i].task = vif[i].task
  <1>k. ASSUME Kept
        PROVE  Walk'
    <2>1. CASE Walking
      BY <1>k, <1>d, <2>1, WalkKept
    <2>2. CASE ~ Walking
      BY <1>k, <2>2 DEF Walk, Cursor, Ahead, Tasked, Walking
    <2>q. QED
      BY <2>1, <2>2
  <1> HIDE DEF Kept
  <1>o. CASE \E kind : Oops(kind)
    BY <1>o, <1>k, OopsChanges DEF code, Kept
  <1>1. ASSUME NEW p \in Ports, NewPort(p) \/ DelPort(p)
        PROVE  Walk'
    BY <1>1, <1>k DEF NewPort, DelPort, Kept
  <1>2. ASSUME NEW p \in Ports, new_vif(p), ~ \E kind : Oops(kind)
        PROVE  Walk'
    <2>1. /\ active' = active \cup {vifCnt} /\ live' = live \cup {vifCnt}
          /\ vif' = [vif EXCEPT ![vifCnt] = NewRecord(p)]
          /\ vifCnt' = vifCnt + 1 /\ races \subseteq races'
          /\ UNCHANGED <<timer, due>>
      BY <1>2 DEF new_vif
    <2>2. vifCnt \in Int
      BY DEF TypeOK
    <2>3. CASE Walking
      <3>1. timer.cur < vifCnt /\ timer.cur \in VifIds \cup {0} /\ timer.cur \in Int
        BY <2>3 DEF Walk, Cursor, TypeOK, VifIds
      <3>2. timer.cur # vifCnt
        BY <2>2, <3>1
      <3>3. timer.cur \in live' => timer.cur \in live /\ timer.cur \in VifIds
        BY <2>1, <3>2 DEF TypeOK
      <3>4. timer.cur \in live' => vif'[timer.cur] = vif[timer.cur]
        BY <2>1, <3>2, <3>3 DEF TypeOK
      <3>q. QED
        BY <1>d, <2>1, <2>3, <3>3, <3>4, WalkKept
    <2>4. CASE ~ Walking
      BY <2>1, <2>2, <2>4 DEF Walk, Cursor, Ahead, Tasked, Walking
    <2>q. QED
      BY <2>3, <2>4
  <1>3. CASE del_vif /\ ~ \E kind : Oops(kind)
    <2>1. /\ active' = active \ {rtnl.id} /\ due' = due \ {rtnl.id}
          /\ races \subseteq races'
          /\ OnWalk(rtnl.id) => "walk" \in races'
          /\ UNCHANGED <<timer, vifCnt, vif, live>>
      BY <1>3 DEF del_vif, Race
    <2>2. CASE Walking
      BY <1>d, <2>1, <2>2, WalkKept
    <2>3. CASE ~ Walking
      BY <2>1, <2>3 DEF Walk, Cursor, Ahead, Tasked, Walking
    <2>q. QED
      BY <2>2, <2>3
  <1>4. CASE (NewVifAccount \/ NewVifFiles) /\ ~ \E kind : Oops(kind)
    BY <1>4, <1>k DEF NewVifAccount, NewVifFiles, Kept
  <1>5. CASE AttachPort \/ LinkPort \/ LinkFails \/ DelPortPlain \/ RcuFreesPort
    BY <1>5, <1>k DEF AttachPort, LinkPort, LinkFails, DelPortPlain, RcuFreesPort, Kept
  <1>6. CASE AddPortFails
    <2>1. \A i \in VifIds : vif'[i].task = vif[i].task
      BY <1>6 DEF AddPortFails, TypeOK
    <2>2. /\ UNCHANGED <<timer, vifCnt, active, due, live>> /\ races \subseteq races'
          /\ live \subseteq VifIds
      BY <1>6 DEF AddPortFails, TypeOK
    <2>q. QED
      BY <2>1, <2>2, <1>k DEF Kept
  <1>7. CASE (DelVifAccount \/ DelVifProc) /\ ~ \E kind : Oops(kind)
    BY <1>7, <1>k DEF DelVifAccount, DelVifProc, Kept
  <1>8. CASE DelVifFree /\ ~ \E kind : Oops(kind)
    <2>1. /\ live' = live \ {rtnl.id}
          /\ vif' = [vif EXCEPT ![rtnl.id] = NewRecord(FreedPort)]
          /\ UNCHANGED <<timer, vifCnt, active, due, races>>
      BY <1>8 DEF DelVifFree
    <2>2. \A i \in live' : vif'[i] = vif[i]
      BY <2>1 DEF TypeOK
    <2>q. QED
      BY <2>1, <2>2, <1>k DEF Kept
  <1>q. QED
    BY <1>o, <1>1, <1>2, <1>3, <1>4, <1>5, <1>6, <1>7, <1>8 DEF RtnlStep

\* The walk starts at the head and goes on to the greatest id below, and passes over none.
LEMMA WalkTimer ==
    ASSUME TypeOK, Lives, Walk, TimerStep
    PROVE  Walk'
  <1> USE DEF loader, memory, CA, bridge, contexts, history
  <1>o. CASE \E kind : Oops(kind)
    BY <1>o, OopsChanges DEF code, Walk, Cursor, Ahead, Tasked, Walking, InRound
  <1>0. /\ active \in SUBSET VifIds /\ timer.cur \in VifIds \cup {0}
        /\ timer.nxt \in VifIds \cup {0} /\ vifCnt \in Int
        /\ \A i \in VifIds : i \in Nat /\ i # 0
    BY AllocatorAssumption DEF TypeOK, VifIds
  <1>a. \A i \in active : i < vifCnt
    BY DEF Lives, Loaded, NoLeak
  <1>1. CASE TimerFires
    <2> DEFINE first == FirstOn(active)
               second == NextOn(active, first)
    <2>1. /\ first \in active \cup {0} /\ second \in active \cup {0}
          /\ first = 0 => second = 0
          /\ \A i \in active : i = first \/ i <= second
      BY <1>0, WalkStarts
    <2>2. /\ timer.st = "armed" /\ timer' = [NoTimer EXCEPT !.st = "walk", !.cur = first,
                                                            !.nxt = second]
          /\ due' = active /\ UNCHANGED <<active, races, vifCnt>>
      BY <1>1 DEF TimerFires, Visit
    <2> HIDE DEF first, second
    <2>3. timer'.st = "walk" /\ timer'.cur = first /\ timer'.nxt = second
      BY <2>2 DEF NoTimer
    <2>4. vifCnt >= 1
      BY <2>2 DEF Walk, Cursor
    <2>5. first < vifCnt /\ second < vifCnt
      BY <1>0, <1>a, <2>1, <2>4
    <2>q. QED
      BY <2>1, <2>2, <2>3, <2>4, <2>5 DEF Walk, Cursor, Ahead, Tasked, Walking, InRound
  <1>2. CASE quota_control /\ ~ \E kind : Oops(kind)
    <2>1. /\ timer.st = "walk" /\ timer.cur # 0
          /\ timer'.cur = timer.cur /\ timer'.nxt = timer.nxt
          /\ \/ timer'.st = "get" /\ vif[timer.cur].task # 0
             \/ timer'.st = "reset"
          /\ UNCHANGED <<active, live, due, vif, vifCnt, races>>
      BY <1>2 DEF quota_control, WalkMeetsFreed, TypeOK
    <2>q. QED
      BY <2>1 DEF Walk, Cursor, Ahead, Tasked, Walking, InRound
  <1>3. CASE (GetQuota \/ SetQuota) /\ ~ \E kind : Oops(kind)
    <2>1. /\ timer.st \in {"get", "set"}
          /\ timer'.cur = timer.cur /\ timer'.nxt = timer.nxt
          /\ \/ timer'.st = "set" /\ vif[timer.cur].task # 0
             \/ timer'.st = "reset"
          /\ UNCHANGED <<active, live, due, vif, vifCnt, races>>
      BY <1>3 DEF GetQuota, SetQuota, WalkMeetsFreed, TypeOK
    <2>q. QED
      BY <2>1 DEF Walk, Cursor, Ahead, Tasked, Walking, InRound
  <1>4. CASE ResetCredit /\ ~ \E kind : Oops(kind)
    <2> DEFINE next == timer.nxt
               after == NextOn(active, next)
    <2>1. /\ timer.st = "reset" /\ (next # 0 => next \in active)
          /\ timer' = [NoTimer EXCEPT !.st = "walk", !.cur = next, !.nxt = after]
          /\ due' = due \ {timer.cur}
          /\ races \subseteq races' /\ UNCHANGED <<active, vifCnt>>
      BY <1>4 DEF ResetCredit, WalkMeetsFreed, Visit
    <2>2. Walking /\ vifCnt >= 1
      BY <2>1 DEF Walk, Cursor, Walking
    <2>3. due' \in SUBSET active /\ \A i \in due' : i <= next
      BY <2>1, <2>2 DEF Walk, Ahead
    <2>4. /\ after \in active \cup {0}
          /\ next = 0 => after = 0
          /\ \A i \in due' : i = next \/ i <= after
      BY <1>0, <2>3, WalkGoesOn
    <2> HIDE DEF after
    <2>5. timer'.st = "walk" /\ timer'.cur = next /\ timer'.nxt = after
      BY <2>1 DEF NoTimer
    <2>6. next < vifCnt /\ after < vifCnt
      BY <1>0, <1>a, <2>1, <2>2, <2>4
    <2>q. QED
      BY <2>1, <2>2, <2>3, <2>4, <2>5, <2>6 DEF Walk, Cursor, Ahead, Tasked, Walking, InRound
  <1>5. CASE TimerRearms /\ ~ \E kind : Oops(kind)
    <2>1. timer.st = "walk" /\ timer'.st = "armed" /\ UNCHANGED vifCnt
      BY <1>5 DEF TimerRearms, NoTimer
    <2>q. QED
      BY <2>1 DEF Walk, Cursor, Ahead, Tasked, Walking
  <1>q. QED
    BY <1>o, <1>1, <1>2, <1>3, <1>4, <1>5 DEF TimerStep

\* rmmod takes vifs off the list like del_vif, and the timer away only when it is armed.
LEMMA WalkExit ==
    ASSUME TypeOK, Lives, Walk, ExitStep
    PROVE  Walk'
  <1> USE DEF loader, memory, CA, bridge, contexts, history
  <1>d. due \subseteq active \/ ~ Walking
    BY DEF Walk, Ahead
  <1>n. ASSUME ~ Walking, UNCHANGED <<timer, vifCnt>>
        PROVE  Walk'
    BY <1>n DEF Walk, Cursor, Ahead, Tasked, Walking
  <1>o. CASE \E kind : Oops(kind)
    BY <1>o, OopsChanges DEF code, Walk, Cursor, Ahead, Tasked, Walking, InRound
  <1>1. CASE ExitDelVif /\ ~ \E kind : Oops(kind)
    <2>1. /\ active' = active \ {exit.cur} /\ due' = due \ {exit.cur}
          /\ races \subseteq races'
          /\ OnWalk(exit.cur) => "walk" \in races'
          /\ UNCHANGED <<timer, vifCnt, vif, live>>
      BY <1>1 DEF ExitDelVif, ExitMeetsFreed, Race
    <2>q. QED
      BY <1>d, <1>n, <2>1, WalkKept
  <1>2. CASE (ExitAccount \/ ExitUnproc) /\ ~ \E kind : Oops(kind)
    <2>1. UNCHANGED <<timer, vifCnt, active, due, races, live, vif>>
      BY <1>2 DEF ExitAccount, ExitUnproc, ExitMeetsFreed
    <2>q. QED
      BY <2>1 DEF Walk, Cursor, Ahead, Tasked, Walking, InRound
  <1>3. CASE ExitFree /\ ~ \E kind : Oops(kind)
    <2>1. /\ live' = live \ {exit.cur}
          /\ vif' = [vif EXCEPT ![exit.cur] = NewRecord(FreedPort)]
          /\ races \subseteq races'
          /\ UNCHANGED <<timer, vifCnt, active, due>>
      BY <1>3 DEF ExitFree, ExitMeetsFreed
    <2>2. \A i \in live' : vif'[i] = vif[i]
      BY <2>1 DEF TypeOK
    <2>q. QED
      BY <1>d, <1>n, <2>1, <2>2, WalkKept
  <1>4. CASE ExitDone /\ ~ \E kind : Oops(kind)
    <2>1. /\ timer' \in {timer, NoTimer}
          /\ UNCHANGED <<vifCnt, active, due, races, live, vif>>
      BY <1>4 DEF ExitDone
    <2>q. QED
      BY <2>1 DEF Walk, Cursor, Ahead, Tasked, Walking, InRound, NoTimer
  <1>q. QED
    BY <1>o, <1>1, <1>2, <1>3, <1>4 DEF ExitStep

\* The other contexts: of what they do only a write to the file pid concerns the walk.
LEMMA WalkElse ==
    ASSUME TypeOK, Lives, Walk,
           \/ \E c \in Cpus : RxStore(c) \/ \E p \in Ports, len \in Lens : pay_credit(c, p, len)
           \/ \E i \in VifIds : \/ \E g \in Goals : WriteGoal(i, g)
                                \/ \E t \in Tasks \cup {0} : WritePid(i, t)
           \/ \E u \in Users : UserStep(u) \/ \E i \in VifIds, w \in Weights : WriteWeight(u, i, w)
           \/ vif_init \/ InitAllocator \/ InitFails \/ vif_exit
           \/ Halted \/ UNCHANGED vars
    PROVE  Walk'
  <1> USE DEF loader, memory, CA, bridge, contexts, history
  <1> DEFINE Kept == /\ UNCHANGED <<timer, vifCnt, active, due, live>> /\ races \subseteq races'
                     /\ \A i \in live : vif'[i].task = vif[i].task
  <1>k. ASSUME Kept
        PROVE  Walk'
    BY <1>k DEF Walk, Cursor, Ahead, Tasked, Walking, InRound
  <1>0. live \subseteq VifIds
    BY DEF TypeOK
  <1> HIDE DEF Kept
  <1>o. CASE \E kind : Oops(kind)
    BY <1>o, <1>k, OopsChanges DEF code, Kept
  <1>1. ASSUME NEW c \in Cpus, RxStore(c), ~ \E kind : Oops(kind)
        PROVE  Walk'
    <2>1. /\ vif' = [vif EXCEPT ![rx[c].id].used = rx[c].sum]
          /\ UNCHANGED <<timer, vifCnt, active, due, live, races>>
      BY <1>1 DEF RxStore
    <2>2. \A i \in VifIds : vif'[i].task = vif[i].task
      BY <2>1 DEF TypeOK
    <2>q. QED
      BY <1>0, <2>1, <2>2, <1>k DEF Kept
  <1>2. ASSUME NEW c \in Cpus, NEW p, NEW len, pay_credit(c, p, len), ~ \E kind : Oops(kind)
        PROVE  Walk'
    BY <1>2, <1>k DEF pay_credit, Kept
  <1>3. ASSUME NEW i \in VifIds, NEW g, WriteGoal(i, g)
        PROVE  Walk'
    <2>1. vif' = [vif EXCEPT ![i].goal = g] /\ UNCHANGED <<timer, vifCnt, active, due, live, races>>
      BY <1>3 DEF WriteGoal
    <2>2. \A j \in VifIds : vif'[j].task = vif[j].task
      BY <2>1 DEF TypeOK
    <2>q. QED
      BY <1>0, <2>1, <2>2, <1>k DEF Kept
  <1>4. ASSUME NEW i \in VifIds, NEW t, WritePid(i, t)
        PROVE  Walk'
    <2>1. /\ vif' = [vif EXCEPT ![i].task = t]
          /\ races \subseteq races'
          /\ timer.st \in {"get", "set"} /\ timer.cur = i => "pid" \in races'
          /\ UNCHANGED <<timer, vifCnt, active, due, live>>
      BY <1>4 DEF WritePid, Race
    <2>2. \A j \in VifIds : j # i => vif'[j] = vif[j]
      BY <2>1 DEF TypeOK
    <2>3. Tasked'
      BY <1>0, <2>1, <2>2 DEF Walk, Tasked
    <2>q. QED
      BY <2>1, <2>3 DEF Walk, Cursor, Ahead, Walking, InRound
  <1>5. ASSUME NEW u \in Users, NEW i, NEW w, WriteWeight(u, i, w)
        PROVE  Walk'
    BY <1>5, <1>k DEF WriteWeight, Kept
  <1>6. ASSUME NEW u \in Users, UserStep(u)
        PROVE  Walk'
    <2>1. /\ vif' = vif \/ vif' = [vif EXCEPT ![user[u].id].weight = user[u].value]
          /\ UNCHANGED <<timer, vifCnt, active, due, live, races>>
      BY <1>6 DEF UserStep, WriteWeightSum, WriteWeightSet
    <2>2. \A i \in VifIds : vif'[i].task = vif[i].task
      BY <2>1 DEF TypeOK
    <2>q. QED
      BY <1>0, <2>1, <2>2, <1>k DEF Kept
  <1>7. CASE InitFails \/ vif_exit
    BY <1>7, <1>k DEF InitFails, vif_exit, Kept
  <1>8. CASE vif_init
    BY <1>8 DEF vif_init, Walk, Cursor, Ahead, Tasked, Walking, InRound
  <1>9. CASE InitAllocator
    <2>1. module = "loading" /\ timer'.st = "armed" /\ UNCHANGED vifCnt
      BY <1>9 DEF InitAllocator, TypeOK
    <2>2. vifCnt >= 1
      BY <2>1 DEF Lives, Loaded
    <2>q. QED
      BY <2>1, <2>2 DEF Walk, Cursor, Ahead, Tasked, Walking
  <1>10. CASE Halted \/ UNCHANGED vars
    BY <1>10, <1>k DEF Halted, vars, code, Kept
  <1>q. QED
    BY <1>o, <1>1, <1>2, <1>3, <1>4, <1>5, <1>6, <1>7, <1>8, <1>9, <1>10

\* Every step keeps the walk in order.
LEMMA WalkStep ==
    ASSUME TypeOK, Lives, Walk, [Next]_vars
    PROVE  Walk'
  BY WalkRtnl, WalkTimer, WalkExit, WalkElse DEF Next

-----------------------------------------------------------------------------
(* the number of vifs *)

\* The list is finite.
LEMMA ActiveFinite ==
    ASSUME TypeOK
    PROVE  IsFiniteSet(active) /\ Cardinality(active) \in Nat
  <1>1. IsFiniteSet(VifIds)
    BY AllocatorAssumption, FS_Interval DEF VifIds
  <1>2. IsFiniteSet(active)
    BY <1>1, FS_Subset DEF TypeOK
  <1>q. QED
    BY <1>2, FS_CardinalityType

\* CA->num_vif follows the list: new_vif and del_vif change both, one step apart.
LEMMA NumVifStep ==
    ASSUME TypeOK, Lives, NumVifExact, [Next]_vars
    PROVE  NumVifExact'
  <1> USE DEF loader, memory, CA, bridge, contexts, history
  <1>r. races \subseteq races'
    BY RacesGrow
  <1>s. /\ module = "unloading" /\ "unload" \notin races => ~ InVif
        /\ exit.op # "idle" <=> module = "unloading"
        /\ ~ HasCA => ~ InVif
    BY DEF Lives, Sweep, Loaded
  <1> DEFINE Kept == /\ UNCHANGED <<active, numVif>> /\ (HasCA' => HasCA)
                     /\ rtnl'.op = "account" <=> rtnl.op = "account"
                     /\ "unaccount" \in {rtnl'.op, exit'.op} <=> "unaccount" \in {rtnl.op, exit.op}
  <1>k. ASSUME Kept
        PROVE  NumVifExact'
    BY <1>k, <1>r DEF NumVifExact
  <1>h. UNCHANGED module => HasCA' = HasCA
    BY DEF HasCA
  <1> HIDE DEF Kept
  <1>o. CASE \E kind : Oops(kind)
    <2>1. Kept
      BY <1>o, <1>h, OopsChanges DEF code, Kept
    <2>q. QED
      BY <2>1, <1>k
  <1>1. ASSUME NEW p \in Ports, NewPort(p) \/ DelPort(p)
        PROVE  NumVifExact'
    <2>1. /\ rtnl.op = "idle" /\ rtnl'.op \in {"attach", "quiesce"}
          /\ UNCHANGED <<active, numVif, module, exit>>
      BY <1>1 DEF NewPort, DelPort, NoRtnl
    <2>2. Kept
      BY <2>1, <1>h DEF Kept
    <2>q. QED
      BY <2>2, <1>k
  <1>2. ASSUME NEW p \in Ports, new_vif(p), ~ \E kind : Oops(kind)
        PROVE  NumVifExact'
    <2>1. /\ rtnl.op = "idle" /\ HasCA /\ module # "absent"
          /\ active' = active \cup {vifCnt} /\ rtnl'.op = "account"
          /\ UNCHANGED <<numVif, module, exit>>
          /\ module = "unloading" => "unload" \in races'
      BY <1>2 DEF new_vif, NoRtnl, Race, HooksSet
    <2>2. vifCnt \notin active
      BY <2>1 DEF Lives, Loaded, NoLeak, TypeOK, VifIds
    <2>3. Cardinality(active') = Cardinality(active) + 1
      BY <2>1, <2>2, ActiveFinite, FS_AddElement
    <2>4. "unload" \notin races' => exit.op = "idle"
      BY <2>1, <1>s
    <2>q. QED
      BY <2>1, <2>3, <2>4, <1>r DEF NumVifExact
  <1>3. CASE NewVifAccount
    <2>1. /\ rtnl.op = "account" /\ rtnl'.op = "files" /\ numVif' = numVif + 1
          /\ UNCHANGED <<active, module, exit, races>>
      BY <1>3 DEF NewVifAccount, TypeOK
    <2>2. HasCA /\ "unload" \notin races => exit.op = "idle"
      BY <2>1, <1>s DEF InVif
    <2>q. QED
      BY <2>1, <2>2, <1>h DEF NumVifExact
  <1>4. CASE NewVifFiles /\ ~ \E kind : Oops(kind)
    <2>1. Kept
      BY <1>4, <1>h DEF NewVifFiles, Kept, TypeOK
    <2>q. QED
      BY <2>1, <1>k
  <1>5. CASE AttachPort \/ LinkPort \/ LinkFails
    <2>1. Kept
      BY <1>5, <1>h DEF AttachPort, LinkPort, LinkFails, NoRtnl, Kept, TypeOK
    <2>q. QED
      BY <2>1, <1>k
  <1>6. CASE AddPortFails \/ DelPortPlain
    <2>1. Kept
      BY <1>6, <1>h DEF AddPortFails, DelPortPlain, NoRtnl, Kept, TypeOK
    <2>q. QED
      BY <2>1, <1>k
  <1>7. CASE del_vif /\ ~ \E kind : Oops(kind)
    <2>1. /\ rtnl.op = "quiesce" /\ rtnl.id \in active /\ HasCA
          /\ active' = active \ {rtnl.id} /\ rtnl'.op = "unaccount"
          /\ UNCHANGED <<module, numVif, exit>>
          /\ module = "unloading" => "unload" \in races'
      BY <1>7 DEF del_vif, Race, TypeOK
    <2>2. Cardinality(active') = Cardinality(active) - 1
      BY <2>1, ActiveFinite, FS_RemoveElement
    <2>3. "unload" \notin races' => exit.op = "idle"
      BY <2>1, <1>s
    <2>q. QED
      BY <2>1, <2>2, <2>3, <1>r DEF NumVifExact
  <1>8. CASE RcuFreesPort
    <2>1. Kept
      BY <1>8, <1>h DEF RcuFreesPort, Kept, TypeOK
    <2>q. QED
      BY <2>1, <1>k
  <1>9. CASE DelVifAccount /\ ~ \E kind : Oops(kind)
    <2>1. /\ rtnl.op = "unaccount" /\ rtnl'.op = "unproc" /\ numVif' = numVif - 1
          /\ UNCHANGED <<active, module, exit, races>>
      BY <1>9 DEF DelVifAccount, TypeOK
    <2>2. HasCA /\ "unload" \notin races => exit.op = "idle"
      BY <2>1, <1>s DEF InVif
    <2>q. QED
      BY <2>1, <2>2, <1>h DEF NumVifExact, TypeOK
  <1>10. CASE (DelVifProc \/ DelVifFree) /\ ~ \E kind : Oops(kind)
    <2>1. Kept
      BY <1>10, <1>h DEF DelVifProc, DelVifFree, Kept, TypeOK, NoRtnl
    <2>q. QED
      BY <2>1, <1>k
  <1>11. ASSUME NEW c \in Cpus, ~ \E kind : Oops(kind),
                RxStore(c) \/ \E p \in Ports, len \in Lens : pay_credit(c, p, len)
         PROVE  NumVifExact'
    <2>1. UNCHANGED <<active, numVif, module, rtnl, exit>>
      BY <1>11 DEF RxStore, pay_credit
    <2>2. Kept
      BY <2>1, <1>h DEF Kept
    <2>q. QED
      BY <2>2, <1>k
  <1>12. ASSUME NEW i \in VifIds, NEW x, WriteGoal(i, x) \/ WritePid(i, x)
         PROVE  NumVifExact'
    <2>1. Kept
      BY <1>12, <1>h DEF WriteGoal, WritePid, Kept
    <2>q. QED
      BY <2>1, <1>k
  <1>13. ASSUME NEW u \in Users,
                UserStep(u) \/ \E i \in VifIds, w \in Weights : WriteWeight(u, i, w)
         PROVE  NumVifExact'
    <2>1. Kept
      BY <1>13, <1>h DEF UserStep, WriteWeightSum, WriteWeightSet, WriteWeight, Kept
    <2>q. QED
      BY <2>1, <1>k
  <1>14. CASE TimerStep /\ ~ \E kind : Oops(kind)
    <2>1. UNCHANGED <<active, numVif, module, rtnl, exit>>
      BY <1>14 DEF TimerStep, TimerFires, quota_control, GetQuota, SetQuota, ResetCredit,
                   TimerRearms, WalkMeetsFreed
    <2>2. Kept
      BY <2>1, <1>h DEF Kept
    <2>q. QED
      BY <2>2, <1>k
  <1>15. CASE InitAllocator
    <2>1. /\ module = "loading" /\ numVif' = 0 /\ UNCHANGED <<active, rtnl, exit>>
      BY <1>15 DEF InitAllocator
    <2>2. active = {} /\ ~ InVif /\ exit.op = "idle"
      BY <2>1, <1>s DEF Lives, Loaded, NoLeak, HasCA
    <2>q. QED
      BY <2>1, <2>2, FS_EmptySet DEF NumVifExact, InVif
  <1>16. CASE vif_init \/ InitFails
    <2>1. ~ HasCA'
      BY <1>16 DEF vif_init, InitFails, HasCA
    <2>q. QED
      BY <2>1 DEF NumVifExact
  <1>17. CASE vif_exit
    <2>1. /\ module = "loaded" /\ exit'.op = "walk" /\ UNCHANGED <<active, numVif, rtnl>>
      BY <1>17 DEF vif_exit, NoExit
    <2>2. Kept
      BY <2>1, <1>s DEF Kept, HasCA
    <2>q. QED
      BY <2>2, <1>k
  <1>18. CASE ExitDelVif /\ ~ \E kind : Oops(kind)
    <2>1. /\ exit.op = "walk" /\ exit.cur \in active
          /\ active' = active \ {exit.cur} /\ exit'.op = "unaccount"
          /\ UNCHANGED <<module, numVif, rtnl>>
      BY <1>18 DEF ExitDelVif, ExitMeetsFreed, TypeOK
    <2>2. Cardinality(active') = Cardinality(active) - 1
      BY <2>1, ActiveFinite, FS_RemoveElement
    <2>3. module = "unloading" /\ ("unload" \notin races => ~ InVif)
      BY <2>1, <1>s
    <2>q. QED
      BY <2>1, <2>2, <2>3, <1>r, <1>h DEF NumVifExact, InVif
  <1>19. CASE ExitAccount /\ ~ \E kind : Oops(kind)
    <2>1. /\ exit.op = "unaccount" /\ exit'.op = "unproc" /\ numVif' = numVif - 1
          /\ UNCHANGED <<module, active, rtnl, races>>
      BY <1>19 DEF ExitAccount, ExitMeetsFreed, TypeOK
    <2>2. module = "unloading" /\ ("unload" \notin races => ~ InVif)
      BY <2>1, <1>s
    <2>q. QED
      BY <2>1, <2>2, <1>h DEF NumVifExact, InVif, TypeOK
  <1>20. CASE (ExitUnproc \/ ExitFree) /\ ~ \E kind : Oops(kind)
    <2>1. /\ exit.op \in {"unproc", "free"} /\ UNCHANGED <<active, numVif, module, rtnl>>
          /\ \/ exit' = [exit EXCEPT !.op = "free"]
             \/ exit' = [NoExit EXCEPT !.op = "walk", !.cur = exit.nxt,
                                       !.nxt = NextOn(active, exit.nxt)]
      BY <1>20 DEF ExitUnproc, ExitFree, ExitMeetsFreed
    <2>2. exit'.op \in {"walk", "free"}
      BY <2>1 DEF TypeOK, NoExit
    <2>3. Kept
      BY <2>1, <2>2, <1>h DEF Kept
    <2>q. QED
      BY <2>3, <1>k
  <1>21. CASE ExitDone /\ ~ \E kind : Oops(kind)
    <2>1. ~ HasCA'
      BY <1>21 DEF ExitDone, HasCA
    <2>q. QED
      BY <2>1 DEF NumVifExact
  <1>22. CASE Halted \/ UNCHANGED vars
    <2>1. Kept
      BY <1>22, <1>h DEF Halted, vars, code, Kept
    <2>q. QED
      BY <2>1, <1>k
  <1>q. QED
    BY <1>o, <1>1, <1>2, <1>3, <1>4, <1>5, <1>6, <1>7, <1>8, <1>9, <1>10, <1>11, <1>12, <1>13,
       <1>14, <1>15, <1>16, <1>17, <1>18, <1>19, <1>20, <1>21, <1>22
    DEF Next, RtnlStep, ExitStep

-----------------------------------------------------------------------------
(* the total of the weights *)

Weighed == [i \in VifIds |-> vif[i].weight]

\* the sum of the weights on the list
Load == Sum(Weighed, active)

\* new_vif or del_vif is about to store the total, for RTNL or for rmmod
RtnlSums == rtnl.op \in {"account", "unaccount"}
ExitSums == exit.op = "unaccount"

Busy(u) == user[u].op # "idle"

\* what the process is about to add to the weight of its vif
Change(u) == user[u].value - vif[user[u].id].weight

(***************************************************************************)
(* total_weight is the sum of the weights, or the one context that has     *)
(* loaded it is about to store the sum, or has stored it and not yet the   *)
(* weight that it counts.                                                  *)
(***************************************************************************)
Totals ==
    HasCA /\ races \cap {"weight", "unlinked"} = {} =>
        /\ ~ WeightBusy => total = U(Load)
        /\ RtnlSums => rtnl.sum = U(Load) /\ ~ ExitSums
        /\ ExitSums => exit.sum = U(Load)
        /\ \A u \in Users : Busy(u) =>
              /\ ~ RtnlSums /\ ~ ExitSums
              /\ \A w \in Users : Busy(w) => w = u
              /\ user[u].id \in active
              /\ (IF user[u].op = "sum" THEN user[u].sum ELSE total) = U(Load + Change(u))

\* Adding to a word that has wrapped and to the number it stands for is the same.
LEMMA WrappedSum ==
    ASSUME NEW a \in Int, NEW b \in Int
    PROVE  U(U(a) + b) = U(a + b)
  <1>w. Word \in Nat /\ Word > 0
    BY QuotaAssumption
  <1> DEFINE q == a \div Word
             r == a % Word
             p == (r + b) \div Word
             x == (r + b) % Word
             y == (a + b) % Word
             z == (a + b) \div Word
  <1>1. q \in Int /\ r \in Int /\ a = Word * q + r
    BY <1>w
  <1>2. p \in Int /\ x \in Int /\ r + b = Word * p + x /\ 0 <= x /\ x < Word
    BY <1>w, <1>1
  <1>3. z \in Int /\ y \in Int /\ a + b = Word * z + y /\ 0 <= y /\ y < Word
    BY <1>w
  <1> HIDE DEF q, r, p, x, y, z
  <1>4. Word * (z - q - p) = x - y
    BY <1>w, <1>1, <1>2, <1>3
  <1>5. \A t \in Int : (t >= 1 => Word * t >= Word) /\ (t <= -1 => Word * t <= -Word)
    BY <1>w
  <1>6. z - q - p = 0
    BY <1>w, <1>1, <1>2, <1>3, <1>4, <1>5
  <1>7. x = y
    BY <1>w, <1>2, <1>3, <1>4, <1>6
  <1>q. QED
    BY <1>7 DEF U, r, x, y

\* The list is finite and its weights are numbers, so their sum is one.
LEMMA LoadSum ==
    ASSUME TypeOK
    PROVE  /\ IsFiniteSet(active) /\ active \in SUBSET VifIds
           /\ \A i \in VifIds : Weighed[i] \in Int /\ Weighed[i] = vif[i].weight
           /\ Load \in Int
  <1>1. IsFiniteSet(active) /\ active \in SUBSET VifIds
    BY ActiveFinite DEF TypeOK
  <1>2. \A i \in VifIds : vif[i].weight \in Int
    BY QuotaAssumption DEF TypeOK, Unsigned
  <1>3. \A i \in VifIds : Weighed[i] = vif[i].weight
    BY DEF Weighed
  <1>4. Load \in Int
    BY <1>1, <1>2, <1>3, SumType DEF Load
  <1>q. QED
    BY <1>1, <1>2, <1>3, <1>4

\* The sum in TotalWeightExact is that sum.
LEMMA LoadIsTheSum ==
    ASSUME TypeOK
    PROVE  MapThenSumSet(LAMBDA i : vif[i].weight, active) = Load
  <1> DEFINE Rec(g) == g = [s \in SUBSET active |->
                              IF s = {} THEN 0
                              ELSE vif[CHOOSE x \in s : TRUE].weight
                                       + g[s \ {CHOOSE x \in s : TRUE}]]
             g == CHOOSE g : Rec(g)
  <1>1. IsFiniteSet(active) /\ active \in SUBSET VifIds
        /\ \A i \in VifIds : Weighed[i] = vif[i].weight
    BY LoadSum
  <1>2. \A h : SumsUp(Weighed, active, h) <=> Rec(h)
    <2>1. \A s \in SUBSET active : s # {} =>
             Weighed[CHOOSE x \in s : TRUE] = vif[CHOOSE x \in s : TRUE].weight
      BY <1>1
    <2>q. QED
      BY <2>1 DEF SumsUp, Pick
  <1>3. Rec(g)
    <2> HIDE DEF Rec
    <2>1. PICK h : SumsUp(Weighed, active, h)
      BY <1>1, SumExists
    <2>q. QED
      BY <1>2, <2>1
  <1>4. MapThenSumSet(LAMBDA i : vif[i].weight, active) = g[active]
    BY DEF MapThenSumSet, MapThenFoldSet
  <1>5. PICK h : SumsUp(Weighed, active, h) /\ Load = h[active]
    BY <1>1, SumUnfolds DEF Load
  <1> HIDE DEF g, Rec
  <1>6. g[active] = h[active]
    BY <1>1, <1>2, <1>3, <1>5, SumsUpAgree
  <1>q. QED
    BY <1>4, <1>5, <1>6

\* A step that leaves the weights, the list and the updates of the total alone.
LEMMA TotalsUnchanged ==
    ASSUME Totals, HasCA' => HasCA, UNCHANGED <<total, active, user>>, races \subseteq races',
           RtnlSums \/ RtnlSums' => rtnl'.op = rtnl.op /\ rtnl'.sum = rtnl.sum,
           ExitSums \/ ExitSums' => exit'.op = exit.op /\ exit'.sum = exit.sum,
           \A i \in active : vif'[i].weight = vif[i].weight,
           active \in SUBSET VifIds, IsFiniteSet(active)
    PROVE  Totals'
  <1>1. Load' = Load
    <2> DEFINE w == Weighed'
    <2>1. \A i \in active : w[i] = Weighed[i]
      BY DEF Weighed
    <2> HIDE DEF w
    <2>2. Sum(w, active) = Sum(Weighed, active)
      BY <2>1, SumSame
    <2>q. QED
      BY <2>2 DEF Load, w
  <1>2. /\ RtnlSums' <=> RtnlSums
        /\ ExitSums' <=> ExitSums
    BY DEF RtnlSums, ExitSums
  <1>3. WeightBusy' <=> WeightBusy
    BY <1>2 DEF RtnlSums, ExitSums, WeightBusy
  <1>4. \A u \in Users : user[u].id \in active => Change(u)' = Change(u)
    BY DEF Change
  <1>q. QED
    BY <1>1, <1>2, <1>3, <1>4 DEF Totals, Busy

\* A writer's vif is in the table, and there are writers only while there is CA.
LEMMA BusyVif ==
    ASSUME Lives, NEW u \in Users, Busy(u)
    PROVE  user[u].id \in VifIds /\ HasCA
  BY DEF Lives, Writers, Loaded, Busy

\* Nobody is updating the total when an update begins, unless the overlap is recorded.
LEMMA TotalsQuiet ==
    ASSUME Totals, HasCA, ~ WeightBusy, races \cap {"weight", "unlinked"} = {}
    PROVE  /\ total = U(Load) /\ ~ RtnlSums /\ ~ ExitSums /\ \A u \in Users : ~ Busy(u)
  BY DEF Totals, WeightBusy, RtnlSums, ExitSums, Busy

\* What new_vif adds to the total is the weight of the vif it links ...
LEMMA TotalsAdd ==
    ASSUME TypeOK, Lives, Totals, NEW p \in Ports, new_vif(p), ~ \E kind : Oops(kind)
    PROVE  Totals'
  <1> USE DEF loader, memory, CA, bridge, contexts, history
  <1>0. new_vif(p) /\ ~ \E kind : Oops(kind)
    OBVIOUS
  <1>1. /\ HasCA /\ vifCnt \in VifIds /\ module # "absent"
        /\ vif' = [vif EXCEPT ![vifCnt] = NewRecord(p)]
        /\ active' = active \cup {vifCnt}
        /\ rtnl'.op = "account" /\ rtnl'.sum = U(total + 1)
        /\ races \subseteq races' /\ (WeightBusy => "weight" \in races')
        /\ UNCHANGED <<user, exit>>
    <2>1. /\ HasCA /\ vifCnt <= MaxVifs /\ module # "absent"
          /\ vif' = [vif EXCEPT ![vifCnt] = NewRecord(p)]
          /\ active' = active \cup {vifCnt}
          /\ rtnl'.op = "account" /\ rtnl'.sum = U(total + 1)
          /\ races \subseteq races' /\ (WeightBusy => "weight" \in races')
          /\ UNCHANGED <<user, exit>>
      BY <1>0 DEF new_vif, NoRtnl, HooksSet, WeightRace, Race
    <2>2. vifCnt \in Int /\ vifCnt >= 1
      BY <2>1 DEF TypeOK, Lives, Loaded
    <2>q. QED
      BY <2>1, <2>2, NewId
  <1>2. SUFFICES ASSUME races' \cap {"weight", "unlinked"} = {}
                 PROVE  Totals'
    BY DEF Totals
  <1>4. total = U(Load) /\ ~ ExitSums /\ \A u \in Users : ~ Busy(u)
    BY <1>1, <1>2, TotalsQuiet
  <1>5. Load' = Load + 1
    <2>1. vifCnt \notin active
      BY <1>1 DEF Lives, Loaded, NoLeak, TypeOK, VifIds
    <2>2. vif'[vifCnt].weight = 1 /\ \A i \in VifIds : i # vifCnt => vif'[i] = vif[i]
      BY <1>1 DEF NewRecord, TypeOK
    <2>3. Weighed'[vifCnt] = 1 /\ \A i \in VifIds : i # vifCnt => Weighed'[i] = Weighed[i]
      BY <1>1, <2>2 DEF Weighed
    <2>4. \A i \in active : Weighed'[i] = Weighed[i]
      BY <2>1, <2>3, LoadSum
    <2>5. Sum(Weighed', active) = Load
      BY <2>4, LoadSum, SumSame DEF Load
    <2>6. \A i \in active \cup {vifCnt} : Weighed'[i] \in Int
      BY <2>3, <2>4, LoadSum
    <2>7. Sum(Weighed', active \cup {vifCnt}) = Sum(Weighed', active) + Weighed'[vifCnt]
      <3> DEFINE w == Weighed'
      <3>1. IsFiniteSet(active) /\ vifCnt \notin active
            /\ \A i \in active \cup {vifCnt} : w[i] \in Int
        BY <2>1, <2>6, LoadSum
      <3> HIDE DEF w
      <3>2. Sum(w, active \cup {vifCnt}) = Sum(w, active) + w[vifCnt]
        BY <3>1, SumAdd
      <3>q. QED
        BY <3>2 DEF w
    <2>q. QED
      BY <1>1, <2>3, <2>5, <2>7 DEF Load
  <1>6. rtnl'.sum = U(Load')
    BY <1>1, <1>4, <1>5, LoadSum, WrappedSum
  <1>q. QED
    BY <1>1, <1>4, <1>6 DEF Totals, RtnlSums, ExitSums, WeightBusy, Busy

\* ... and what del_vif takes away is the weight of the vif it unlinks, ...
LEMMA TotalsUnlink ==
    ASSUME TypeOK, total = U(Load), NEW i \in active, active' = active \ {i}, UNCHANGED vif
    PROVE  U(total - vif[i].weight) = U(Load')
  <1>1. Weighed' = Weighed /\ \A j \in active : Weighed[j] \in Int
    BY LoadSum DEF Weighed
  <1>2. Load = Weighed[i] + Load'
    <2>1. Sum(Weighed, active) = Weighed[i] + Sum(Weighed, active \ {i})
      BY <1>1, LoadSum, SumElement
    <2>q. QED
      BY <1>1, <2>1 DEF Load
  <1>3. /\ Load' \in Int /\ Weighed[i] \in Int /\ Weighed[i] = vif[i].weight
    <2>1. IsFiniteSet(active') /\ \A j \in active' : Weighed'[j] \in Int
      BY <1>1, LoadSum, FS_Subset
    <2>q. QED
      BY <1>1, <2>1, LoadSum, SumType DEF Load
  <1>4. U(total - vif[i].weight) = U(U(Load) + (-Weighed[i]))
    BY <1>3, StoredWord, LoadSum, UnsignedInt
  <1>5. U(U(Load) + (-Weighed[i])) = U(Load + (-Weighed[i]))
    <2>1. Load \in Int /\ -Weighed[i] \in Int
      BY <1>3, LoadSum
    <2> HIDE DEF Load
    <2>q. QED
      BY <2>1, WrappedSum
  <1>6. Load + (-Weighed[i]) = Load'
    BY <1>2, <1>3, LoadSum
  <1>q. QED
    BY <1>4, <1>5, <1>6

\* ... for RTNL as for rmmod.
LEMMA TotalsDelete ==
    ASSUME TypeOK, Lives, Totals, del_vif \/ ExitDelVif, ~ \E kind : Oops(kind)
    PROVE  Totals'
  <1> USE DEF loader, memory, CA, bridge, contexts, history
  <1>1. PICK i \in active :
          /\ active' = active \ {i}
          /\ \/ /\ rtnl'.op = "unaccount" /\ rtnl'.sum = U(total - vif[i].weight)
                /\ UNCHANGED exit
             \/ /\ exit'.op = "unaccount" /\ exit'.sum = U(total - vif[i].weight)
                /\ UNCHANGED rtnl
          /\ races \subseteq races' /\ (WeightBusy => "weight" \in races')
          /\ UNCHANGED <<vif, user, module>>
    <2>1. CASE del_vif
      BY <2>1 DEF del_vif, WeightRace, Race, TypeOK
    <2>2. CASE ExitDelVif
      BY <2>2 DEF ExitDelVif, ExitMeetsFreed, WeightRace, Race, TypeOK
    <2>q. QED
      BY <2>1, <2>2
  <1>2. HasCA
    <2>1. CASE del_vif
      BY <2>1 DEF del_vif
    <2>2. CASE ExitDelVif
      BY <2>2 DEF ExitDelVif, Lives, Loaded, HasCA, TypeOK
    <2>q. QED
      BY <2>1, <2>2
  <1>3. SUFFICES ASSUME races' \cap {"weight", "unlinked"} = {}
                 PROVE  Totals'
    BY DEF Totals
  <1>4. total = U(Load) /\ ~ RtnlSums /\ ~ ExitSums /\ \A u \in Users : ~ Busy(u)
    BY <1>1, <1>2, <1>3, TotalsQuiet
  <1>5. U(total - vif[i].weight) = U(Load')
    BY <1>1, <1>4, TotalsUnlink
  <1>q. QED
    BY <1>1, <1>4, <1>5 DEF Totals, RtnlSums, ExitSums, WeightBusy, Busy

\* vif_write loads the total ...
LEMMA TotalsWrite ==
    ASSUME TypeOK, Lives, Totals,
           NEW u \in Users, NEW i \in VifIds, NEW n \in Weights, WriteWeight(u, i, n)
    PROVE  Totals'
  <1> USE DEF loader, memory, CA, bridge, contexts, history
  <1>1. /\ i \in VifIds /\ user[u].op = "idle"
        /\ user' = [user EXCEPT ![u] = [op |-> "sum", id |-> i, value |-> n,
                                        sum |-> U(total + WeightChange(i, n))]]
        /\ races \subseteq races' /\ (WeightBusy => "weight" \in races')
        /\ i \notin active => "unlinked" \in races'
        /\ UNCHANGED <<module, vif, active, total, rtnl, exit>>
    BY DEF WriteWeight, WeightRace, Race
  <1>2. SUFFICES ASSUME HasCA, races' \cap {"weight", "unlinked"} = {}
                 PROVE  Totals'
    BY <1>1 DEF Totals, HasCA
  <1>3. /\ races \cap {"weight", "unlinked"} = {} /\ ~ WeightBusy /\ i \in active
    BY <1>1, <1>2
  <1>4. total = U(Load) /\ ~ RtnlSums /\ ~ ExitSums /\ \A v \in Users : ~ Busy(v)
    BY <1>2, <1>3, TotalsQuiet
  <1>5. Load' = Load
    BY <1>1 DEF Load, Weighed
  <1>6. /\ user'[u] = [op |-> "sum", id |-> i, value |-> n,
                       sum |-> U(total + WeightChange(i, n))]
        /\ \A v \in Users : v # u => user'[v] = user[v]
    BY <1>1 DEF TypeOK
  <1>7. U(total + (n - vif[i].weight)) = U(Load + (n - vif[i].weight))
    <2>1. n \in Int /\ vif[i].weight \in Int
      BY LoadSum, InputWords, UnsignedInt
    <2>2. n - vif[i].weight \in Int
      BY <2>1
    <2>q. QED
      BY <1>4, <2>2, LoadSum, WrappedSum
  <1>8. Change(u)' = n - vif[i].weight
    BY <1>1, <1>6 DEF Change
  <1>9. /\ Busy(u)' /\ \A v \in Users : Busy(v)' => v = u
        /\ user'[u].op = "sum" /\ user'[u].id \in active'
        /\ user'[u].sum = U(Load' + Change(u)')
        /\ ~ RtnlSums' /\ ~ ExitSums'
    BY <1>1, <1>3, <1>4, <1>5, <1>6, <1>7, <1>8 DEF Busy, RtnlSums, ExitSums, WeightChange
  <1>q. QED
    BY <1>9 DEF Totals, WeightBusy, Busy

\* ... stores the sum, and the weight, after which the two agree again.
LEMMA TotalsStore ==
    ASSUME TypeOK, Lives, Totals, NEW u \in Users, UserStep(u)
    PROVE  Totals'
  <1> USE DEF loader, memory, CA, bridge, contexts, history
  <1>0. Busy(u) /\ user[u].id \in VifIds /\ HasCA
    <2>1. Busy(u)
      BY DEF UserStep, WriteWeightSum, WriteWeightSet, Busy
    <2>q. QED
      BY <2>1, BusyVif
  <1>1. races' = races /\ UNCHANGED <<rtnl, exit, active, module>>
    BY DEF UserStep, WriteWeightSum, WriteWeightSet
  <1>2. SUFFICES ASSUME races \cap {"weight", "unlinked"} = {}
                 PROVE  Totals'
    BY <1>1 DEF Totals
  <1>3. /\ ~ RtnlSums /\ ~ ExitSums /\ \A v \in Users : Busy(v) => v = u
        /\ user[u].id \in active
        /\ (IF user[u].op = "sum" THEN user[u].sum ELSE total) = U(Load + Change(u))
    BY <1>0, <1>2 DEF Totals
  <1>4. CASE WriteWeightSum(u)
    <2>1. /\ user[u].op = "sum" /\ total' = user[u].sum
          /\ user' = [user EXCEPT ![u].op = "set", ![u].sum = 0]
          /\ UNCHANGED vif
      BY <1>4 DEF WriteWeightSum
    <2>2. /\ user'[u].op = "set" /\ user'[u].id = user[u].id /\ user'[u].value = user[u].value
          /\ \A v \in Users : v # u => user'[v] = user[v]
      BY <2>1 DEF TypeOK
    <2>3. Load' = Load /\ Change(u)' = Change(u)
      BY <1>1, <2>1, <2>2 DEF Load, Weighed, Change
    <2>4. /\ Busy(u)' /\ \A v \in Users : Busy(v)' => v = u
          /\ total' = U(Load' + Change(u)') /\ ~ RtnlSums' /\ ~ ExitSums'
      BY <1>1, <1>3, <2>1, <2>2, <2>3 DEF Busy, RtnlSums, ExitSums
    <2>q. QED
      BY <1>1, <1>3, <2>2, <2>4 DEF Totals, WeightBusy, Busy
  <1>5. CASE WriteWeightSet(u)
    <2> DEFINE i == user[u].id
    <2>1. /\ user[u].op = "set"
          /\ vif' = [vif EXCEPT ![i].weight = user[u].value]
          /\ user' = [user EXCEPT ![u] = NoUser]
          /\ UNCHANGED total
      BY <1>5 DEF WriteWeightSet
    <2>2. \A v \in Users : ~ Busy(v)'
      BY <1>3, <2>1 DEF Busy, NoUser, TypeOK
    <2>3. vif'[i].weight = user[u].value /\ \A j \in VifIds : j # i => vif'[j] = vif[j]
      BY <1>0, <2>1 DEF TypeOK
    <2>4. Weighed'[i] = user[u].value /\ \A j \in VifIds : j # i => Weighed'[j] = Weighed[j]
      BY <1>0, <2>3 DEF Weighed
    <2>5. user[u].value \in Int
      BY QuotaAssumption DEF TypeOK, Unsigned
    <2>6. Load' = Load - Weighed[i] + Weighed'[i]
      <3> DEFINE w == Weighed'
      <3>1. /\ \A j \in active : Weighed[j] \in Int /\ w[j] \in Int
            /\ \A j \in active \ {i} : w[j] = Weighed[j]
        BY <2>4, <2>5, LoadSum
      <3>0. IsFiniteSet(active) /\ i \in active
        BY <1>3, LoadSum
      <3> HIDE DEF w, i
      <3>2. Sum(w, active) = Sum(Weighed, active) - Weighed[i] + w[i]
        BY <3>0, <3>1, SumChange
      <3>q. QED
        BY <1>1, <3>2 DEF Load, w
    <2>7. Load' = Load + Change(u)
      <3>1. Weighed[i] \in Int /\ Weighed[i] = vif[i].weight /\ Load \in Int
        BY <1>0, LoadSum
      <3>q. QED
        BY <2>4, <2>5, <2>6, <3>1 DEF Change
    <2>8. total' = U(Load')
      BY <1>3, <2>1, <2>7
    <2>q. QED
      BY <1>1, <1>3, <2>2, <2>8 DEF Totals, RtnlSums, ExitSums
  <1>q. QED
    BY <1>4, <1>5 DEF UserStep

\* new_vif and del_vif store the sum.
LEMMA TotalsAccount ==
    ASSUME TypeOK, Lives, Totals, NewVifAccount \/ DelVifAccount \/ ExitAccount,
           ~ \E kind : Oops(kind)
    PROVE  Totals'
  <1> USE DEF loader, memory, CA, bridge, contexts, history
  <1>1. /\ \/ RtnlSums /\ ~ RtnlSums' /\ total' = rtnl.sum /\ UNCHANGED exit
           \/ ExitSums /\ ~ ExitSums' /\ total' = exit.sum /\ UNCHANGED rtnl
        /\ UNCHANGED <<module, vif, active, user, races>>
    <2>1. CASE NewVifAccount
      BY <2>1 DEF NewVifAccount, RtnlSums, TypeOK
    <2>2. CASE DelVifAccount
      BY <2>2 DEF DelVifAccount, RtnlSums, TypeOK
    <2>3. CASE ExitAccount
      BY <2>3 DEF ExitAccount, ExitMeetsFreed, ExitSums, TypeOK
    <2>q. QED
      BY <2>1, <2>2, <2>3
  <1>2. Load' = Load /\ HasCA' = HasCA
    BY <1>1 DEF Load, Weighed, HasCA
  <1>3. \A u \in Users : Busy(u)' = Busy(u)
    BY <1>1 DEF Busy
  <1>4. (RtnlSums' => RtnlSums) /\ (ExitSums' => ExitSums)
    BY <1>1 DEF RtnlSums, ExitSums
  <1>5. SUFFICES ASSUME HasCA, races \cap {"weight", "unlinked"} = {}
                 PROVE  Totals'
    BY <1>1, <1>2 DEF Totals
  <1>6. \A u \in Users : ~ Busy(u)
    BY <1>1, <1>5 DEF Totals
  <1>7. total' = U(Load) /\ ~ RtnlSums' /\ ~ ExitSums'
    BY <1>1, <1>4, <1>5 DEF Totals, RtnlSums, ExitSums
  <1>q. QED
    BY <1>2, <1>3, <1>6, <1>7 DEF Totals

\* insmod starts with an empty list and a total of 0.
LEMMA TotalsInit ==
    ASSUME TypeOK, Lives, Totals, InitAllocator
    PROVE  Totals'
  <1> USE DEF loader, memory, CA, bridge, contexts, history
  <1>1. /\ module = "loading" /\ total' = 0
        /\ UNCHANGED <<vif, active, user, rtnl, exit>>
    BY DEF InitAllocator
  <1>2. active = {} /\ ~ RtnlSums /\ ~ ExitSums /\ \A u \in Users : ~ Busy(u)
    BY <1>1 DEF Lives, Loaded, NoLeak, HasCA, InVif, RtnlSums, ExitSums, Busy
  <1>3. Load' = 0
    BY <1>1, <1>2, SumEmpty DEF Load
  <1>4. U(0) = 0
    BY QuotaAssumption DEF U
  <1>5. ~ RtnlSums' /\ ~ ExitSums' /\ \A u \in Users : ~ Busy(u)'
    BY <1>1, <1>2 DEF RtnlSums, ExitSums, Busy
  <1>q. QED
    BY <1>1, <1>3, <1>4, <1>5 DEF Totals

\* Every step keeps the total with the weights, or records why it no longer does.
LEMMA TotalsStep ==
    ASSUME TypeOK, Lives, Totals, [Next]_vars
    PROVE  Totals'
  <1> USE DEF loader, memory, CA, bridge, contexts, history
  <1>r. races \subseteq races'
    BY RacesGrow
  <1>a. active \in SUBSET VifIds /\ IsFiniteSet(active)
    BY LoadSum
  <1> DEFINE Kept == /\ UNCHANGED <<total, active, user>> /\ (HasCA' => HasCA)
                     /\ RtnlSums \/ RtnlSums' => rtnl'.op = rtnl.op /\ rtnl'.sum = rtnl.sum
                     /\ ExitSums \/ ExitSums' => exit'.op = exit.op /\ exit'.sum = exit.sum
                     /\ \A i \in active : vif'[i].weight = vif[i].weight
  <1>k. ASSUME Kept
        PROVE  Totals'
    BY <1>k, <1>r, <1>a, TotalsUnchanged
  <1> DEFINE Idle == UNCHANGED <<total, active, user, module, rtnl, exit>>
  <1>i. ASSUME Idle, \A i \in VifIds : vif'[i].weight = vif[i].weight
        PROVE  Totals'
    <2>1. Kept
      BY <1>i, <1>a DEF HasCA, RtnlSums, ExitSums
    <2>q. QED
      BY <2>1, <1>k
  <1> HIDE DEF Kept, Idle
  <1>o. CASE \E kind : Oops(kind)
    BY <1>o, <1>i, OopsChanges DEF code, Idle
  <1>1. ASSUME NEW p \in Ports, NewPort(p) \/ DelPort(p)
        PROVE  Totals'
    <2>1. /\ rtnl.op = "idle" /\ rtnl'.op \in {"attach", "quiesce"}
          /\ UNCHANGED <<total, active, user, module, exit, vif>>
      BY <1>1 DEF NewPort, DelPort, NoRtnl
    <2>2. Kept
      BY <2>1 DEF Kept, RtnlSums, ExitSums, HasCA
    <2>q. QED
      BY <2>2, <1>k
  <1>2. ASSUME NEW p \in Ports, new_vif(p), ~ \E kind : Oops(kind)
        PROVE  Totals'
    BY <1>2, TotalsAdd
  <1>3. CASE (NewVifAccount \/ DelVifAccount \/ ExitAccount) /\ ~ \E kind : Oops(kind)
    BY <1>3, TotalsAccount
  <1>4. CASE (\/ NewVifFiles \/ AttachPort \/ LinkPort \/ LinkFails \/ DelPortPlain
              \/ DelVifProc) /\ ~ \E kind : Oops(kind)
    <2>1. /\ ~ RtnlSums /\ ~ RtnlSums'
          /\ UNCHANGED <<total, active, user, module, exit, vif>>
      BY <1>4 DEF NewVifFiles, AttachPort, LinkPort, LinkFails, DelPortPlain, DelVifProc, NoRtnl,
                  RtnlSums, TypeOK
    <2>2. Kept
      BY <2>1 DEF Kept, ExitSums, HasCA
    <2>q. QED
      BY <2>2, <1>k
  <1>5. CASE AddPortFails
    <2>1. /\ ~ RtnlSums /\ ~ RtnlSums'
          /\ UNCHANGED <<total, active, user, module, exit>>
      BY <1>5 DEF AddPortFails, NoRtnl, RtnlSums
    <2>2. \A i \in VifIds : vif'[i].weight = vif[i].weight
      BY <1>5 DEF AddPortFails, TypeOK
    <2>3. Kept
      BY <2>1, <2>2, <1>a DEF Kept, ExitSums, HasCA
    <2>q. QED
      BY <2>3, <1>k
  <1>6. CASE (del_vif \/ ExitDelVif) /\ ~ \E kind : Oops(kind)
    BY <1>6, TotalsDelete
  <1>7. CASE RcuFreesPort
    <2>1. /\ rtnl'.op = rtnl.op /\ rtnl'.sum = rtnl.sum
          /\ UNCHANGED <<total, active, user, module, exit, vif>>
      BY <1>7 DEF RcuFreesPort, TypeOK
    <2>2. Kept
      BY <2>1 DEF Kept, ExitSums, HasCA
    <2>q. QED
      BY <2>2, <1>k
  <1>8. CASE DelVifFree /\ ~ \E kind : Oops(kind)
    <2>1. /\ rtnl.op = "free" /\ rtnl' = NoRtnl
          /\ vif' = [vif EXCEPT ![rtnl.id] = NewRecord(FreedPort)]
          /\ UNCHANGED <<total, active, user, module, exit>>
      BY <1>8 DEF DelVifFree
    <2>2. /\ rtnl.id \notin active
          /\ \A i \in active : i \in VifIds /\ vif'[i] = vif[i]
      BY <2>1 DEF Lives, Holder, Deleting, TypeOK
    <2>3. Kept
      BY <2>1, <2>2 DEF Kept, RtnlSums, ExitSums, HasCA, NoRtnl
    <2>q. QED
      BY <2>3, <1>k
  <1>9. CASE ExitUnproc /\ ~ \E kind : Oops(kind)
    <2>1. /\ ~ ExitSums /\ ~ ExitSums'
          /\ UNCHANGED <<total, active, user, module, rtnl, vif>>
      BY <1>9 DEF ExitUnproc, ExitMeetsFreed, ExitSums, TypeOK
    <2>2. Kept
      BY <2>1 DEF Kept, RtnlSums, HasCA
    <2>q. QED
      BY <2>2, <1>k
  <1>10. CASE ExitFree /\ ~ \E kind : Oops(kind)
    <2>1. /\ exit.op = "free" /\ exit'.op = "walk"
          /\ vif' = [vif EXCEPT ![exit.cur] = NewRecord(FreedPort)]
          /\ UNCHANGED <<total, active, user, module, rtnl>>
      BY <1>10 DEF ExitFree, ExitMeetsFreed, NoExit
    <2>2. /\ exit.cur \notin active
          /\ \A i \in active : i \in VifIds /\ vif'[i] = vif[i]
      BY <2>1 DEF Lives, Remover, Exiting, TypeOK
    <2>3. Kept
      BY <2>1, <2>2 DEF Kept, RtnlSums, ExitSums, HasCA
    <2>q. QED
      BY <2>3, <1>k
  <1>11. ASSUME NEW c \in Cpus, RxStore(c), ~ \E kind : Oops(kind)
         PROVE  Totals'
    <2>1. /\ vif' = [vif EXCEPT ![rx[c].id].used = rx[c].sum] /\ Idle
      BY <1>11 DEF RxStore, Idle
    <2>2. \A i \in VifIds : vif'[i].weight = vif[i].weight
      BY <2>1 DEF TypeOK
    <2>q. QED
      BY <2>1, <2>2, <1>i
  <1>12. ASSUME NEW c \in Cpus, NEW p, NEW len, pay_credit(c, p, len), ~ \E kind : Oops(kind)
         PROVE  Totals'
    BY <1>12, <1>i DEF pay_credit, Idle
  <1>13. ASSUME NEW i \in VifIds, NEW x, WriteGoal(i, x) \/ WritePid(i, x)
         PROVE  Totals'
    <2>1. /\ vif' = [vif EXCEPT ![i].goal = x] \/ vif' = [vif EXCEPT ![i].task = x]
          /\ Idle
      BY <1>13 DEF WriteGoal, WritePid, Idle
    <2>2. CASE vif' = [vif EXCEPT ![i].goal = x]
      <3>1. \A j \in VifIds : vif'[j].weight = vif[j].weight
        BY <2>2 DEF TypeOK
      <3>q. QED
        BY <2>1, <3>1, <1>i
    <2>3. CASE vif' = [vif EXCEPT ![i].task = x]
      <3>1. \A j \in VifIds : vif'[j].weight = vif[j].weight
        BY <2>3 DEF TypeOK
      <3>q. QED
        BY <2>1, <3>1, <1>i
    <2>q. QED
      BY <2>1, <2>2, <2>3
  <1>14. ASSUME NEW u \in Users,
                UserStep(u) \/ \E i \in VifIds, n \in Weights : WriteWeight(u, i, n)
         PROVE  Totals'
    BY <1>14, TotalsStore, TotalsWrite
  <1>15. CASE ResetCredit /\ ~ \E kind : Oops(kind)
    <2>1. /\ vif' = [vif EXCEPT ![timer.cur].used = 0] /\ Idle
      BY <1>15 DEF ResetCredit, WalkMeetsFreed, Idle
    <2>2. \A i \in VifIds : vif'[i].weight = vif[i].weight
      BY <2>1 DEF TypeOK
    <2>q. QED
      BY <2>1, <2>2, <1>i
  <1>16. CASE (TimerFires \/ quota_control \/ GetQuota \/ SetQuota \/ TimerRearms)
              /\ ~ \E kind : Oops(kind)
    <2>1. Idle /\ UNCHANGED vif
      BY <1>16 DEF TimerFires, quota_control, GetQuota, SetQuota, TimerRearms, WalkMeetsFreed, Idle
    <2>q. QED
      BY <2>1, <1>i
  <1>17. CASE InitAllocator
    BY <1>17, TotalsInit
  <1>18. CASE vif_init \/ InitFails \/ (ExitDone /\ ~ \E kind : Oops(kind))
    <2>1. ~ HasCA'
      BY <1>18 DEF vif_init, InitFails, ExitDone, HasCA
    <2>q. QED
      BY <2>1 DEF Totals
  <1>19. CASE vif_exit
    <2>1. /\ module = "loaded" /\ exit'.op = "walk"
          /\ UNCHANGED <<total, active, user, rtnl, vif>>
      BY <1>19 DEF vif_exit, NoExit
    <2>2. exit.op = "idle"
      BY <2>1 DEF Lives, Loaded, TypeOK
    <2>3. Kept
      BY <2>1, <2>2 DEF Kept, RtnlSums, ExitSums, HasCA
    <2>q. QED
      BY <2>3, <1>k
  <1>20. CASE Halted \/ UNCHANGED vars
    BY <1>20, <1>i DEF Halted, vars, code, Idle
  <1>q. QED
    BY <1>o, <1>1, <1>2, <1>3, <1>4, <1>5, <1>6, <1>7, <1>8, <1>9, <1>10, <1>11, <1>12, <1>13,
       <1>14, <1>15, <1>16, <1>17, <1>18, <1>19, <1>20
    DEF Next, RtnlStep, TimerStep, ExitStep

-----------------------------------------------------------------------------
(* faults *)

\* What README's way of using the module rules out, and what the other faults take.
Faultless ==
    /\ Documented /\ SystemPorts = {} => fault \notin {"freed_vif_rx", "null_vif", "no_ca"}
    /\ TimerFaultCause
    /\ StalePointerCause

\* the causes of an access to something that is not there
Excused(kind) ==
    /\ kind \in {"freed_vif_rx", "null_vif", "no_ca"} => ~ (Documented /\ SystemPorts = {})
    /\ kind = "freed_vif_timer" => "walk" \in races
    /\ kind = "null_task" => "pid" \in races
    /\ kind = "freed_port" => rtnl.pfreed \/ "add_failed" \in races
    /\ kind = "freed_vif_exit" => "unload" \in races
    /\ kind = "freed_vif_rtnl" => "unload" \in races \/ module = "unloading"

\* An oops whose cause is there leaves everything as it is but for the fault.
LEMMA OopsExcused ==
    ASSUME NEW kind, Oops(kind), Excused(kind)
    PROVE  Faultless'
  <1>1. fault' = kind /\ races' = races /\ module' = module /\ rtnl' = rtnl
    BY DEF Oops, code, loader, contexts, history
  <1>q. QED
    BY <1>1 DEF Faultless, TimerFaultCause, StalePointerCause, Excused

\* A step that ends in no oops takes place only while there is no fault.
LEMMA NoFault ==
    ASSUME Up, UNCHANGED fault
    PROVE  Faultless'
  BY DEF Up, Faultless, TimerFaultCause, StalePointerCause

\* What RTNL and the bridge's softirqs meet.
LEMMA FaultsBridge ==
    ASSUME TypeOK, Lives, PortsOK, Traffic,
           \/ \E p \in Ports : NewPort(p) \/ new_vif(p) \/ DelPort(p)
           \/ RtnlStep \/ RcuFreesPort
           \/ \E c \in Cpus : RxStore(c) \/ \E p \in Ports, len \in Lens : pay_credit(c, p, len)
    PROVE  Faultless'
  <1>1. ASSUME NEW p \in Ports, NewPort(p) \/ DelPort(p)
        PROVE  Faultless'
    BY <1>1, NoFault DEF NewPort, DelPort
  <1>2. ASSUME NEW p \in Ports, new_vif(p)
        PROVE  Faultless'
    <2>1. CASE Oops("no_ca") /\ module = "loading"
      <3>1. Excused("no_ca")
        BY <1>2, <2>1 DEF new_vif, Excused
      <3>q. QED
        BY <2>1, <3>1, OopsExcused
    <2>2. CASE Oops("stale_text")
      BY <2>2, OopsExcused DEF Excused
    <2>3. CASE ~ (Oops("no_ca") /\ module = "loading") /\ ~ Oops("stale_text")
      BY <1>2, <2>3, NoFault DEF new_vif
    <2>q. QED
      BY <2>1, <2>2, <2>3
  <1>3. CASE NewVifAccount \/ AttachPort \/ LinkPort \/ LinkFails
    BY <1>3, NoFault DEF NewVifAccount, AttachPort, LinkPort, LinkFails
  <1>4. CASE NewVifFiles
    <2>1. CASE Oops("freed_vif_rtnl") /\ rtnl.id \notin live
      <3>1. Excused("freed_vif_rtnl")
        BY <1>4, <2>1 DEF NewVifFiles, Excused, Lives, Holder, NoLeak
      <3>q. QED
        BY <2>1, <3>1, OopsExcused
    <2>2. CASE Oops("proc_overflow")
      BY <2>2, OopsExcused DEF Excused
    <2>3. CASE ~ (Oops("freed_vif_rtnl") /\ rtnl.id \notin live) /\ ~ Oops("proc_overflow")
      BY <1>4, <2>3, NoFault DEF NewVifFiles
    <2>q. QED
      BY <2>1, <2>2, <2>3
  <1>5. CASE AddPortFails \/ DelPortPlain \/ RcuFreesPort
    BY <1>5, NoFault DEF AddPortFails, DelPortPlain, RcuFreesPort
  <1>6. CASE del_vif
    <2>1. CASE Oops("null_vif") /\ pvif[rtnl.port] = 0
      <3>1. Excused("null_vif")
        BY <1>6, <2>1 DEF del_vif, PortsOK, Hooked, Excused
      <3>q. QED
        BY <2>1, <3>1, OopsExcused
    <2>2. CASE Oops("stale_text")
      BY <2>2, OopsExcused DEF Excused
    <2>3. CASE Oops("freed_vif_rtnl") /\ pvif[rtnl.port] # 0 /\ rtnl.id \notin active
      <3>1. rtnl.op = "quiesce"
        BY <1>6 DEF del_vif
      <3>2. rtnl.id \in live
        BY <2>3, <3>1 DEF Lives, Holder, PortVif
      <3>3. exit.op # "idle"
        BY <2>3, <3>1, <3>2 DEF Lives, NoLeak
      <3>4. Excused("freed_vif_rtnl")
        BY <3>3 DEF Lives, Loaded, Excused
      <3>q. QED
        BY <2>3, <3>4, OopsExcused
    <2>4. CASE /\ ~ (Oops("null_vif") /\ pvif[rtnl.port] = 0) /\ ~ Oops("stale_text")
               /\ ~ (Oops("freed_vif_rtnl") /\ pvif[rtnl.port] # 0 /\ rtnl.id \notin active)
      BY <1>6, <2>4, NoFault DEF del_vif
    <2>q. QED
      BY <2>1, <2>2, <2>3, <2>4
  <1>7. CASE DelVifAccount \/ DelVifProc \/ DelVifFree
    <2>1. CASE Oops("freed_port") /\ rtnl.pfreed
      BY <2>1, OopsExcused DEF Excused
    <2>2. CASE ~ (Oops("freed_port") /\ rtnl.pfreed)
      BY <1>7, <2>2, NoFault DEF DelVifAccount, DelVifProc, DelVifFree
    <2>q. QED
      BY <2>1, <2>2
  <1>8. ASSUME NEW c \in Cpus, RxStore(c)
        PROVE  Faultless'
    <2>1. CASE Oops("freed_vif_rx") /\ rx[c].id \notin live
      <3>1. Excused("freed_vif_rx")
        BY <1>8, <2>1, FrameVif DEF RxStore, Traffic, Excused
      <3>q. QED
        BY <2>1, <3>1, OopsExcused
    <2>2. CASE ~ (Oops("freed_vif_rx") /\ rx[c].id \notin live)
      BY <1>8, <2>2, NoFault DEF RxStore
    <2>q. QED
      BY <2>1, <2>2
  <1>9. ASSUME NEW c \in Cpus, NEW p \in Ports, NEW len \in Lens, pay_credit(c, p, len)
        PROVE  Faultless'
    <2>1. CASE Oops("null_vif") /\ pvif[p] = 0
      <3>1. Excused("null_vif")
        BY <1>9, <2>1 DEF pay_credit, PortsOK, Hooked, Excused
      <3>q. QED
        BY <2>1, <3>1, OopsExcused
    <2>2. CASE Oops("stale_text")
      BY <2>2, OopsExcused DEF Excused
    <2>3. CASE ~ (Oops("null_vif") /\ pvif[p] = 0) /\ ~ Oops("stale_text")
      BY <1>9, <2>3, NoFault DEF pay_credit
    <2>q. QED
      BY <2>1, <2>2, <2>3
  <1>q. QED
    BY <1>1, <1>2, <1>3, <1>4, <1>5, <1>6, <1>7, <1>8, <1>9 DEF RtnlStep

\* What the timer meets.
LEMMA FaultsTimer ==
    ASSUME TypeOK, Lives, Walk, TimerStep
    PROVE  Faultless'
  <1>1. CASE /\ Walking /\ timer.cur # 0 /\ Oops("freed_vif_timer")
             /\ timer.cur \notin live \/ (timer.nxt # 0 /\ timer.nxt \notin active)
    <2>1. Excused("freed_vif_timer")
      BY <1>1 DEF Walk, Cursor, Lives, NoLeak, Excused
    <2>q. QED
      BY <1>1, <2>1, OopsExcused
  <1>2. CASE /\ timer.st \in {"get", "set"} /\ Oops("null_task")
             /\ timer.cur \in live /\ vif[timer.cur].task = 0
    <2>1. Excused("null_task")
      BY <1>2 DEF Walk, Tasked, Excused
    <2>q. QED
      BY <1>2, <2>1, OopsExcused
  <1>3. CASE Oops("freed_ca")
    BY <1>3, OopsExcused DEF Excused
  <1>4. CASE Up /\ UNCHANGED fault
    BY <1>4, NoFault
  <1>5. InRound => timer.cur # 0
    BY DEF Walk, Cursor, Walking, InRound
  <1>6. CASE TimerFires \/ TimerRearms
    BY <1>6, <1>3, <1>4 DEF TimerFires, TimerRearms
  <1>7. CASE quota_control
    BY <1>7, <1>1, <1>4 DEF quota_control, WalkMeetsFreed, Walking
  <1>8. CASE GetQuota
    BY <1>8, <1>1, <1>2, <1>4, <1>5 DEF GetQuota, WalkMeetsFreed, Walking, InRound
  <1>9. CASE SetQuota
    BY <1>9, <1>1, <1>2, <1>4, <1>5 DEF SetQuota, WalkMeetsFreed, Walking, InRound
  <1>10. CASE ResetCredit
    BY <1>10, <1>1, <1>4, <1>5 DEF ResetCredit, WalkMeetsFreed, Walking, InRound
  <1>q. QED
    BY <1>6, <1>7, <1>8, <1>9, <1>10 DEF TimerStep

\* What rmmod meets.
LEMMA FaultsExit ==
    ASSUME TypeOK, Lives, PortsOK, ExitStep
    PROVE  Faultless'
  <1>1. CASE /\ Oops("freed_port") /\ vif[exit.cur].port = FreedPort
             /\ exit.cur \in active \/ Exiting
    <2>1. Excused("freed_port")
      BY <1>1, FreedPortAssumption DEF PortsOK, Owners, Excused
    <2>q. QED
      BY <1>1, <2>1, OopsExcused
  <1>2. CASE /\ Oops("freed_vif_exit")
             /\ exit.op = "walk" /\ exit.cur # 0 /\ exit.cur \notin active
    <2>1. Excused("freed_vif_exit")
      BY <1>2 DEF Lives, Sweep, Loaded, Excused
    <2>q. QED
      BY <1>2, <2>1, OopsExcused
  <1>3. CASE Oops("stale_text")
    BY <1>3, OopsExcused DEF Excused
  <1>4. CASE Up /\ UNCHANGED fault
    BY <1>4, NoFault
  <1>5. CASE ExitDelVif
    BY <1>5, <1>1, <1>2, <1>4 DEF ExitDelVif, ExitMeetsFreed
  <1>6. CASE ExitAccount \/ ExitUnproc \/ ExitFree
    BY <1>6, <1>1, <1>4 DEF ExitAccount, ExitUnproc, ExitFree, ExitMeetsFreed, Exiting
  <1>7. CASE ExitDone
    BY <1>7, <1>3, <1>4 DEF ExitDone
  <1>q. QED
    BY <1>5, <1>6, <1>7 DEF ExitStep

\* Whatever happens, a fault has its cause on record.
LEMMA FaultsStep ==
    ASSUME TypeOK, Lives, PortsOK, Traffic, Walk, Faultless, [Next]_vars
    PROVE  Faultless'
  <1>1. ASSUME NEW i \in VifIds, NEW x, WriteGoal(i, x) \/ WritePid(i, x)
        PROVE  Faultless'
    BY <1>1, NoFault DEF WriteGoal, WritePid
  <1>2. ASSUME NEW u \in Users,
               UserStep(u) \/ \E i \in VifIds, w \in Weights : WriteWeight(u, i, w)
        PROVE  Faultless'
    BY <1>2, NoFault DEF UserStep, WriteWeightSum, WriteWeightSet, WriteWeight
  <1>3. CASE vif_init \/ InitAllocator \/ InitFails \/ vif_exit
    BY <1>3, NoFault DEF vif_init, InitAllocator, InitFails, vif_exit
  <1>4. CASE Halted \/ UNCHANGED vars
    BY <1>4 DEF Halted, vars, code, loader, contexts, history, Faultless, TimerFaultCause,
                StalePointerCause
  <1>q. QED
    BY <1>1, <1>2, <1>3, <1>4, FaultsBridge, FaultsTimer, FaultsExit DEF Next

-----------------------------------------------------------------------------
(* the theorems *)

IInv ==
    /\ TypeOK /\ Goal /\ Regulated /\ Lives /\ PortsOK /\ Traffic /\ Walk /\ NumVifExact /\ Totals
    /\ Faultless

\* The state in which the node comes up satisfies the invariant.
LEMMA InitInv == Init => IInv
  <1> SUFFICES ASSUME Init
               PROVE  IInv
    OBVIOUS
  <1> USE DEF Init
  <1>1. TypeOK /\ Goal
    <2>1. vif \in [VifIds -> VifRecord] /\ Goal
      BY NewRecordTyped DEF Goal, VifRecord
    <2>2. rtnl \in RtnlRecord /\ rx \in [Cpus -> Frame] /\ user \in [Users -> Writer]
      BY ZeroWord DEF RtnlRecord, Frame, Writer, NoRtnl, NoRx, NoUser
    <2>3. timer \in WalkRecord /\ exit \in SweepRecord
      BY ZeroWord DEF WalkRecord, SweepRecord, NoTimer, NoExit
    <2>q. QED
      BY <2>1, <2>2, <2>3, ZeroWord, Bounds, AllocatorAssumption
      DEF TypeOK, VifRecord, RtnlRecord, Frame, Writer, WalkRecord, SweepRecord, Faults
  <1>2. Lives
    BY DEF Lives, Loaded, NoLeak, Holder, Remover, PortVif, Files, Writers, Sweep, Deleting,
           Exiting, HasCA, InVif, NoRtnl, NoUser, NoExit
  <1>3. PortsOK
    BY DEF PortsOK, Owners, Hooked, Quiet, HooksSet, Exiting, NoExit
  <1>4. Traffic
    BY DEF Traffic, Frames, Charges, UsedExact, NoRx
  <1>5. Walk /\ Regulated /\ Faultless
    BY DEF Walk, Cursor, Ahead, Tasked, Walking, InRound, NoTimer, Regulated, Faultless,
           TimerFaultCause, StalePointerCause
  <1>6. NumVifExact /\ Totals
    BY DEF NumVifExact, Totals, HasCA
  <1>q. QED
    BY <1>1, <1>2, <1>3, <1>4, <1>5, <1>6 DEF IInv

\* Every step of every context keeps it.
LEMMA NextInv == IInv /\ [Next]_vars => IInv'
  BY TypesStep, RegulatedStep, LivesStep, PortsStep, TrafficStep, WalkStep, NumVifStep,
     TotalsStep, FaultsStep
  DEF IInv

\* The invariant holds in every state, for any constants.
LEMMA AllocatorInv == Spec => []IInv
  BY InitInv, NextInv, PTL DEF Spec

\* The allocator's state has its types: no word overflows its range unseen, no id leaves the
\* table, no quota its range.
THEOREM AllocatorTypeCorrect == Spec => []TypeOK
  <1>1. IInv => TypeOK
    BY DEF IInv
  <1>q. QED
    BY <1>1, AllocatorInv, PTL

\* vif_write never works on a freed vif, unless rmmod overlapped RTNL in vif.c.
THEOREM AllocatorUsersSafe == Spec => []UsersSafe
  <1>1. IInv => UsersSafe
    BY DEF IInv, Lives, Writers, Files, NoLeak, UsersSafe
  <1>q. QED
    BY <1>1, AllocatorInv, PTL

\* What is allocated is on the list or under deletion by RTNL or rmmod, and rmmod leaves nothing
\* behind, unless it overlapped RTNL in vif.c.
THEOREM AllocatorNoLeak == Spec => []NoLeak
  <1>1. IInv => NoLeak
    BY DEF IInv, Lives
  <1>q. QED
    BY <1>1, AllocatorInv, PTL

\* Used as README says, no cpu charges a freed vif.
THEOREM AllocatorRxSafe == Spec => []RxSafe
  <1>1. IInv => RxSafe
    BY FrameVif DEF IInv, Traffic, Faultless, RxSafe
  <1>q. QED
    BY <1>1, AllocatorInv, PTL

\* CA->num_vif is the length of the list, but for the update under way, unless rmmod overlapped
\* RTNL in vif.c.
THEOREM AllocatorNumVifExact == Spec => []NumVifExact
  <1>1. IInv => NumVifExact
    BY DEF IInv
  <1>q. QED
    BY <1>1, AllocatorInv, PTL

\* CA->total_weight is the sum of the weights on the list whenever nobody is updating it, unless
\* two updates overlapped or one was for a vif already unlinked.
THEOREM AllocatorTotalWeightExact == Spec => []TotalWeightExact
  <1>1. IInv => TotalWeightExact
    BY LoadIsTheSum DEF IInv, Totals, TotalWeightExact
  <1>q. QED
    BY <1>1, AllocatorInv, PTL

\* used_credit is what was received since the last reset, unless contexts met on a vif.
THEOREM AllocatorUsedExact == Spec => []UsedExact
  <1>1. IInv => UsedExact
    BY DEF IInv, Traffic, Charges, UsedExact
  <1>q. QED
    BY <1>1, AllocatorInv, PTL

\* The walk of the timer visits every vif that stays on the list.
THEOREM AllocatorWalkComplete == Spec => []WalkComplete
  <1>1. IInv => WalkComplete
    <2> SUFFICES ASSUME IInv, timer.st = "walk", timer.cur = 0
                 PROVE  due = {}
      BY DEF WalkComplete
    <2>1. \A i \in due : i = 0 \/ i <= 0
      BY DEF IInv, Walk, Ahead, Walking
    <2>2. \A i \in due : i \in Nat /\ i # 0
      BY Bounds DEF IInv, TypeOK, VifIds
    <2>q. QED
      BY <2>1, <2>2
  <1>q. QED
    BY <1>1, AllocatorInv, PTL

\* It goes astray only if a vif it holds is deleted under it, and io_control meets a NULL only
\* if the pid it works on is written under it.
THEOREM AllocatorTimerFaultCause == Spec => []TimerFaultCause
  <1>1. IInv => TimerFaultCause
    BY DEF IInv, Faultless
  <1>q. QED
    BY <1>1, AllocatorInv, PTL

\* del_vif meets a port or a vif that was freed only for the causes on record.
THEOREM AllocatorStalePointerCause == Spec => []StalePointerCause
  <1>1. IInv => StalePointerCause
    BY DEF IInv, Faultless
  <1>q. QED
    BY <1>1, AllocatorInv, PTL

\* Without a failed br_add_if, vifs on the list and ports of the bridge belong together.
THEOREM AllocatorVifOwnsPort == Spec => []VifOwnsPort
  <1>1. IInv => VifOwnsPort
    BY DEF IInv, PortsOK, Owners, VifOwnsPort
  <1>q. QED
    BY <1>1, AllocatorInv, PTL

\* Used as README says, the hooks meet neither a port without a vif nor a module without CA.
THEOREM AllocatorDocumentedUse == Spec => []DocumentedUse
  <1>1. IInv => DocumentedUse
    BY DEF IInv, Faultless, DocumentedUse
  <1>q. QED
    BY <1>1, AllocatorInv, PTL

=============================================================================
