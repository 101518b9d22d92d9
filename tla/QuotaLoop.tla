----------------------------- MODULE QuotaLoop ------------------------------
(***************************************************************************)
(* One container under the control loop of Stella_con/vif.c: its goal is   *)
(* written through /proc, the timer measures its traffic once a second and *)
(* moves the CFS quota of its task group, and the owner of the cgroup (the *)
(* container runtime) may rewrite that quota at any time.                  *)
(***************************************************************************)
EXTENDS QuotaControl

CONSTANTS Goals,       \* the goals that may be written
          Loads,       \* values of used_credit at the end of a period
          OwnerQuotas  \* quotas the container runtime sets, NoLimit included

(***************************************************************************)
(* A goal of Word/8 or more makes goal*8 wrap (and the division by it may  *)
(* be by zero); with the goal 1 the quotient may leave the positive ints.  *)
(* The kubelet writes iq*1000/8 for an SLO of iq Mbps: neither happens.    *)
(***************************************************************************)
ASSUME LoopAssumption ==
    /\ Goals \subseteq {0} \cup 2 .. (Word \div 8) - 1
    /\ Loads \subseteq Unsigned
    /\ OwnerQuotas \subseteq {NoLimit} \cup Quotas

VARIABLES goal,   \* vif->max_credit
          perf,   \* vif->min_credit: the performance last measured
          quota   \* cfs quota of vif->ts->sched_task_group, in microseconds

vars == <<goal, perf, quota>>

Init ==
    /\ goal = 0
    /\ perf = 0
    /\ quota \in OwnerQuotas

\* vif_write on the file "goal"
WriteGoal(g) ==
    /\ goal' = g
    /\ UNCHANGED <<perf, quota>>

\* the timer's io_control with used_credit = used; tg_set_cfs_quota succeeds
Tick(used) ==
    /\ perf' = Perf(used)
    /\ quota' = io_control(goal, Perf(used), quota)
    /\ UNCHANGED goal

\* the same when tg_set_cfs_quota returns an error: only a message is printed
TickRefused(used) ==
    /\ Regulates(goal, Perf(used))
    /\ perf' = Perf(used)
    /\ UNCHANGED <<goal, quota>>

\* the runtime or the kubelet rewrites cpu.cfs_quota_us of the container
OwnerSetsQuota(q) ==
    /\ quota' = q
    /\ UNCHANGED <<goal, perf>>

Next ==
    \/ \E g \in Goals : WriteGoal(g)
    \/ \E used \in Loads : Tick(used) \/ TickRefused(used)
    \/ \E q \in OwnerQuotas : OwnerSetsQuota(q)

Spec == Init /\ [][Next]_vars

-----------------------------------------------------------------------------
\* Type invariant.  In particular the controller never leaves a quota outside
\* the range of common.h, whatever words wrapped on the way.
TypeOK ==
    /\ goal \in Goals \cup {0}
    /\ perf \in Unsigned
    /\ quota \in OwnerQuotas \cup Quotas

\* A controlled step from before to after, with the goal g and performance p:
\* never against the goal, and never by more than MAX_DIFF.
StepTowards(g, p, before, after) ==
    /\ p < g => before <= after /\ after <= before + MAX_DIFF
    /\ p > g => before - MAX_DIFF <= after /\ after <= before

(***************************************************************************)
(* A container whose quota is in the controller's range never loses CPU    *)
(* while it is below its goal, never gains any while above it, and its     *)
(* quota moves by at most MAX_DIFF a second, although the products and     *)
(* differences of io_control wrap and change sign.                         *)
(***************************************************************************)
TowardsGoal ==
    [][\A used \in Loads :
          Tick(used) /\ quota \in Quotas /\ perf' # 0 /\ goal # 0
             => StepTowards(goal, perf', quota, quota')]_vars

\* No word wraps while io_control computes the step.
Exact(g, p) ==
    LET dist == IF p < g THEN g - p ELSE p - g
    IN  /\ K(g, p) > 0
        /\ K(g, p) * dist + (g - 1) < Word

(***************************************************************************)
(* The loop has no dead zone: as long as nothing wraps and the gain is not *)
(* rounded to 0, a container off its goal gets another quota every second, *)
(* until the quota is at the end of its range.                             *)
(***************************************************************************)
NoDeadZone ==
    [][\A used \in Loads :
          Tick(used) /\ quota \in Quotas /\ Regulates(goal, perf') /\ Exact(goal, perf')
             => \/ quota' # quota
                \/ perf' < goal /\ quota = MAX_QUOTA
                \/ perf' > goal /\ quota = MIN_QUOTA]_vars

\* How much CPU a quota stands for: NoLimit is more than any quota.
Cpu(q) == IF q = NoLimit THEN MAX_QUOTA + 1 ELSE q

(***************************************************************************)
(* The README's description of the agent: "the network bandwidth seen by   *)
(* the pod is lower than the network SLO: the CPU quota is increased".     *)
(* It does not hold for a container without a CPU limit, whose quota reads *)
(* -1 and is taken for a number.                                           *)
(***************************************************************************)
BelowGoalKeepsCpu ==
    [][\A used \in Loads :
          Tick(used) /\ perf' # 0 /\ perf' < goal => Cpu(quota) <= Cpu(quota')]_vars

=============================================================================
