---------------------------- MODULE QuotaProofs -----------------------------
(***************************************************************************)
(* Proofs about the loop around io_control, for every word size, gain and  *)
(* quota range that satisfies QuotaAssumption.                             *)
(***************************************************************************)
EXTENDS QuotaLoop, QuotaControlProofs

\* Every goal of the loop that is not 0 is in the range of the arithmetic.
LEMMA GoalRange ==
    ASSUME NEW g \in Goals \cup {0}, g # 0
    PROVE  g \in Nat /\ g >= 2 /\ g < Word \div 8
  BY LoopAssumption, QuotaAssumption

\* From a legal quota the next one is on the side of the goal, at most
\* MAX_DIFF away: neither the sign of diff nor the sum wraps.
LEMMA NextQuotaTowards ==
    ASSUME NEW g \in Nat, g >= 2, g < Word \div 8,
           NEW p \in Nat, p < Word \div 2, NEW before \in Quotas
    PROVE  StepTowards(g, p, before, NextQuota(g, p, before))
  <1>. DEFINE up   == Dat(K(g, p), g - p, g)
              down == Dat(K(g, p), p - g, g)
  <1>k. K(g, p) \in Nat
    BY GainNat
  <1>1. up \in 0 .. MAX_DIFF /\ down \in 0 .. MAX_DIFF
    BY <1>k, DatBoth
  <1>b. /\ before \in Nat /\ MIN_QUOTA <= before /\ before <= MAX_QUOTA
        /\ MIN_QUOTA \in Nat /\ MAX_QUOTA \in Nat /\ MAX_DIFF \in Nat
        /\ MAX_QUOTA + MAX_DIFF < Word \div 2 /\ Word \in Nat
    BY QuotaAssumption DEF Quotas
  <1>2. S(g - p) = g - p
    <2>1. g - p \in Int /\ -(Word \div 2) <= g - p /\ g - p < Word \div 2
      BY <1>b
    <2>. QED  BY <2>1, SignedSmall
  <1>. HIDE DEF up, down
  <1>3. S(before + up) = before + up
    BY <1>1, <1>b, SignedSmall
  <1>4. S(before - down) = before - down
    BY <1>1, <1>b, SignedSmall
  <1>5. ASSUME p < g
        PROVE  /\ before <= NextQuota(g, p, before)
               /\ NextQuota(g, p, before) <= before + MAX_DIFF
    <2>1. NextQuota(g, p, before) = Clamp(before + up)
      BY <1>2, <1>3, <1>5 DEF NextQuota, up
    <2>. QED  BY <2>1, <1>1, <1>b DEF Clamp
  <1>6. ASSUME p > g
        PROVE  /\ before - MAX_DIFF <= NextQuota(g, p, before)
               /\ NextQuota(g, p, before) <= before
    <2>1. NextQuota(g, p, before) = Clamp(before - down)
      BY <1>2, <1>4, <1>6 DEF NextQuota, down
    <2>. QED  BY <2>1, <1>1, <1>b DEF Clamp
  <1>. QED  BY <1>5, <1>6 DEF StepTowards

-----------------------------------------------------------------------------
\* One step of the loop keeps the types: the quota is the owner's or a legal one.
LEMMA LoopTypeStep == TypeOK /\ [Next]_vars => TypeOK'
  <1>. SUFFICES ASSUME TypeOK, [Next]_vars PROVE TypeOK'
    OBVIOUS
  <1>. USE DEF TypeOK
  <1>1. ASSUME NEW g \in Goals, WriteGoal(g) PROVE TypeOK'
    BY <1>1 DEF WriteGoal
  <1>2. ASSUME NEW used \in Loads PROVE Perf(used) \in Unsigned
    BY LoopAssumption, PerfRange, QuotaAssumption DEF Unsigned
  <1>3. ASSUME NEW used \in Loads, Tick(used) PROVE TypeOK'
    <2>1. CASE Regulates(goal, Perf(used))
      <3>1. goal \in Nat /\ goal >= 2 /\ goal < Word \div 8
        BY <2>1, GoalRange DEF Regulates
      <3>2. Perf(used) \in Nat
        BY LoopAssumption, PerfRange
      <3>3. quota \in Int
        BY LoopAssumption, QuotaAssumption DEF Quotas, NoLimit
      <3>4. quota' \in Quotas
        BY <1>3, <2>1, <3>1, <3>2, <3>3, NextQuotaInQuotas DEF Tick, io_control
      <3>. QED  BY <1>2, <1>3, <3>4 DEF Tick
    <2>2. CASE ~ Regulates(goal, Perf(used))
      BY <1>2, <1>3, <2>2 DEF Tick, io_control
    <2>. QED  BY <2>1, <2>2
  <1>4. ASSUME NEW used \in Loads, TickRefused(used) PROVE TypeOK'
    BY <1>2, <1>4 DEF TickRefused
  <1>5. ASSUME NEW q \in OwnerQuotas, OwnerSetsQuota(q) PROVE TypeOK'
    BY <1>5 DEF OwnerSetsQuota
  <1>6. CASE UNCHANGED vars
    BY <1>6 DEF vars
  <1>. QED  BY <1>1, <1>3, <1>4, <1>5, <1>6 DEF Next

(***************************************************************************)
(* TypeOK is an invariant of the loop for every word size: io_control      *)
(* (vif.c:20) never leaves a quota outside MIN_QUOTA..MAX_QUOTA.           *)
(***************************************************************************)
THEOREM LoopTypeCorrect == Spec => []TypeOK
  <1>1. Init => TypeOK
    BY QuotaAssumption DEF Init, TypeOK, Unsigned
  <1>. QED  BY <1>1, LoopTypeStep, PTL DEF Spec

(***************************************************************************)
(* TowardsGoal holds for every word size, gain and quota range: a step of  *)
(* io_control is never against the goal and never larger than MAX_DIFF,    *)
(* although its products may wrap.                                         *)
(***************************************************************************)
THEOREM LoopTowardsGoal == Spec => TowardsGoal
  <1>. DEFINE Good == \A used \in Loads :
          Tick(used) /\ quota \in Quotas /\ perf' # 0 /\ goal # 0
             => StepTowards(goal, perf', quota, quota')
  <1>1. TypeOK /\ [Next]_vars => [Good]_vars
    <2>. SUFFICES ASSUME TypeOK, NEW used \in Loads, Tick(used),
                         quota \in Quotas, perf' # 0, goal # 0
                  PROVE  StepTowards(goal, perf', quota, quota')
      OBVIOUS
    <2>1. goal \in Nat /\ goal >= 2 /\ goal < Word \div 8
      BY GoalRange DEF TypeOK
    <2>2. perf' = Perf(used) /\ perf' \in Nat /\ perf' < Word \div 2
      BY LoopAssumption, PerfRange DEF Tick
    <2>3. CASE goal = perf'
      BY <2>1, <2>2, <2>3 DEF StepTowards
    <2>4. CASE goal # perf'
      <3>1. quota' = NextQuota(goal, perf', quota)
        BY <2>2, <2>4 DEF Tick, io_control, Regulates
      <3>. QED  BY <3>1, <2>1, <2>2, NextQuotaTowards
    <2>. QED  BY <2>3, <2>4
  <1>. QED  BY <1>1, LoopTypeCorrect, PTL DEF Spec, TowardsGoal

(***************************************************************************)
(* A step whose dividend does not wrap is at least 1: the division in      *)
(* io_control rounds up.                                                   *)
(***************************************************************************)
LEMMA DatPositive ==
    ASSUME NEW k \in Nat, NEW d \in Nat, NEW g \in Nat, g >= 2,
           k > 0, d > 0, k * d + (g - 1) < Word
    PROVE  Dat(k, d, g) \in 1 .. MAX_DIFF
  <1>. DEFINE n == k * d + (g - 1)
  <1>1. k * d \in Nat /\ k * d >= 1
    OBVIOUS
  <1>2. n \in Nat /\ n >= g /\ n < Word
    BY <1>1
  <1>3. U(n) = n
    BY <1>2, QuotaAssumption DEF U
  <1>. HIDE DEF n
  <1>4. n \div g \in Nat /\ 2 * (n \div g) <= n
    BY <1>2, QuotientHalves
  <1>5. n \div g >= 1
    <2>. DEFINE q == n \div g
    <2>1. q \in Int /\ n = g * q + (n % g) /\ n % g \in 0 .. g - 1
      BY <1>2
    <2>2. q = 0 => n < g
      BY <2>1
    <2>. QED  BY <1>2, <1>4, <2>1, <2>2
  <1>6. S(n \div g) = n \div g
    <2>1. n \div g < Word \div 2
      BY <1>2, <1>4, QuotaAssumption
    <2>. QED  BY <1>4, <2>1, SignedSmall, QuotaAssumption
  <1>7. RawStep(k, d, g) \in Nat /\ RawStep(k, d, g) >= 1
    BY <1>3, <1>4, <1>5, <1>6 DEF RawStep, n
  <1>. QED  BY <1>7, QuotaAssumption DEF Dat

\* With an exact step, io_control changes the quota unless it is at the end
\* of its range.
LEMMA NextQuotaMoves ==
    ASSUME NEW g \in Nat, g >= 2, g < Word \div 8,
           NEW p \in Nat, p < Word \div 2, p # g, Exact(g, p),
           NEW before \in Quotas
    PROVE  \/ NextQuota(g, p, before) # before
           \/ p < g /\ before = MAX_QUOTA
           \/ p > g /\ before = MIN_QUOTA
  <1>. DEFINE k == K(g, p)
              up == Dat(k, g - p, g)
              down == Dat(k, p - g, g)
  <1>k. k \in Nat
    BY GainNat
  <1>b. /\ before \in Nat /\ MIN_QUOTA <= before /\ before <= MAX_QUOTA
        /\ MIN_QUOTA \in Nat /\ MAX_QUOTA \in Nat /\ MAX_DIFF \in Nat
        /\ MAX_QUOTA + MAX_DIFF < Word \div 2 /\ Word \in Nat
    BY QuotaAssumption DEF Quotas
  <1>2. S(g - p) = g - p
    <2>1. g - p \in Int /\ -(Word \div 2) <= g - p /\ g - p < Word \div 2
      BY <1>b
    <2>. QED  BY <2>1, SignedSmall
  <1>3. CASE p < g
    <2>1. g - p \in Nat /\ g - p > 0 /\ k > 0 /\ k * (g - p) + (g - 1) < Word
      BY <1>3 DEF Exact
    <2>2. up \in 1 .. MAX_DIFF
      BY <1>k, <2>1, DatPositive
    <2>. HIDE DEF up, k
    <2>3. S(before + up) = before + up
      BY <2>2, <1>b, SignedSmall
    <2>4. NextQuota(g, p, before) = Clamp(before + up)
      BY <1>2, <1>3, <2>3 DEF NextQuota, up, k
    <2>. QED  BY <2>2, <2>4, <1>3, <1>b DEF Clamp
  <1>4. CASE p > g
    <2>1. p - g \in Nat /\ p - g > 0 /\ k > 0 /\ k * (p - g) + (g - 1) < Word
      BY <1>4 DEF Exact
    <2>2. down \in 1 .. MAX_DIFF
      BY <1>k, <2>1, DatPositive
    <2>. HIDE DEF down, k
    <2>3. S(before - down) = before - down
      BY <2>2, <1>b, SignedSmall
    <2>4. NextQuota(g, p, before) = Clamp(before - down)
      BY <1>2, <1>4, <2>3 DEF NextQuota, down, k
    <2>. QED  BY <2>2, <2>4, <1>4, <1>b DEF Clamp
  <1>. QED  BY <1>3, <1>4

(***************************************************************************)
(* NoDeadZone holds for every word size, gain and quota range: while no    *)
(* word wraps, the loop of vif.c never rests off its goal.                 *)
(***************************************************************************)
THEOREM LoopNoDeadZone == Spec => NoDeadZone
  <1>. DEFINE Good == \A used \in Loads :
          Tick(used) /\ quota \in Quotas /\ Regulates(goal, perf') /\ Exact(goal, perf')
             => \/ quota' # quota
                \/ perf' < goal /\ quota = MAX_QUOTA
                \/ perf' > goal /\ quota = MIN_QUOTA
  <1>1. TypeOK /\ [Next]_vars => [Good]_vars
    <2>. SUFFICES ASSUME TypeOK, NEW used \in Loads, Tick(used), quota \in Quotas,
                         Regulates(goal, perf'), Exact(goal, perf')
                  PROVE  \/ quota' # quota
                         \/ perf' < goal /\ quota = MAX_QUOTA
                         \/ perf' > goal /\ quota = MIN_QUOTA
      OBVIOUS
    <2>1. goal \in Nat /\ goal >= 2 /\ goal < Word \div 8
      BY GoalRange DEF TypeOK, Regulates
    <2>2. perf' = Perf(used) /\ perf' \in Nat /\ perf' < Word \div 2
      BY LoopAssumption, PerfRange DEF Tick
    <2>3. quota' = NextQuota(goal, perf', quota)
      BY <2>2 DEF Tick, io_control
    <2>. QED  BY <2>1, <2>2, <2>3, NextQuotaMoves DEF Regulates
  <1>. QED  BY <1>1, LoopTypeCorrect, PTL DEF Spec, NoDeadZone

=============================================================================
