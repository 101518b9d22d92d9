----------------------------- MODULE QuotaPlant -----------------------------
(***************************************************************************)
(* The control loop closed over a container: what io_control sets decides  *)
(* what it measures a second later.  The container is external, and taken  *)
(* to be CPU-bound: it sends rate * 1000 bytes a second for every thousand *)
(* microseconds of quota, and as much as with a full CPU when its quota is *)
(* not limited.  The numbers are those of the code.                        *)
(***************************************************************************)
EXTENDS QuotaControl

CONSTANTS Rates, PlantGoals, StartQuotas

ASSUME PlantAssumption ==
    /\ Rates \subseteq Nat /\ PlantGoals \subseteq Nat
    /\ StartQuotas \subseteq Quotas

VARIABLES rate, goal, perf, quota

vars == <<rate, goal, perf, quota>>

\* the performance of a container with this quota
Sends(r, q) == (r * (IF q = NoLimit THEN MAX_QUOTA ELSE q)) \div 1000

Init ==
    /\ rate \in Rates
    /\ goal \in PlantGoals
    /\ perf = 0
    /\ quota \in StartQuotas \cup {NoLimit}

\* a period of traffic, and then the timer
Tick ==
    /\ perf' = Sends(rate, quota)
    /\ quota' = io_control(goal, Sends(rate, quota), quota)
    /\ UNCHANGED <<rate, goal>>

Spec == Init /\ [][Tick]_vars /\ WF_vars(Tick)

-----------------------------------------------------------------------------
Distance == IF perf < goal THEN goal - perf ELSE perf - goal

\* the goal is between what the smallest and the largest quota yield
Feasible == Sends(rate, MIN_QUOTA) <= goal /\ goal <= Sends(rate, MAX_QUOTA)

\* near the goal a step changes the performance by less than twice the distance
Damped(r, g) == r < (2 * 1000 * g) \div K(g, g)

(***************************************************************************)
(* README: the agent adjusts the CPU dynamically to achieve the SLO.  From *)
(* any quota the performance comes within 1% of a feasible goal and stays  *)
(* there, if the gain, which grows as the goal shrinks, is not too large   *)
(* for the container: otherwise the loop oscillates for ever.              *)
(***************************************************************************)
Converges == <>[](Feasible /\ Damped(rate, goal) => 100 * Distance <= goal)

(***************************************************************************)
(* A goal out of reach drives the quota to the end of its range, and keeps *)
(* it there.                                                               *)
(***************************************************************************)
Saturates ==
    <>[](/\ goal > Sends(rate, MAX_QUOTA) => quota = MAX_QUOTA
         /\ goal < Sends(rate, MIN_QUOTA) => quota = MIN_QUOTA)

=============================================================================
