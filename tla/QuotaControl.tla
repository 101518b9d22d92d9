---------------------------- MODULE QuotaControl ----------------------------
(***************************************************************************)
(* The arithmetic of io_control (Stella_con/vif.c): from a container's     *)
(* goal, the traffic it was charged for in the last second and its present *)
(* CFS quota, the quota for the next second.  The C code mixes int and     *)
(* unsigned int, so every intermediate result is a machine word: U and S   *)
(* read a number as an unsigned and as a signed word.                      *)
(*                                                                         *)
(* The numbers of the code are constants here, because TLC's integers are  *)
(* 32 bits wide themselves and a wrapped word needs a smaller Word:        *)
(*   Word      2^32                   MAX_QUOTA  100000                    *)
(*   Gain      5000                   MIN_QUOTA  1000                      *)
(*   FineGain  5000*100000            MAX_DIFF   10000                     *)
(*   Scale     1000                                                        *)
(***************************************************************************)
EXTENDS Integers

CONSTANTS Word, MAX_QUOTA, MIN_QUOTA, MAX_DIFF, Gain, FineGain, Scale

(***************************************************************************)
(* What the values in the code satisfy and the theorems need: words have   *)
(* an even number of values, the quota range is not empty, and a quota     *)
(* plus one step fits a signed word.                                       *)
(***************************************************************************)
ASSUME QuotaAssumption ==
    /\ Word \in Nat /\ Word >= 16 /\ Word % 2 = 0
    /\ MIN_QUOTA \in Nat \ {0} /\ MAX_QUOTA \in Nat /\ MIN_QUOTA <= MAX_QUOTA
    /\ MAX_DIFF \in Nat \ {0}
    /\ MAX_QUOTA + MAX_DIFF < Word \div 2
    /\ Gain \in Nat \ {0} /\ FineGain \in Nat \ {0}
    /\ Scale \in Nat /\ Scale >= 2

\* mutant: the field has type int
USigned(x) == x

\* x as an unsigned int
U(x) == x % Word

\* x as an int: two's complement
S(x) == IF x % Word < Word \div 2 THEN x % Word ELSE (x % Word) - Word

Unsigned == 0 .. Word - 1

Quotas == MIN_QUOTA .. MAX_QUOTA

\* tg_get_cfs_quota's answer for a task group without a limit
NoLimit == -1

\* perf: what was charged in the period, in thousands of bytes
Perf(used) == used \div Scale

\* io_control goes past its early return
Regulates(goal, perf) == goal # perf /\ perf # 0 /\ goal # 0

\* the performance is off by more than a factor of two
FarOff(goal, perf) == perf < goal \div 2 \/ perf > U(goal * 2)

\* the gain k: fixed when far off, inversely proportional to the goal when near
K(goal, perf) == IF FarOff(goal, perf) THEN Gain ELSE FineGain \div U(goal * 8)

\* mutant: the division rounds down
RawStepRoundsDown(k, dist, goal) == S(U(k * dist) \div goal)

\* the quotient computed with unsigned operands and stored in the int dat
RawStep(k, dist, goal) == S(U(k * dist + (goal - 1)) \div goal)

Dat(k, dist, goal) ==
    LET dat == RawStep(k, dist, goal)
    IN  IF dat > MAX_DIFF THEN MAX_DIFF ELSE dat

\* mutant: only the upper end of the range is enforced
ClampAboveOnly(after) == IF after > MAX_QUOTA THEN MAX_QUOTA ELSE after

Clamp(after) ==
    IF after > MAX_QUOTA THEN MAX_QUOTA
    ELSE IF after <= 0 \/ after < MIN_QUOTA THEN MIN_QUOTA ELSE after

\* mutant: diff is unsigned, so that it is positive whenever it is not 0
NextQuotaUnsignedDiff(goal, perf, before) ==
    LET k == K(goal, perf)
    IN  IF U(goal - perf) > 0
        THEN Clamp(S(before + Dat(k, goal - perf, goal)))
        ELSE Clamp(S(before - Dat(k, perf - goal, goal)))

(***************************************************************************)
(* The quota io_control sets, for a goal and a performance that make it    *)
(* regulate.  diff is an int: its sign decides the direction.              *)
(***************************************************************************)
NextQuota(goal, perf, before) ==
    LET k == K(goal, perf)
    IN  IF S(goal - perf) > 0
        THEN Clamp(S(before + Dat(k, goal - perf, goal)))
        ELSE Clamp(S(before - Dat(k, perf - goal, goal)))

\* the whole of io_control on a quota: the early return leaves it alone
io_control(goal, perf, before) ==
    IF Regulates(goal, perf) THEN NextQuota(goal, perf, before) ELSE before

=============================================================================
