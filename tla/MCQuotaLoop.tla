---------------------------- MODULE MCQuotaLoop -----------------------------
(***************************************************************************)
(* QuotaLoop for TLC.  Words have 10 bits instead of 32 and the numbers of *)
(* common.h are scaled with them, so that goals large enough to wrap k*diff*)
(* (some 860 MB/s from the load in the code) and goals small enough not to *)
(* are both among the inputs.                                              *)
(***************************************************************************)
EXTENDS QuotaLoop

\* goals from the smallest to the largest the arithmetic supports
MCGoals == {0, 2, 3, 5, 8, 20, 41, 90, 127}

\* used_credit around every goal, its half and its double, and at the limit
MCLoads == {2 * x : x \in {0, 1, 2, 3, 4, 5, 8, 9, 10, 16, 20, 39, 40, 41, 42, 83, 127, 128, 254, 255, 300, 511}}

MCOwnerQuotas == {NoLimit, 4, 20, 90}

=============================================================================
