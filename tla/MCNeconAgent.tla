---------------------------- MODULE MCNeconAgent ----------------------------
(* NeconAgent for TLC: two pods of distinct SLOs, the others without.     *)
EXTENDS NeconAgent, FiniteSets

CONSTANTS a, b, h, s, MaxSlips, Mortal

\* 240 Mbps and 96 Mbps; the other pods have no SLO
SloOf == [p \in Pods |-> IF p = a THEN 240 ELSE IF p = b THEN 96 ELSE 0]

\* behaviours in which at most so many kinds of things go wrong besides stray digits,
\* and only these pods are deleted
Few ==
    /\ Cardinality(slips \ {"stray"}) <= MaxSlips
    /\ \A p \in Pods \ Mortal : pc[p] \notin {"killed", "gone"}

=============================================================================
