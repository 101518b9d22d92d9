----------------------------- MODULE SloDemand ------------------------------
(***************************************************************************)
(* What pods ask for and nodes offer of example.com/SLO, an extended       *)
(* resource of the node (fit.go, node_info.go) that an administrator has   *)
(* patched in.  The other resources are left out.                          *)
(***************************************************************************)
EXTENDS Integers, FiniteSets, FiniteSetsExt

CONSTANTS
    Pods,
    Nodes,
    NoNode,
    Slo,        \* the SLO each pod asks for, 0 for none
    Capacity    \* what each node offers once it offers SLOs

ASSUME PodsAssumption == IsFiniteSet(Pods)
ASSUME NodesAssumption == IsFiniteSet(Nodes)
ASSUME SloAssumption == Slo \in [Pods -> Nat]
ASSUME CapacityAssumption == Capacity \in [Nodes -> Nat]
ASSUME NoNodeAssumption == NoNode \notin Nodes

Requested(pods) == MapThenSumSet(LAMBDA p : Slo[p], pods)

\* NodeResourcesFit; a pod without an SLO is not compared
FitsAmong(p, pods, offered) == Slo[p] = 0 \/ Slo[p] + Requested(pods) <= offered

=============================================================================
