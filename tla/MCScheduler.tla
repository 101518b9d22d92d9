---------------------------- MODULE MCScheduler -----------------------------
(* Scheduler for TLC: pods that share a node only one at a time. *)
EXTENDS Scheduler, TLC

SloOf == [p \in Pods |-> 2]
CapacityOf == [n \in Nodes |-> 3]
PodSymmetry == Permutations(Pods)

(***************************************************************************)
(* For liveness: all pods and nodes with one upset, or one pod and the     *)
(* nodes of the start with MaxUpsets, of which all but the first are       *)
(* deletions of the pod and changes of the node.  The bound holds back     *)
(* users and nodes, never a step that Fairness asks for.                   *)
(***************************************************************************)
Few ==
    \/ upsets' <= 1
    \/ /\ \A p \in Pods \ {CHOOSE q \in Pods : TRUE} : apiPod'[p].st = "none"
       /\ \A n \in Nodes \ Ready : apiNode'[n] = "none"
       /\ upsets' = upsets \/ UNCHANGED World

FewSpec == Init /\ [][Next /\ Few]_vars /\ Fairness

=============================================================================
