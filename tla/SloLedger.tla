----------------------------- MODULE SloLedger ------------------------------
(***************************************************************************)
(* What the scheduler promises about example.com/SLO, whatever its cache,  *)
(* queue and goroutines do: a pod is placed on a node only while it holds  *)
(* a claim there, and a claim is granted only when it and the claims that  *)
(* are held fit the node.  A claim that is dropped while its pod is placed *)
(* excuses the pod: it may claim its node again without asking, and so are *)
(* the pods with a claim on a node that is lost, before or after.          *)
(***************************************************************************)
EXTENDS SloDemand

VARIABLES
    claim,      \* the node a pod holds a claim on
    placed,     \* the node a pod was placed on
    over,       \* pods that are no more
    excused

vars == <<claim, placed, over, excused>>

Init ==
    /\ claim = [p \in Pods |-> NoNode]
    /\ placed = [p \in Pods |-> NoNode]
    /\ over = {}
    /\ excused = {}

Claim(p, n) ==
    /\ claim[p] = NoNode
    /\ FitsAmong(p, {q \in Pods \ excused : claim[q] = n}, Capacity[n])
    /\ claim' = [claim EXCEPT ![p] = n]
    /\ excused' \in {excused, excused \cup {p}}
    /\ UNCHANGED <<placed, over>>

Place(p) ==
    /\ placed[p] = NoNode /\ claim[p] # NoNode /\ p \notin over
    /\ placed' = [placed EXCEPT ![p] = claim[p]]
    /\ UNCHANGED <<claim, over, excused>>

\* pods that are placed and not over do not lose their claim without an excuse
Drop(P) ==
    /\ UNCHANGED <<placed, over>>
    /\ claim' = [p \in Pods |-> IF p \in P THEN NoNode ELSE claim[p]]
    /\ \E E \in SUBSET P :
           /\ {p \in P \ over : placed[p] # NoNode} \subseteq E
           /\ excused' = excused \cup E

Lose(n) ==
    /\ excused' = excused \cup {p \in Pods : claim[p] = n}
    /\ UNCHANGED <<claim, placed, over>>

Reclaim(p) ==
    /\ p \in excused /\ placed[p] # NoNode
    /\ claim' = [claim EXCEPT ![p] = placed[p]]
    /\ UNCHANGED <<placed, over, excused>>

End(p) ==
    /\ over' = over \cup {p}
    /\ UNCHANGED <<claim, placed, excused>>

Next ==
    \/ \E p \in Pods : Place(p) \/ Reclaim(p) \/ End(p) \/ \E n \in Nodes : Claim(p, n)
    \/ \E P \in SUBSET {p \in Pods : claim[p] # NoNode} : Drop(P)
    \/ \E n \in Nodes : Lose(n)

Spec == Init /\ [][Next]_vars

-----------------------------------------------------------------------------

\* What the ledger is kept for: the pods placed on a node that are neither over nor excused fit
\* it together.
Kept ==
    \A n \in Nodes : Requested({p \in Pods \ (over \cup excused) : placed[p] = n}) <= Capacity[n]

=============================================================================
