-------------------------- MODULE SloLedgerProofs ---------------------------
(***************************************************************************)
(* What the ledger of SLOs promises, proved for any pods, nodes and SLOs:  *)
(* since claims that fit are granted and nothing else makes a claim that   *)
(* is not excused, what is placed fits.                                    *)
(***************************************************************************)
EXTENDS SloLedger, SumProofs

\* the claims on a node that are not excused
Claims(n) == {p \in Pods \ excused : claim[p] = n}

LedgerTypeOK ==
    /\ claim \in [Pods -> Nodes \cup {NoNode}]
    /\ placed \in [Pods -> Nodes \cup {NoNode}]

\* a pod that is placed and neither over nor excused holds its claim
Backed == \A p \in Pods \ (over \cup excused) : placed[p] # NoNode => claim[p] = placed[p]

Granted == \A n \in Nodes : Requested(Claims(n)) <= Capacity[n]

LedgerInv == LedgerTypeOK /\ Backed /\ Granted

-----------------------------------------------------------------------------
(* requests *)

\* What pods request together is the sum of their SLOs: a natural number, not less for more pods.
LEMMA RequestedFacts ==
    ASSUME NEW P \in SUBSET Pods
    PROVE  /\ Requested(P) = Sum(Slo, P) /\ Requested(P) \in Nat
           /\ \A Q \in SUBSET P : Requested(Q) \in Nat /\ Requested(Q) <= Requested(P)
  <1>1. \A Q \in SUBSET P : Requested(Q) = Sum(Slo, Q)
    BY DEF Requested, Sum
  <1>2. IsFiniteSet(P) /\ \A Q \in SUBSET P : IsFiniteSet(Q)
    BY PodsAssumption, FS_Subset
  <1>3. \A p \in P : Slo[p] \in Nat
    BY SloAssumption
  <1>4. \A Q \in SUBSET P : Sum(Slo, Q) \in Nat
    BY <1>2, <1>3, SumType
  <1>5. \A Q \in SUBSET P : Sum(Slo, Q) <= Sum(Slo, P)
    BY <1>2, <1>3, SumSubset
  <1>q. QED
    BY <1>1, <1>4, <1>5

\* One pod more requests so much more.
LEMMA RequestedAdd ==
    ASSUME NEW P \in SUBSET Pods, NEW p \in Pods, p \notin P
    PROVE  Requested(P \cup {p}) = Requested(P) + Slo[p]
  <1>1. IsFiniteSet(P) /\ \A q \in P \cup {p} : Slo[q] \in Int
    BY PodsAssumption, FS_Subset, SloAssumption
  <1>2. Sum(Slo, P \cup {p}) = Sum(Slo, P) + Slo[p]
    BY <1>1, SumAdd
  <1>q. QED
    BY <1>2, RequestedFacts

\* A pod that fits, as NodeResourcesFit sees it, does not take more than is left.
LEMMA FitsLeaves ==
    ASSUME NEW P \in SUBSET Pods, NEW p \in Pods, p \notin P, NEW c \in Nat,
           FitsAmong(p, P, c), Requested(P) <= c
    PROVE  Requested(P \cup {p}) <= c
  BY RequestedAdd, RequestedFacts, SloAssumption DEF FitsAmong

-----------------------------------------------------------------------------
(* the invariant *)

\* Fewer claims still fit.
LEMMA FewerGranted ==
    ASSUME Granted, \A n \in Nodes : Claims(n)' \subseteq Claims(n)
    PROVE  Granted'
  <1>1. ASSUME NEW n \in Nodes
        PROVE  Requested(Claims(n)') <= Capacity[n]
    <2>1. Claims(n) \in SUBSET Pods /\ Claims(n)' \in SUBSET Claims(n)
      BY DEF Claims
    <2>2. /\ Requested(Claims(n)) \in Nat /\ Requested(Claims(n)') \in Nat
          /\ Requested(Claims(n)') <= Requested(Claims(n))
      BY <2>1, RequestedFacts
    <2>3. Requested(Claims(n)) <= Capacity[n] /\ Capacity[n] \in Nat
      BY CapacityAssumption DEF Granted
    <2>q. QED
      BY <2>2, <2>3
  <1>q. QED
    BY <1>1 DEF Granted

\* A claim that is granted fits with those that are held.
LEMMA ClaimInv ==
    ASSUME LedgerInv, NEW p \in Pods, NEW n \in Nodes, Claim(p, n)
    PROVE  LedgerInv'
  <1> USE DEF LedgerInv
  <1>1. /\ claim' = [claim EXCEPT ![p] = n] /\ claim[p] = NoNode
        /\ excused' \in {excused, excused \cup {p}}
        /\ UNCHANGED <<placed, over>>
    BY DEF Claim
  <1>2. claim'[p] = n /\ \A q \in Pods \ {p} : claim'[q] = claim[q]
    BY <1>1 DEF LedgerTypeOK
  <1>3. LedgerTypeOK'
    BY <1>1 DEF LedgerTypeOK
  <1>4. Backed'
    BY <1>1, <1>2 DEF Backed
  <1>5. \A m \in Nodes \ {n} : Claims(m)' \subseteq Claims(m)
    BY <1>1, <1>2 DEF Claims
  <1>6. Claims(n)' \subseteq Claims(n) \cup {p} /\ Claims(n) \in SUBSET Pods
    BY <1>1, <1>2 DEF Claims
  <1>7. p \notin Claims(n)
    BY <1>1, NoNodeAssumption DEF Claims
  <1>8. Requested(Claims(n) \cup {p}) <= Capacity[n]
    <2>1. FitsAmong(p, Claims(n), Capacity[n])
      BY DEF Claim, Claims
    <2>2. Capacity[n] \in Nat /\ Requested(Claims(n)) <= Capacity[n]
      BY CapacityAssumption DEF Granted
    <2>q. QED
      BY <1>6, <1>7, <2>1, <2>2, FitsLeaves
  <1>9. ASSUME NEW m \in Nodes
        PROVE  Requested(Claims(m)') <= Capacity[m]
    <2> DEFINE P == IF m = n THEN Claims(n) \cup {p} ELSE Claims(m)
    <2>1. P \in SUBSET Pods /\ Claims(m)' \in SUBSET P
      BY <1>5, <1>6 DEF Claims
    <2>2. Requested(P) <= Capacity[m] /\ Capacity[m] \in Nat
      BY <1>8, CapacityAssumption DEF Granted
    <2> HIDE DEF P
    <2>3. /\ Requested(P) \in Nat /\ Requested(Claims(m)') \in Nat
          /\ Requested(Claims(m)') <= Requested(P)
      BY <2>1, RequestedFacts
    <2>q. QED
      BY <2>2, <2>3
  <1>10. Granted'
    BY <1>9 DEF Granted
  <1>q. QED
    BY <1>3, <1>4, <1>10

\* Every step of the ledger keeps the invariant.
LEMMA LedgerStep ==
    ASSUME LedgerInv, [Next]_vars
    PROVE  LedgerInv'
  <1> USE DEF LedgerInv
  <1>1. ASSUME NEW p \in Pods, NEW n \in Nodes, Claim(p, n)
        PROVE  LedgerInv'
    BY <1>1, ClaimInv
  <1>2. ASSUME LedgerTypeOK', Backed', \A n \in Nodes : Claims(n)' \subseteq Claims(n)
        PROVE  LedgerInv'
    BY <1>2, FewerGranted
  <1>3. ASSUME NEW p \in Pods, Place(p)
        PROVE  LedgerInv'
    <2>1. claim[p] \in Nodes \cup {NoNode}
      BY DEF LedgerTypeOK
    <2>q. QED
      BY <1>2, <1>3, <2>1 DEF Place, LedgerTypeOK, Backed, Claims
  <1>4. ASSUME NEW p \in Pods, Reclaim(p)
        PROVE  LedgerInv'
    <2>1. placed[p] \in Nodes \cup {NoNode}
      BY DEF LedgerTypeOK
    <2>q. QED
      BY <1>2, <1>4, <2>1 DEF Reclaim, LedgerTypeOK, Backed, Claims
  <1>5. ASSUME NEW p \in Pods, End(p)
        PROVE  LedgerInv'
    BY <1>2, <1>5 DEF End, LedgerTypeOK, Backed, Claims
  <1>6. ASSUME NEW P \in SUBSET Pods, Drop(P)
        PROVE  LedgerInv'
    BY <1>2, <1>6, NoNodeAssumption DEF Drop, LedgerTypeOK, Backed, Claims
  <1>7. ASSUME NEW n \in Nodes, Lose(n)
        PROVE  LedgerInv'
    BY <1>2, <1>7 DEF Lose, LedgerTypeOK, Backed, Claims
  <1>8. ASSUME UNCHANGED vars
        PROVE  LedgerInv'
    BY <1>2, <1>8 DEF vars, LedgerTypeOK, Backed, Claims
  <1>q. QED
    BY <1>1, <1>3, <1>4, <1>5, <1>6, <1>7, <1>8 DEF Next

\* At first there are no claims.
LEMMA LedgerInit ==
    ASSUME Init
    PROVE  LedgerInv
  <1>1. LedgerTypeOK /\ Backed
    BY DEF Init, LedgerTypeOK, Backed
  <1>2. \A n \in Nodes : Claims(n) = {}
    BY NoNodeAssumption DEF Init, Claims
  <1>3. Requested({}) = 0
    BY SumEmpty, RequestedFacts
  <1>4. Granted
    BY <1>2, <1>3, CapacityAssumption DEF Granted
  <1>q. QED
    BY <1>1, <1>4 DEF LedgerInv

\* What is placed and not excused fits, because it is claimed.
LEMMA LedgerInvKept ==
    ASSUME LedgerInv
    PROVE  Kept
  <1>1. ASSUME NEW n \in Nodes
        PROVE  Requested({p \in Pods \ (over \cup excused) : placed[p] = n}) <= Capacity[n]
    <2> DEFINE P == {p \in Pods \ (over \cup excused) : placed[p] = n}
    <2>1. P \in SUBSET Claims(n) /\ Claims(n) \in SUBSET Pods
      BY NoNodeAssumption DEF LedgerInv, Backed, Claims
    <2>2. Requested(Claims(n)) <= Capacity[n] /\ Capacity[n] \in Nat
      BY CapacityAssumption DEF LedgerInv, Granted
    <2> HIDE DEF P
    <2>3. /\ Requested(Claims(n)) \in Nat /\ Requested(P) \in Nat
          /\ Requested(P) <= Requested(Claims(n))
      BY <2>1, RequestedFacts
    <2>4. Requested(P) <= Capacity[n]
      BY <2>2, <2>3
    <2>q. QED
      BY <2>4 DEF P
  <1>q. QED
    BY <1>1 DEF Kept

\* The promise of the ledger: whatever is claimed, dropped and lost, the pods that are placed on
\* a node, neither over nor excused, do not request more than it offers.
THEOREM LedgerKept == Spec => []Kept
  <1>1. Init => LedgerInv
    BY LedgerInit
  <1>2. LedgerInv /\ [Next]_vars => LedgerInv'
    BY LedgerStep
  <1>3. LedgerInv => Kept
    BY LedgerInvKept
  <1>q. QED
    BY <1>1, <1>2, <1>3, PTL DEF Spec

=============================================================================
