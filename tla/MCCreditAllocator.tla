------------------------- MODULE MCCreditAllocator --------------------------
(* CreditAllocator for TLC: every configuration turns on the contexts whose *)
(* interleavings it is about and leaves the others empty.                   *)
EXTENDS CreditAllocator, TLC

\* a container started without a CPU limit
Unlimited == {NoLimit}

\* any port may stand for any other
PortSymmetry == Permutations(Ports)

\* bound: kinds of overlap in one behaviour
FewOverlaps == Cardinality(races) <= 2

=============================================================================
