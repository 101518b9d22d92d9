------------------------------ MODULE SumProofs ------------------------------
(***************************************************************************)
(* Sums over finite sets: what MapThenSumSet, by which CreditAllocator     *)
(* adds up weights and SloDemand requests, does to a set that gains or     *)
(* loses an element.  The sum is a recursive function on the subsets of a  *)
(* set; facts about it are proved by induction in the form that every set  *)
(* of natural numbers has a least element, applied to the sizes of         *)
(* counterexamples.                                                        *)
(***************************************************************************)
EXTENDS Integers, FiniteSets, FiniteSetsExt, FiniteSetTheorems, WellFoundedInduction, TLAPS

Sum(w, S) == MapThenSumSet(LAMBDA i : w[i], S)

\* the element the recursion takes out of a set
Pick(s) == CHOOSE x \in s : TRUE

\* g is the sum of w on the subsets of S
SumsUp(w, S, g) ==
    g = [s \in SUBSET S |-> IF s = {} THEN 0 ELSE w[Pick(s)] + g[s \ {Pick(s)}]]

-----------------------------------------------------------------------------
(* induction *)

\* The natural numbers are well ordered, so a set of them has a least element.
LEMMA LeastElement ==
    ASSUME NEW T \in SUBSET Nat, T # {}
    PROVE  \E x \in T : \A y \in T : x <= y
  <1> DEFINE R == {r \in Nat \X Nat : r[1] < r[2]}
  <1>1. IsWellFoundedOn(R, Nat)
    BY NatLessThanWellFounded DEF OpToRel
  <1> HIDE DEF R
  <1>2. \E x \in T : \A y \in T : <<y, x>> \notin R
    BY <1>1, WFMin
  <1>3. \A x, y \in T : <<y, x>> \notin R => x <= y
    BY DEF R
  <1>q. QED
    BY <1>2, <1>3

\* A family of finite sets that is not empty has a set from which no element
\* can be taken without leaving the family.
LEMMA SmallestSet ==
    ASSUME NEW S, IsFiniteSet(S),
           NEW F \in SUBSET SUBSET S, F # {}
    PROVE  \E s \in F : \A x \in s : s \ {x} \notin F
  <1> DEFINE T == {n \in Nat : \E s \in F : Cardinality(s) = n}
  <1>1. \A s \in SUBSET S : IsFiniteSet(s) /\ Cardinality(s) \in Nat
    BY FS_Subset, FS_CardinalityType
  <1>2. PICK s \in F : \A r \in F : Cardinality(s) <= Cardinality(r)
    <2>1. T # {}
      BY <1>1
    <2>2. PICK n \in T : \A m \in T : n <= m
      BY <2>1, LeastElement
    <2>q. QED
      BY <1>1, <2>2
  <1>3. ASSUME NEW x \in s
        PROVE  s \ {x} \notin F
    <2>1. Cardinality(s \ {x}) = Cardinality(s) - 1
      BY <1>1, FS_RemoveElement
    <2>q. QED
      BY <1>1, <1>2, <2>1
  <1>q. QED
    BY <1>3

-----------------------------------------------------------------------------
(* the recursive function *)

\* The function the recursion asks for exists.
LEMMA SumExists ==
    ASSUME NEW S, IsFiniteSet(S), NEW w
    PROVE  \E g : SumsUp(w, S, g)
  <1> DEFINE Upto(n) == {s \in SUBSET S : Cardinality(s) <= n}
             Level(n, g) == g = [s \in Upto(n) |->
                                   IF s = {} THEN 0 ELSE w[Pick(s)] + g[s \ {Pick(s)}]]
             T == {n \in Nat : ~ \E g : Level(n, g)}
  <1>1. \A s \in SUBSET S : IsFiniteSet(s) /\ Cardinality(s) \in Nat
    BY FS_Subset, FS_CardinalityType
  <1>2. \A s \in SUBSET S : s # {} =>
           Pick(s) \in s /\ s \ {Pick(s)} \in SUBSET S
             /\ Cardinality(s \ {Pick(s)}) = Cardinality(s) - 1
    BY <1>1, FS_RemoveElement DEF Pick
  <1>3. \A s \in SUBSET S : Cardinality(s) <= 0 => s = {}
    BY <1>1, FS_EmptySet
  <1>4. T = {}
    <2> SUFFICES ASSUME T # {} PROVE FALSE
      OBVIOUS
    <2>1. PICK n \in T : \A m \in T : n <= m
      BY LeastElement
    <2>2. CASE n = 0
      <3> DEFINE h == [s \in Upto(n) |-> 0]
      <3>1. \A s \in Upto(n) : s = {}
        BY <1>3, <2>2
      <3>2. Level(n, h)
        BY <3>1
      <3>q. QED
        BY <2>1, <3>2
    <2>3. CASE n # 0
      <3>0. n \in Nat /\ n - 1 \in Nat /\ n > n - 1
        BY <2>3
      <3>1. n - 1 \in Nat /\ n - 1 \notin T
        <4> HIDE DEF T
        <4>q. QED
          BY <2>1, <3>0
      <3>2. PICK g : Level(n - 1, g)
        BY <3>1
      <3> DEFINE h == [s \in Upto(n) |->
                         IF s = {} THEN 0 ELSE w[Pick(s)] + g[s \ {Pick(s)}]]
      <3>3. \A s \in Upto(n - 1) : s \in Upto(n) /\ h[s] = g[s]
        <4>1. \A s \in Upto(n - 1) : s \in Upto(n)
          BY <1>1, <3>0
        <4>2. \A s \in Upto(n - 1) :
                 g[s] = IF s = {} THEN 0 ELSE w[Pick(s)] + g[s \ {Pick(s)}]
          BY <3>2
        <4>3. \A s \in Upto(n) :
                 h[s] = IF s = {} THEN 0 ELSE w[Pick(s)] + g[s \ {Pick(s)}]
          OBVIOUS
        <4> HIDE DEF Upto, h
        <4>q. QED
          BY <4>1, <4>2, <4>3
      <3>4. \A s \in Upto(n) : s # {} => s \ {Pick(s)} \in Upto(n - 1)
        BY <1>1, <1>2, <3>1
      <3>5. Level(n, h)
        BY <3>3, <3>4
      <3>q. QED
        BY <2>1, <3>5
    <2>q. QED
      BY <2>2, <2>3
  <1>5. PICK g : Level(Cardinality(S), g)
    BY <1>1, <1>4
  <1>6. Upto(Cardinality(S)) = SUBSET S
    BY FS_Subset
  <1>q. QED
    BY <1>5, <1>6 DEF SumsUp

-----------------------------------------------------------------------------
(* what it is on the subsets *)

\* Every step of the recursion, at a set that is not empty and at the empty one.
LEMMA SumsUpAt ==
    ASSUME NEW S, NEW w, NEW g, SumsUp(w, S, g)
    PROVE  /\ g[{}] = 0
           /\ \A s \in SUBSET S : s # {} =>
                 /\ Pick(s) \in s
                 /\ s \ {Pick(s)} \in SUBSET S
                 /\ g[s] = w[Pick(s)] + g[s \ {Pick(s)}]
  <1>1. \A s \in SUBSET S : g[s] = IF s = {} THEN 0 ELSE w[Pick(s)] + g[s \ {Pick(s)}]
    BY DEF SumsUp
  <1>2. \A s \in SUBSET S : s # {} => Pick(s) \in s
    BY DEF Pick
  <1>q. QED
    BY <1>1, <1>2

\* Sums of integers are integers, and sums of naturals naturals.
LEMMA SumsUpType ==
    ASSUME NEW S, IsFiniteSet(S), NEW w, NEW g, SumsUp(w, S, g),
           NEW N, N = Nat \/ N = Int, \A x \in S : w[x] \in N
    PROVE  \A s \in SUBSET S : g[s] \in N
  <1> DEFINE F == {s \in SUBSET S : g[s] \notin N}
  <1> SUFFICES F = {}
    OBVIOUS
  <1> SUFFICES ASSUME F # {} PROVE FALSE
    OBVIOUS
  <1>1. PICK s \in F : \A x \in s : s \ {x} \notin F
    BY SmallestSet
  <1>2. CASE s = {}
    BY <1>1, <1>2, SumsUpAt
  <1>3. CASE s # {}
    <2>1. /\ Pick(s) \in s /\ s \ {Pick(s)} \in SUBSET S
          /\ g[s] = w[Pick(s)] + g[s \ {Pick(s)}]
      BY <1>1, <1>3, SumsUpAt
    <2>2. g[s \ {Pick(s)}] \in N /\ w[Pick(s)] \in N
      BY <1>1, <2>1
    <2>q. QED
      BY <1>1, <2>1, <2>2
  <1>q. QED
    BY <1>2, <1>3

\* Whichever element is taken out, the rest sums up to what is left: the
\* result does not depend on the choice the recursion makes.
LEMMA SumsUpElement ==
    ASSUME NEW S, IsFiniteSet(S), NEW w, NEW g, SumsUp(w, S, g),
           \A x \in S : w[x] \in Int
    PROVE  \A s \in SUBSET S : \A x \in s : g[s] = w[x] + g[s \ {x}]
  <1> DEFINE F == {s \in SUBSET S : \E x \in s : g[s] # w[x] + g[s \ {x}]}
  <1> SUFFICES F = {}
    OBVIOUS
  <1> SUFFICES ASSUME F # {} PROVE FALSE
    OBVIOUS
  <1>1. PICK s \in F : \A x \in s : s \ {x} \notin F
    BY SmallestSet
  <1>2. PICK x \in s : g[s] # w[x] + g[s \ {x}]
    BY <1>1
  <1> DEFINE y == Pick(s)
             r == s \ {x, y}
  <1>3. y \in s /\ g[s] = w[y] + g[s \ {y}]
    BY <1>1, <1>2, SumsUpAt
  <1>4. x # y
    BY <1>2, <1>3
  <1>5. (s \ {y}) \ {x} = r /\ (s \ {x}) \ {y} = r /\ x \in s \ {y} /\ y \in s \ {x}
    BY <1>3, <1>4
  <1>6. g[s \ {y}] = w[x] + g[r] /\ g[s \ {x}] = w[y] + g[r]
    BY <1>1, <1>3, <1>5
  <1>7. w[x] \in Int /\ w[y] \in Int /\ g[r] \in Int
    BY <1>1, <1>3, SumsUpType
  <1>q. QED
    BY <1>2, <1>3, <1>6, <1>7

\* The sums of two functions over a set agree when the functions do, wherever
\* else either is summed up.
LEMMA SumsUpAgree ==
    ASSUME NEW S, IsFiniteSet(S), NEW w, NEW g, SumsUp(w, S, g),
           NEW R, NEW v, NEW h, SumsUp(v, R, h), S \subseteq R,
           \A x \in S : w[x] = v[x]
    PROVE  \A s \in SUBSET S : g[s] = h[s]
  <1> DEFINE F == {s \in SUBSET S : g[s] # h[s]}
  <1> SUFFICES F = {}
    OBVIOUS
  <1> SUFFICES ASSUME F # {} PROVE FALSE
    OBVIOUS
  <1>1. PICK s \in F : \A x \in s : s \ {x} \notin F
    BY SmallestSet
  <1>2. CASE s = {}
    BY <1>1, <1>2, SumsUpAt
  <1>3. CASE s # {}
    <2>1. /\ Pick(s) \in s /\ s \ {Pick(s)} \in SUBSET S
          /\ g[s] = w[Pick(s)] + g[s \ {Pick(s)}]
          /\ h[s] = v[Pick(s)] + h[s \ {Pick(s)}]
      BY <1>1, <1>3, SumsUpAt
    <2>2. g[s \ {Pick(s)}] = h[s \ {Pick(s)}] /\ w[Pick(s)] = v[Pick(s)]
      BY <1>1, <2>1
    <2>q. QED
      BY <1>1, <2>1, <2>2
  <1>q. QED
    BY <1>2, <1>3

-----------------------------------------------------------------------------
(* the sum of a set *)

\* MapThenSumSet is the value of that function at the whole set.
LEMMA SumUnfolds ==
    ASSUME NEW S, IsFiniteSet(S), NEW w
    PROVE  \E g : SumsUp(w, S, g) /\ Sum(w, S) = g[S]
  <1> DEFINE g == CHOOSE g : SumsUp(w, S, g)
  <1>1. SumsUp(w, S, g)
    BY SumExists
  <1>2. Sum(w, S) = g[S]
    BY DEF Sum, MapThenSumSet, MapThenFoldSet, SumsUp, Pick
  <1>q. QED
    BY <1>1, <1>2

\* The sum over no element is 0.
LEMMA SumEmpty ==
    ASSUME NEW w
    PROVE  Sum(w, {}) = 0
  BY SumUnfolds, SumsUpAt, FS_EmptySet

\* The sum of integers is one, and that of naturals too.
LEMMA SumType ==
    ASSUME NEW S, IsFiniteSet(S), NEW w,
           NEW N, N = Nat \/ N = Int, \A x \in S : w[x] \in N
    PROVE  Sum(w, S) \in N
  <1>1. PICK g : SumsUp(w, S, g) /\ Sum(w, S) = g[S]
    BY SumUnfolds
  <1>q. QED
    BY <1>1, SumsUpType

\* The sum depends on the summands only.
LEMMA SumSame ==
    ASSUME NEW S, IsFiniteSet(S), NEW w, NEW v, \A x \in S : w[x] = v[x]
    PROVE  Sum(w, S) = Sum(v, S)
  <1>1. PICK g : SumsUp(w, S, g) /\ Sum(w, S) = g[S]
    BY SumUnfolds
  <1>2. PICK h : SumsUp(v, S, h) /\ Sum(v, S) = h[S]
    BY SumUnfolds
  <1>q. QED
    BY <1>1, <1>2, SumsUpAgree

\* An element contributes its summand, once.
LEMMA SumElement ==
    ASSUME NEW S, IsFiniteSet(S), NEW w, \A x \in S : w[x] \in Int, NEW x \in S
    PROVE  Sum(w, S) = w[x] + Sum(w, S \ {x})
  <1>1. PICK g : SumsUp(w, S, g) /\ Sum(w, S) = g[S]
    BY SumUnfolds
  <1>2. IsFiniteSet(S \ {x})
    BY FS_Subset
  <1>3. PICK h : SumsUp(w, S \ {x}, h) /\ Sum(w, S \ {x}) = h[S \ {x}]
    BY <1>2, SumUnfolds
  <1>4. h[S \ {x}] = g[S \ {x}]
    BY <1>1, <1>2, <1>3, SumsUpAgree
  <1>5. g[S] = w[x] + g[S \ {x}]
    BY <1>1, SumsUpElement
  <1>q. QED
    BY <1>1, <1>3, <1>4, <1>5

\* A set that gains an element sums up to so much more.
LEMMA SumAdd ==
    ASSUME NEW S, IsFiniteSet(S), NEW w, NEW x, x \notin S,
           \A y \in S \cup {x} : w[y] \in Int
    PROVE  Sum(w, S \cup {x}) = Sum(w, S) + w[x]
  <1>1. IsFiniteSet(S \cup {x}) /\ (S \cup {x}) \ {x} = S
    BY FS_AddElement
  <1>2. Sum(w, S \cup {x}) = w[x] + Sum(w, S)
    BY <1>1, SumElement
  <1>3. Sum(w, S) \in Int /\ w[x] \in Int
    BY SumType
  <1>q. QED
    BY <1>2, <1>3

\* A smaller set of naturals does not have a greater sum.
LEMMA SumSubset ==
    ASSUME NEW S, IsFiniteSet(S), NEW w, \A x \in S : w[x] \in Nat, NEW R \in SUBSET S
    PROVE  Sum(w, R) <= Sum(w, S)
  <1> DEFINE F == {s \in SUBSET S : R \subseteq s /\ ~ Sum(w, R) <= Sum(w, s)}
  <1> SUFFICES F = {}
    OBVIOUS
  <1> SUFFICES ASSUME F # {} PROVE FALSE
    OBVIOUS
  <1>1. PICK s \in F : \A x \in s : s \ {x} \notin F
    <2>1. F \in SUBSET SUBSET S /\ F # {}
      OBVIOUS
    <2> HIDE DEF F
    <2>q. QED
      BY <2>1, SmallestSet
  <1>2. \A r \in SUBSET S : IsFiniteSet(r) /\ Sum(w, r) \in Nat
    BY FS_Subset, SumType
  <1>3. s # R
    BY <1>1, <1>2
  <1>4. PICK x \in s : x \notin R
    BY <1>1, <1>3
  <1>5. Sum(w, s) = w[x] + Sum(w, s \ {x})
    BY <1>1, <1>2, SumElement
  <1>6. Sum(w, R) <= Sum(w, s \ {x})
    BY <1>1, <1>4
  <1>q. QED
    BY <1>1, <1>2, <1>5, <1>6

\* When one summand changes, the sum changes by the difference.
LEMMA SumChange ==
    ASSUME NEW S, IsFiniteSet(S), NEW w, NEW v, NEW x \in S,
           \A y \in S : w[y] \in Int /\ v[y] \in Int,
           \A y \in S \ {x} : v[y] = w[y]
    PROVE  Sum(v, S) = Sum(w, S) - w[x] + v[x]
  <1>1. IsFiniteSet(S \ {x})
    BY FS_Subset
  <1>2. Sum(v, S \ {x}) = Sum(w, S \ {x}) /\ Sum(w, S \ {x}) \in Int
    BY <1>1, SumSame, SumType
  <1>3. Sum(w, S) = w[x] + Sum(w, S \ {x}) /\ Sum(v, S) = v[x] + Sum(v, S \ {x})
    BY SumElement
  <1>4. w[x] \in Int /\ v[x] \in Int
    OBVIOUS
  <1>q. QED
    BY <1>2, <1>3, <1>4

=============================================================================
