------------------------- MODULE QuotaControlProofs -------------------------
(***************************************************************************)
(* Facts about io_control's arithmetic, for every word size, gain and      *)
(* quota range that satisfies QuotaAssumption: what the loop around it and *)
(* the allocator that runs it both rely on.                                *)
(***************************************************************************)
EXTENDS QuotaControl, TLAPS

\* Clamp, io_control's last test, returns a legal quota for every int.
LEMMA ClampInQuotas == \A x \in Int : Clamp(x) \in Quotas
  BY QuotaAssumption DEF Clamp, Quotas

\* An unsigned word is what U returns for any number.
LEMMA UnsignedWord == \A x \in Int : U(x) \in 0 .. Word - 1
  BY QuotaAssumption DEF U

\* S returns an int.
LEMMA SignedWord == \A x \in Int : S(x) \in Int
  BY QuotaAssumption DEF S

\* Numbers in the range of an int are left alone by S.
LEMMA SignedSmall ==
    \A x \in Int : -(Word \div 2) <= x /\ x < Word \div 2 => S(x) = x
  <1>. SUFFICES ASSUME NEW x \in Int, -(Word \div 2) <= x, x < Word \div 2
                PROVE  S(x) = x
    OBVIOUS
  <1>w. Word \in Nat /\ Word > 0 /\ Word = 2 * (Word \div 2)
    BY QuotaAssumption
  <1>1. CASE x >= 0
    <2>1. x % Word = x
      BY <1>1, <1>w
    <2>. QED  BY <2>1 DEF S
  <1>2. CASE x < 0
    <2>1. x % Word = x + Word
      BY <1>2, <1>w
    <2>. QED  BY <2>1, <1>2, <1>w DEF S
  <1>. QED  BY <1>1, <1>2

\* Dividing by 2 or more at least halves.
LEMMA QuotientHalves ==
    ASSUME NEW x \in Nat, NEW g \in Nat, g >= 2
    PROVE  x \div g \in Nat /\ 2 * (x \div g) <= x
  <1>. DEFINE q == x \div g
  <1>1. q \in Int /\ x = g * q + (x % g) /\ x % g \in 0 .. g - 1
    OBVIOUS
  <1>2. q >= 0
    BY <1>1
  <1>3. g * q >= 2 * q
    BY <1>1, <1>2
  <1>. QED  BY <1>1, <1>2, <1>3

\* The word that is divided, k*dist + (goal-1), is some unsigned word; with a
\* goal of 2 or more the quotient is therefore a non-negative int.
LEMMA RawStepNat ==
    ASSUME NEW k \in Int, NEW d \in Int, NEW g \in Nat, g >= 2
    PROVE  RawStep(k, d, g) \in Nat
  <1>. DEFINE n == k * d + (g - 1)
              u == U(n)
  <1>1. n \in Int
    OBVIOUS
  <1>2. u \in Nat /\ u < Word
    BY <1>1, UnsignedWord, QuotaAssumption
  <1>. HIDE DEF u, n
  <1>3. u \div g \in Nat /\ 2 * (u \div g) <= u
    BY <1>2, QuotientHalves
  <1>4. u \div g < Word \div 2
    BY <1>2, <1>3, QuotaAssumption
  <1>5. S(u \div g) = u \div g
    BY <1>3, <1>4, SignedSmall, QuotaAssumption
  <1>. QED  BY <1>3, <1>5 DEF RawStep, u, n

\* The step io_control takes is at most MAX_DIFF and never negative.
LEMMA DatRange ==
    ASSUME NEW k \in Int, NEW d \in Int, NEW g \in Nat, g >= 2
    PROVE  Dat(k, d, g) \in 0 .. MAX_DIFF
  BY RawStepNat, QuotaAssumption DEF Dat

\* The gain is a natural number: goal*8 does not wrap, so it is not 0.
LEMMA GainNat ==
    ASSUME NEW g \in Nat, g >= 2, g < Word \div 8, NEW p \in Nat
    PROVE  K(g, p) \in Nat
  <1>1. g * 8 \in Nat /\ g * 8 > 0 /\ g * 8 < Word
    BY QuotaAssumption
  <1>2. U(g * 8) = g * 8
    BY <1>1, QuotaAssumption DEF U
  <1>3. FineGain \div U(g * 8) \in Nat
    BY <1>1, <1>2, QuotaAssumption
  <1>. QED  BY <1>3, QuotaAssumption DEF K

\* The performances io_control can meet.
LEMMA PerfRange ==
    ASSUME NEW used \in Unsigned
    PROVE  Perf(used) \in Nat /\ Perf(used) < Word \div 2
  <1>1. used \in Nat /\ used < Word /\ Scale \in Nat /\ Scale >= 2
    BY QuotaAssumption DEF Unsigned
  <1>2. used \div Scale \in Nat /\ 2 * (used \div Scale) <= used
    BY <1>1, QuotientHalves
  <1>. QED  BY <1>1, <1>2, QuotaAssumption DEF Perf

\* Both directions of io_control's step, up and down, for a goal and a
\* performance.
LEMMA DatBoth ==
    ASSUME NEW k \in Nat, NEW g \in Nat, g >= 2, NEW p \in Nat
    PROVE  Dat(k, g - p, g) \in 0 .. MAX_DIFF /\ Dat(k, p - g, g) \in 0 .. MAX_DIFF
  <1>1. g - p \in Int /\ p - g \in Int /\ k \in Int
    OBVIOUS
  <1>2. \A d \in Int : Dat(k, d, g) \in 0 .. MAX_DIFF
    BY <1>1, DatRange
  <1>. QED  BY <1>1, <1>2

\* Whatever the quota was, io_control leaves a legal one when it regulates.
LEMMA NextQuotaInQuotas ==
    ASSUME NEW g \in Nat, g >= 2, g < Word \div 8,
           NEW p \in Nat, NEW before \in Int
    PROVE  NextQuota(g, p, before) \in Quotas
  <1>1. K(g, p) \in Nat
    BY GainNat
  <1>2. /\ Dat(K(g, p), g - p, g) \in 0 .. MAX_DIFF
        /\ Dat(K(g, p), p - g, g) \in 0 .. MAX_DIFF
    BY <1>1, DatBoth
  <1>3. /\ S(before + Dat(K(g, p), g - p, g)) \in Int
        /\ S(before - Dat(K(g, p), p - g, g)) \in Int
    <2>1. MAX_DIFF \in Nat /\ \A d \in 0 .. MAX_DIFF : before + d \in Int /\ before - d \in Int
      BY QuotaAssumption
    <2>. QED  BY <1>2, <2>1, SignedWord
  <1>. QED  BY <1>3, ClampInQuotas DEF NextQuota

=============================================================================
