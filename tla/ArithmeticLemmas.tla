--------------------------- MODULE ArithmeticLemmas ---------------------------
(***************************************************************************)
(* Facts about natural numbers that the proofs about the two hash tables   *)
(* and the crash dumper need: a probe sequence and a sum of addresses wrap *)
(* around once, and a search that succeeds has a first success.            *)
(***************************************************************************)
EXTENDS Integers, WellFoundedInduction, TLAPS

\* Quotient and remainder.
LEMMA DivMod ==
  ASSUME NEW n \in Nat \ {0}, NEW a \in Nat
  PROVE  a = (a \div n) * n + (a % n) /\ a \div n \in Int /\ a % n \in 0 .. (n - 1)
  OBVIOUS

\* A product with n is bounded by the other factor.
LEMMA Multiple ==
  ASSUME NEW n \in Nat, NEW q \in Int
  PROVE  (q >= 2 => q * n >= 2 * n) /\ (q <= 0 => q * n <= 0)
  OBVIOUS

\* The sum of two indices wraps once at most.
LEMMA ModOnce ==
  ASSUME NEW n \in Nat \ {0}, NEW a \in 0 .. (2 * n - 1)
  PROVE  a % n = IF a < n THEN a ELSE a - n
<1>1. CASE a < n
  BY <1>1
<1>2. CASE a >= n
  <2> DEFINE q == a \div n
             r == a % n
  <2>1. a = q * n + r /\ q \in Int /\ r \in 0 .. (n - 1)
    BY DivMod
  <2> HIDE DEF q, r
  <2>2. 0 < q /\ q < 2
    BY <1>2, <2>1, Multiple
  <2>3. q = 1
    BY <2>1, <2>2
  <2>4. r = a - n
    BY <2>1, <2>3
  <2> QED
    BY <1>2, <2>4 DEF r
<1> QED
  BY <1>1, <1>2

\* A set of naturals has a least element.
LEMMA LeastNat ==
  ASSUME NEW S \in SUBSET Nat, S # {}
  PROVE  \E m \in S : \A n \in S : m <= n
<1> DEFINE R == {ss \in Nat \X Nat : ss[1] < ss[2]}
<1>1. IsWellFoundedOn(OpToRel(<, Nat), Nat)
  BY NatLessThanWellFounded
<1>2. OpToRel(<, Nat) = R
  BY Zenon DEF OpToRel
<1>3. IsWellFoundedOn(R, Nat)
  BY <1>1, <1>2, Zenon
<1> HIDE DEF R
<1>4. PICK x \in S : \A y \in S : ~ (<<y, x>> \in R)
  BY <1>3, WFMin
<1>5. ASSUME NEW y \in S PROVE x <= y
  <2>1. ~ (y < x)
    BY <1>4 DEF R
  <2> QED
    BY <2>1
<1> QED
  BY <1>5
=============================================================================
