--------------------------- MODULE NaturalsLemmas ---------------------------
(***************************************************************************)
(* Facts about natural numbers that the proofs of this project share.      *)
(***************************************************************************)
EXTENDS Integers, WellFoundedInduction, TLAPS

\* A set of natural numbers has a least one.
LEMMA LeastNumber ==
    ASSUME NEW S \in SUBSET Nat, S # {}
    PROVE  \E x \in S : \A y \in S : x <= y
<1>1. IsWellFoundedOn(OpToRel(<, Nat), Nat)  BY NatLessThanWellFounded
<1>2. PICK x \in S : \A y \in S : ~ (<<y, x>> \in OpToRel(<, Nat))  BY <1>1, WFMin, Zenon
<1>3. ASSUME NEW y \in S PROVE x <= y
  <2>1. <<y, x>> \in Nat \X Nat /\ <<y, x>>[1] = y /\ <<y, x>>[2] = x  OBVIOUS
  <2>2. y < x => <<y, x>> \in OpToRel(<, Nat)  BY <2>1, Zenon DEF OpToRel
  <2>3. ~(y < x)  BY <1>2, <2>2
  <2>4. QED  BY <2>3
<1>4. QED  BY <1>3

\* A bounded set of natural numbers has a greatest one.
LEMMA GreatestNumber ==
    ASSUME NEW n \in Nat, NEW S \in SUBSET (0 .. n), S # {}
    PROVE  \E x \in S : \A y \in S : y <= x
<1> DEFINE T == { n - i : i \in S }
<1>1. \A i \in S : i \in Nat /\ n - i \in Nat  OBVIOUS
<1>2. T \in SUBSET Nat /\ T # {}  BY <1>1
<1> HIDE DEF T
<1>3. PICK t \in T : \A u \in T : t <= u  BY <1>2, LeastNumber
<1>4. PICK x \in S : t = n - x  BY DEF T
<1>5. \A y \in S : n - x <= n - y  BY <1>3, <1>4 DEF T
<1>6. QED  BY <1>1, <1>5

\* Products keep the order.
LEMMA TimesMonotonic ==
    ASSUME NEW a \in Int, NEW b \in Int, NEW d \in Nat, a <= b
    PROVE  a * d <= b * d
OBVIOUS

\* The quotient of a natural number.
LEMMA Quotient ==
    ASSUME NEW t \in Nat, NEW d \in Nat \ {0}
    PROVE  /\ t \div d \in Nat
           /\ (t \div d) * d <= t /\ t < (t \div d + 1) * d
<1> DEFINE q == t \div d
<1>1. q \in Int /\ q * d <= t /\ t < q * d + d  OBVIOUS
<1> HIDE DEF q
<1>2. (q + 1) * d = q * d + d  BY <1>1
<1>3. q >= 0
  <2>1. SUFFICES ASSUME q + 1 <= 0 PROVE FALSE  BY <1>1
  <2>2. (q + 1) * d <= 0 * d  BY <1>1, <2>1, TimesMonotonic
  <2>3. QED  BY <1>1, <1>2, <2>2
<1>4. QED  BY <1>1, <1>2, <1>3 DEF q

\* The quotient is the only number with these bounds.
LEMMA QuotientIs ==
    ASSUME NEW t \in Nat, NEW d \in Nat \ {0}, NEW q \in Int, q * d <= t, t < (q + 1) * d
    PROVE  t \div d = q
<1> DEFINE p == t \div d
<1>1. p \in Nat /\ p * d <= t /\ t < (p + 1) * d  BY Quotient
<1> HIDE DEF p
<1>2. ~(p + 1 <= q)
  <2>1. SUFFICES ASSUME p + 1 <= q PROVE FALSE  OBVIOUS
  <2>2. (p + 1) * d <= q * d  BY <1>1, <2>1, TimesMonotonic
  <2>3. p * d \in Int /\ q * d \in Int /\ (p + 1) * d \in Int  BY <1>1
  <2>4. QED  BY <1>1, <2>2, <2>3
<1>3. ~(q + 1 <= p)
  <2>1. SUFFICES ASSUME q + 1 <= p PROVE FALSE  OBVIOUS
  <2>2. (q + 1) * d <= p * d  BY <1>1, <2>1, TimesMonotonic
  <2>3. p * d \in Int /\ (q + 1) * d \in Int  BY <1>1
  <2>4. QED  BY <1>1, <2>2, <2>3
<1>4. p = q  BY <1>1, <1>2, <1>3
<1>5. QED  BY <1>4 DEF p
=============================================================================
