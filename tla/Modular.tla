------------------------------- MODULE Modular -------------------------------
(***************************************************************************)
(* Facts about \div and % behind every ring that is indexed by the low     *)
(* bits of a wrapping sequence number: two positions that share a slot are *)
(* at least a ring apart, and wrapping the number first does not change    *)
(* the slot, as the ring's size divides the number of sequence numbers.    *)
(***************************************************************************)
EXTENDS Integers, TLAPS

\* Multiples of n are n apart.
LEMMA Apart ==
  ASSUME NEW n \in Nat \ {0}, NEW a \in Int, NEW b \in Int, a > b
  PROVE  n * a >= n * b + n
<1>1. a - b \in Nat \ {0}
  OBVIOUS
<1>2. n * (a - b) >= n
  <2> DEFINE d == a - b
  <2>1. \A k \in Nat \ {0} : n * k >= n
    OBVIOUS
  <2> QED  BY <1>1, <2>1
<1>3. n * (a - b) = n * a - n * b
  OBVIOUS
<1>4. n * a \in Int /\ n * b \in Int
  OBVIOUS
<1> QED  BY <1>2, <1>3, <1>4

\* Division with remainder.
LEMMA Division ==
  ASSUME NEW p \in Nat, NEW n \in Nat \ {0}
  PROVE  p \div n \in Nat /\ p % n \in 0 .. n - 1 /\ p = n * (p \div n) + (p % n)
<1>1. p \div n \in Int /\ p % n \in 0 .. n - 1
  OBVIOUS
<1>2. p = n * (p \div n) + (p % n)
  OBVIOUS
<1>3. p \div n \in Nat
  <2> SUFFICES ASSUME p \div n < 0 PROVE FALSE
    BY <1>1
  <2>1. 0 >= n * (p \div n) + n
    BY <1>1, Apart
  <2> QED  BY <1>1, <1>2, <2>1
<1> QED  BY <1>1, <1>2, <1>3

\* Quotient and remainder are unique.
LEMMA Unique ==
  ASSUME NEW n \in Nat \ {0}, NEW a \in Int, NEW b \in Int,
         NEW x \in 0 .. n - 1, NEW y \in 0 .. n - 1, n * a + x = n * b + y
  PROVE  x = y /\ a = b
<1>1. n * a \in Int /\ n * b \in Int
  OBVIOUS
<1>2. ~ a > b
  BY <1>1, Apart
<1>3. ~ b > a
  BY <1>1, Apart
<1>4. a = b
  BY <1>2, <1>3
<1> QED  BY <1>1, <1>4

\* Two positions that share a slot are a ring apart.
LEMMA SameSlot ==
  ASSUME NEW n \in Nat \ {0}, NEW p \in Nat, NEW q \in Nat, p < q, p % n = q % n
  PROVE  q >= p + n
<1> DEFINE a == p \div n
           b == q \div n
           r == p % n
<1>1. a \in Nat /\ r \in Nat /\ p = n * a + r
  <2>1. a \in Nat /\ r \in 0 .. n - 1 /\ p = n * a + (p % n)
    BY Division
  <2> HIDE DEF a
  <2> QED  BY <2>1
<1>2. b \in Nat /\ q = n * b + r
  <2>1. b \in Nat /\ q = n * b + (q % n)
    BY Division
  <2> QED  BY <2>1
<1>3. n * a \in Nat /\ n * b \in Nat
  BY <1>1, <1>2
<1> HIDE DEF a, b, r
<1>4. CASE b > a
  BY <1>1, <1>2, <1>3, <1>4, Apart
<1>5. CASE a > b
  BY <1>1, <1>2, <1>3, <1>5, Apart
<1>6. CASE a = b
  BY <1>1, <1>2, <1>3, <1>6
<1> QED  BY <1>1, <1>2, <1>4, <1>5, <1>6

\* The slot of a wrapped number is the slot of the position.
LEMMA WrapKeepsSlot ==
  ASSUME NEW n \in Nat \ {0}, NEW m \in Nat \ {0}, m % n = 0, NEW p \in Nat
  PROVE  (p % m) % n = p % n
<1> DEFINE k == m \div n
           a == p \div m
           r == p % m
           b == r \div n
           x == r % n
           c == p \div n
           y == p % n
<1>1. k \in Nat /\ m = n * k
  BY Division
<1>2. a \in Nat /\ r \in Nat /\ p = m * a + r
  BY Division
<1>3. b \in Nat /\ x \in 0 .. n - 1 /\ r = n * b + x
  BY <1>2, Division
<1>4. c \in Nat /\ y \in 0 .. n - 1 /\ p = n * c + y
  BY Division
<1> HIDE DEF k, a, b, c, r, x, y
<1>5. m * a = n * (k * a)
  BY <1>1, <1>2
<1>6. n * (k * a + b) = n * (k * a) + n * b
  BY <1>1, <1>2, <1>3
<1>7. k * a + b \in Int /\ n * (k * a) \in Int /\ n * b \in Int
  BY <1>1, <1>2, <1>3
<1>8. n * (k * a + b) + x = n * c + y
  BY <1>2, <1>3, <1>4, <1>5, <1>6, <1>7
<1>9. x = y
  <2> DEFINE d == k * a + b
  <2>1. d \in Int /\ c \in Int /\ n * d + x = n * c + y
    BY <1>4, <1>7, <1>8
  <2> HIDE DEF d
  <2> QED  BY <1>3, <1>4, <2>1, Unique
<1> QED  BY <1>9 DEF x, y, r
=============================================================================
