--------------------------- MODULE ModArithmetic ----------------------------
(***************************************************************************)
(* Facts about the remainder for every positive modulus.  The queues index *)
(* their buckets and cut their counters with masks, which are remainders;  *)
(* the proofs about them rest on these lemmas.                             *)
(***************************************************************************)
EXTENDS Integers, TLAPS

Positive == Nat \ {0}

\* Quotient and remainder rebuild the number.
LEMMA DivMod ==
    ASSUME NEW a \in Nat, NEW n \in Positive
    PROVE  /\ a \div n \in Nat
           /\ a % n \in 0..(n - 1)
           /\ a = n * (a \div n) + (a % n)
BY DEF Positive

\* Only the remainder is a number below the modulus at a multiple's distance.
LEMMA ModUnique ==
    ASSUME NEW a \in Nat, NEW n \in Positive, NEW q \in Nat,
           NEW r \in 0..(n - 1), a = n * q + r
    PROVE  a % n = r
BY DEF Positive

\* A multiple of the modulus does not show in the remainder.
LEMMA ModAddMultiple ==
    ASSUME NEW a \in Nat, NEW n \in Positive, NEW k \in Nat
    PROVE  (a + n * k) % n = a % n
<1> DEFINE q == a \div n
           r == a % n
<1>1. q \in Nat /\ r \in 0..(n - 1) /\ a = n * q + r
  BY DivMod
<1>2. q + k \in Nat /\ a + n * k \in Nat
  BY <1>1 DEF Positive
<1>3. n * (q + k) = n * q + n * k
  BY <1>1 DEF Positive
<1>4. n * q \in Nat /\ n * k \in Nat
  BY <1>1 DEF Positive
<1>5. a + n * k = n * (q + k) + r
  <2> HIDE DEF q, r
  <2> QED BY <1>1, <1>3, <1>4
<1> HIDE DEF q, r
<1>6. (a + n * k) % n = r
  BY <1>1, <1>2, <1>5, ModUnique
<1> QED BY <1>6 DEF r

\* One modulus on, or back, the remainder is the same.
LEMMA ModAddModulus ==
    ASSUME NEW a \in Nat, NEW n \in Positive
    PROVE  (a + n) % n = a % n
<1>1. (a + n * 1) % n = a % n
  BY ModAddMultiple
<1> QED BY <1>1 DEF Positive

\* The counter's increment: the remainder of the sum is that of the remainders.
LEMMA ModSucc ==
    ASSUME NEW a \in Nat, NEW n \in Positive
    PROVE  (a + 1) % n = ((a % n) + 1) % n
<1> DEFINE q == a \div n
           r == a % n
<1>1. q \in Nat /\ r \in 0..(n - 1) /\ a = n * q + r
  BY DivMod
<1> HIDE DEF q, r
<1>2. r + 1 \in Nat /\ a + 1 = (r + 1) + n * q
  BY <1>1 DEF Positive
<1>3. ((r + 1) + n * q) % n = (r + 1) % n
  BY <1>1, <1>2, ModAddMultiple
<1> QED BY <1>2, <1>3 DEF r

\* Cutting to a multiple of the modulus first changes nothing.
LEMMA ModOfMod ==
    ASSUME NEW a \in Nat, NEW n \in Positive, NEW k \in Positive, NEW m,
           m = n * k
    PROVE  (a % m) % n = a % n
<1> DEFINE q == a \div m
           r == a % m
<1>1. m \in Positive
  BY DEF Positive
<1>2. q \in Nat /\ r \in 0..(m - 1) /\ a = m * q + r
  BY <1>1, DivMod
<1> HIDE DEF q, r
<1>3. k * q \in Nat /\ m * q = n * (k * q)
  BY <1>2 DEF Positive
<1>4. r \in Nat /\ a = r + n * (k * q)
  BY <1>1, <1>2, <1>3 DEF Positive
<1>5. (r + n * (k * q)) % n = r % n
  BY <1>3, <1>4, ModAddMultiple
<1> QED BY <1>4, <1>5 DEF r

\* Two numbers less than a modulus apart with the same remainder are equal.
LEMMA ModInjective ==
    ASSUME NEW a \in Nat, NEW b \in Nat, NEW n \in Positive,
           a <= b, b - a < n, a % n = b % n
    PROVE  a = b
<1> DEFINE p == a \div n
           q == b \div n
           r == a % n
<1>1. p \in Nat /\ r \in 0..(n - 1) /\ a = n * p + r
  BY DivMod
<1>2. q \in Nat /\ b = n * q + r
  BY DivMod
<1> HIDE DEF p, q, r
<1>3. n * p \in Nat /\ n * q \in Nat /\ n * q - n * p < n /\ n * p <= n * q
  BY <1>1, <1>2 DEF Positive
<1>4. q - p \in Int /\ n * (q - p) = n * q - n * p
  BY <1>1, <1>2 DEF Positive
<1>5. q - p < 1
  <2> SUFFICES ASSUME q - p >= 1 PROVE FALSE
    BY <1>4
  <2>1. PICK d \in Nat : q - p = d + 1
    <3>1. (q - p) - 1 \in Nat /\ q - p = ((q - p) - 1) + 1
      BY <1>4
    <3> QED BY <3>1
  <2>2. n * (d + 1) = n * d + n /\ n * d \in Nat
    BY DEF Positive
  <2> QED BY <2>1, <2>2, <1>3, <1>4 DEF Positive
<1>6. q - p >= 0
  <2> SUFFICES ASSUME p - q >= 1 PROVE FALSE
    BY <1>1, <1>2
  <2>1. PICK d \in Nat : p - q = d + 1
    <3>1. (p - q) - 1 \in Nat /\ p - q = ((p - q) - 1) + 1
      BY <1>1, <1>2
    <3> QED BY <3>1
  <2>2. n * (d + 1) = n * d + n /\ n * d \in Nat
    BY DEF Positive
  <2>3. p = q + (d + 1)
    BY <2>1, <1>1, <1>2
  <2>4. n * p = n * q + n * (d + 1)
    BY <2>3, <1>1, <1>2 DEF Positive
  <2> QED BY <2>2, <2>4, <1>3 DEF Positive
<1>7. p = q
  BY <1>1, <1>2, <1>5, <1>6
<1> QED BY <1>1, <1>2, <1>7
-----------------------------------------------------------------------------
(***************************************************************************)
(* The numbers of a ring buffer of c buckets whose sequence numbers count  *)
(* modulo m, a multiple of c, in counters of twice that range.             *)
(***************************************************************************)
Multiple(m, c) == \E k \in Positive : m = c * k

LEMMA RingSizes ==
    ASSUME NEW c \in Nat \ {0}, NEW m \in Nat, \E k \in 2..m : m = c * k
    PROVE  /\ c \in Positive /\ m \in Positive
           /\ 2 * c <= m
           /\ Multiple(m, c)
<1>1. PICK k \in 2..m : m = c * k
  OBVIOUS
<1>2. PICK j \in Nat : k = j + 2
  <2>1. k - 2 \in Nat /\ k = (k - 2) + 2
    OBVIOUS
  <2> QED BY <2>1
<1>3. c * (j + 2) = c * j + 2 * c /\ c * j \in Nat
  BY <1>2
<1>4. 2 * c <= m
  BY <1>1, <1>2, <1>3
<1> QED BY <1>1, <1>4 DEF Positive, Multiple

\* How counters that wrap at w follow the number n of events they count.
Wrapped(n, c, m, w) ==
    /\ n % w \in 0..(w - 1)
    /\ n % c \in 0..(c - 1)
    /\ n % m \in 0..(m - 1)
    /\ (n % w) % m = n % m
    /\ (n % w) % c = n % c
    /\ ((n % w) + 1) % w = (n + 1) % w
    /\ ((n + 1) % w) % c = (n + 1) % c

LEMMA RingNumbers ==
    ASSUME NEW n \in Nat, NEW c \in Positive, NEW m \in Positive, Multiple(m, c),
           NEW w, w = m * 2
    PROVE  Wrapped(n, c, m, w)
<1>1. w \in Positive /\ 2 \in Positive /\ n + 1 \in Nat
  BY DEF Positive
<1>2. PICK j \in Positive : w = c * j
  <2>1. PICK k \in Positive : m = c * k
    BY DEF Multiple
  <2>2. w = c * (2 * k) /\ 2 * k \in Positive
    BY <2>1 DEF Positive
  <2> QED BY <2>2
<1>3. n % w \in 0..(w - 1) /\ n % c \in 0..(c - 1) /\ n % m \in 0..(m - 1)
  BY <1>1, DivMod
<1>4. ASSUME NEW k \in Nat
      PROVE  \A x : /\ x = m * 2 => (k % x) % m = k % m
                    /\ x = c * j => (k % x) % c = k % c
  BY <1>1, ModOfMod
<1>5. (n % w) % m = n % m
  BY <1>4
<1>6. (n % w) % c = n % c /\ ((n + 1) % w) % c = (n + 1) % c
  BY <1>1, <1>2, <1>4
<1>7. ((n % w) + 1) % w = (n + 1) % w
  BY <1>1, ModSucc
<1> QED BY <1>3, <1>5, <1>6, <1>7 DEF Wrapped
=============================================================================
