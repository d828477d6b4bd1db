---------------------------- MODULE NumberLemmas ----------------------------
(***************************************************************************)
(* Facts about natural numbers that several proofs rest on: least members, *)
(* induction stated with a set, division and the remainder in a ring.      *)
(***************************************************************************)
EXTENDS Integers, FiniteSetsExt, WellFoundedInduction, TLAPS

\* A set of numbers that is not empty has a least member.
LEMMA LeastMember ==
    ASSUME NEW S, S \subseteq Nat, S # {}
    PROVE  Min(S) \in S /\ \A x \in S : Min(S) <= x
<1>1. PICK m \in S : \A y \in S : ~(<<y, m>> \in OpToRel(<, Nat))
  BY NatLessThanWellFounded, WFMin, Zenon
<1>2. OpToRel(<, Nat) = {ss \in Nat \X Nat : ss[1] < ss[2]}
  BY Zenon DEF OpToRel
<1>3. \A y \in S : ~(<<y, m>> \in {ss \in Nat \X Nat : ss[1] < ss[2]})
  BY <1>1, <1>2, Zenon
<1>4. ASSUME NEW y \in S PROVE m <= y
  <2>1. y \in Nat /\ m \in Nat /\ <<y, m>> \in Nat \X Nat /\ <<y, m>>[1] = y /\ <<y, m>>[2] = m
    OBVIOUS
  <2>2. ~(<<y, m>>[1] < <<y, m>>[2])
    BY <1>3, <2>1, Zenon
  <2> QED
    BY <2>1, <2>2
<1> QED
  BY <1>4 DEF Min

\* A non-empty set of numbers up to n has a greatest one.
LEMMA GreatestMember ==
    ASSUME NEW n \in Nat, NEW S, S \subseteq 0..n, S # {}
    PROVE  Max(S) \in S /\ \A x \in S : Max(S) >= x
<1>1. PICK T : T = {y \in 0..n : n - y \in S}
  OBVIOUS
<1>2. \A x \in S : x \in 0..n /\ n - x \in 0..n /\ n - (n - x) = x
  OBVIOUS
<1>3. \A x \in S : n - x \in T
  BY <1>1, <1>2
<1>4. T \subseteq Nat /\ T # {}
  <2>1. PICK x : x \in S
    OBVIOUS
  <2>2. n - x \in T
    BY <1>3, <2>1
  <2> QED BY <1>1, <2>2
<1>5. PICK y \in T : \A z \in T : y <= z
  BY <1>4, LeastMember
<1>6. y \in 0..n /\ n - y \in S
  BY <1>1, <1>5
<1>7. \A x \in S : y <= n - x
  BY <1>3, <1>5
<1>8. \A x \in S : n - y >= x
  BY <1>2, <1>6, <1>7
<1> QED BY <1>6, <1>8 DEF Max

\* A set of numbers that holds zero and is closed under successor up to n holds
\* every number up to n.
LEMMA InductionUpTo ==
    ASSUME NEW S, NEW n \in Nat, 0 \in S, \A k \in 0..(n - 1) : k \in S => k + 1 \in S
    PROVE  0..n \subseteq S
<1> DEFINE T == {k \in 0..n : k \notin S}
<1>1. SUFFICES ASSUME T # {} PROVE FALSE
  OBVIOUS
<1>2. T \subseteq Nat
  OBVIOUS
<1>3. PICK m : m \in T /\ \A x \in T : m <= x
  BY <1>1, <1>2, LeastMember
<1>4. m \in 1..n /\ m - 1 \in 0..(n - 1) /\ m - 1 \notin T
  BY <1>3
<1>5. m - 1 \in S
  BY <1>4
<1>6. (m - 1) + 1 \in S
  BY <1>4, <1>5
<1> QED
  BY <1>3, <1>4, <1>6

\* q is at most a quotient exactly when q times the divisor fits.
LEMMA QuotientBound ==
    ASSUME NEW g \in Nat \ {0}, NEW a \in Nat, NEW q \in Nat
    PROVE  (q <= a \div g) <=> (q * g <= a)
<1>1. PICK d \in Nat : d = a \div g
  OBVIOUS
<1>2. d * g <= a /\ a < d * g + g
  BY <1>1
<1>3. CASE q <= d
  <2>1. PICK e \in Nat : d = q + e
    BY <1>3
  <2>2. d * g = q * g + e * g /\ e * g \in Nat /\ q * g \in Nat
    BY <2>1
  <2> QED
    BY <1>1, <1>2, <1>3, <2>2
<1>4. CASE q > d
  <2>1. PICK e \in Nat : q = d + 1 + e
    BY <1>4
  <2>2. q * g = d * g + g + e * g /\ e * g \in Nat /\ d * g \in Nat
    BY <2>1
  <2> QED
    BY <1>1, <1>2, <1>4, <2>2
<1> QED
  BY <1>3, <1>4

\* A position in a ring of n that has wrapped at most once.
LEMMA OnceRound ==
    ASSUME NEW n \in Nat \ {0}, NEW x \in 0..(2 * n - 1)
    PROVE  /\ x % n = IF x < n THEN x ELSE x - n
           /\ (IF x < n THEN x ELSE x - n) \in 0..(n - 1)
<1>1. CASE x < n
  <2>1. x \in 0..(n - 1)
    BY <1>1
  <2>2. x % n = x
    BY <2>1
  <2> QED
    BY <1>1, <2>1, <2>2
<1>2. CASE ~(x < n)
  <2>1. x \in n..(2 * n - 1) /\ x - n \in 0..(n - 1)
    BY <1>2
  <2>2. x % n = x - n
    BY <2>1
  <2> QED
    BY <1>2, <2>1, <2>2
<1> QED
  BY <1>1, <1>2

\* A number is its quotient and its remainder, and any that fit are these.
LEMMA Division ==
    ASSUME NEW w \in Nat \ {0}, NEW a \in Nat
    PROVE  \E d \in Nat : \E e \in 0..(w - 1) : a = d * w + e /\ a % w = e
<1>1. PICK d \in Nat : d = a \div w
  OBVIOUS
<1>2. PICK e \in 0..(w - 1) : e = a % w
  OBVIOUS
<1>3. a = d * w + e
  BY <1>1, <1>2
<1> QED
  BY <1>2, <1>3
LEMMA RemainderIs ==
    ASSUME NEW w \in Nat \ {0}, NEW a \in Nat, NEW q \in Nat, NEW r \in 0..(w - 1), a = q * w + r
    PROVE  a % w = r
OBVIOUS

\* Adding to a remainder is adding to the number.
LEMMA RemainderOfSum ==
    ASSUME NEW w \in Nat \ {0}, NEW a \in Nat, NEW n \in Nat
    PROVE  ((a % w) + n) % w = (a + n) % w
<1>1. PICK d \in Nat, e \in 0..(w - 1) : a = d * w + e /\ a % w = e
  BY Division
<1>2. PICK m \in Nat : m = e + n
  OBVIOUS
<1>3. PICK c \in Nat, r \in 0..(w - 1) : m = c * w + r /\ m % w = r
  BY Division
<1>4. a + n = (d + c) * w + r /\ a + n \in Nat /\ d + c \in Nat
  BY <1>1, <1>2, <1>3
<1>5. (a + n) % w = r
  BY <1>4, RemainderIs
<1> QED
  BY <1>1, <1>2, <1>3, <1>5

\* Numbers less than w apart have different remainders.
LEMMA RemaindersDiffer ==
    ASSUME NEW w \in Nat \ {0}, NEW a \in Nat, NEW n \in Nat, n < w, (a + n) % w = a % w
    PROVE  n = 0
<1>1. PICK d \in Nat, e \in 0..(w - 1) : a = d * w + e /\ a % w = e
  BY Division
<1>2. CASE e + n < w
  <2>1. a + n = d * w + (e + n) /\ e + n \in 0..(w - 1) /\ a + n \in Nat
    BY <1>1, <1>2
  <2>2. (a + n) % w = e + n
    BY <2>1, RemainderIs
  <2> QED
    BY <1>1, <2>2
<1>3. CASE e + n >= w
  <2>1. a + n = (d + 1) * w + (e + n - w) /\ e + n - w \in 0..(w - 1) /\ a + n \in Nat /\ d + 1 \in Nat
    BY <1>1, <1>3
  <2>2. (a + n) % w = e + n - w
    BY <2>1, RemainderIs
  <2> QED
    BY <1>1, <2>2
<1> QED
  BY <1>1, <1>2, <1>3

\* A recursion over 0..n whose values stay in S has a solution in S.
Solves(h, n, c, F) == h[0] = c /\ \A i \in 1..n : h[i] = F[<<h[i - 1], i>>]
LEMMA Recursion ==
    ASSUME NEW n \in Nat, NEW S, NEW c \in S, NEW F \in [S \X (1..n) -> S]
    PROVE  \E h \in [0..n -> S] : Solves(h, n, c, F)
<1>1. PICK T : T = {k \in 0..n : \E h \in [0..k -> S] : h[0] = c /\ \A i \in 1..k : h[i] = F[<<h[i - 1], i>>]}
  OBVIOUS
<1>2. 0 \in T
  <2>1. PICK h : h = [i \in 0..0 |-> c]
    OBVIOUS
  <2>2. h \in [0..0 -> S] /\ h[0] = c
    BY <2>1
  <2> QED
    BY <1>1, <2>2
<1>3. ASSUME NEW k \in 0..(n - 1), k \in T PROVE k + 1 \in T
  <2>1. PICK h \in [0..k -> S] : h[0] = c /\ \A i \in 1..k : h[i] = F[<<h[i - 1], i>>]
    BY <1>1, <1>3
  <2>2. k \in Nat /\ k + 1 \in 0..n /\ k + 1 \in 1..n
    OBVIOUS
  <2>3. PICK v : v = F[<<h[k], k + 1>>]
    OBVIOUS
  <2>4. v \in S
    BY <2>2, <2>3
  <2>5. PICK e : e = [j \in 0..(k + 1) |-> IF j = k + 1 THEN v ELSE h[j]]
    OBVIOUS
  <2>6. ASSUME NEW j \in 0..k PROVE e[j] = h[j]
    BY <2>2, <2>5
  <2>7. e[k + 1] = v
    BY <2>2, <2>5
  <2>8. e \in [0..(k + 1) -> S]
    BY <2>1, <2>2, <2>4, <2>5
  <2>9. ASSUME NEW i \in 1..(k + 1) PROVE e[i] = F[<<e[i - 1], i>>]
    <3>1. CASE i = k + 1
      <4>1. i - 1 = k /\ k \in 0..k
        BY <2>2, <3>1
      <4> QED
        BY <2>3, <2>6, <2>7, <3>1, <4>1
    <3>2. CASE i # k + 1
      <4>1. i \in 1..k /\ i \in 0..k /\ i - 1 \in 0..k
        BY <2>2, <3>2
      <4> QED
        BY <2>1, <2>6, <4>1
    <3> QED
      BY <3>1, <3>2
  <2>10. e[0] = c
    BY <2>1, <2>2, <2>6
  <2> QED
    BY <1>1, <2>2, <2>8, <2>9, <2>10
<1>4. n \in T
  BY <1>2, <1>3, InductionUpTo
<1> QED
  BY <1>1, <1>4 DEF Solves
=============================================================================
