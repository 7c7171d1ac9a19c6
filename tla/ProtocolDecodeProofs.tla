------------------------ MODULE ProtocolDecodeProofs ------------------------
(***************************************************************************)
(* Proofs about ProtocolDecode, for bytes of any width, any manifest that  *)
(* satisfies ManifestAssumption and all frames: what decode_telemetry and  *)
(* decode_stream accept tells the bytes of the frame, and decode_telemetry *)
(* refuses a frame only for a reason.                                      *)
(*                                                                         *)
(* The recursive functions of the model, Pow2 and the sum in Composed, are *)
(* reasoned about by induction on sets of natural numbers, which follows   *)
(* from the minimal elements of a well-founded relation (WFMin).  From     *)
(* them come the digits of a number, then its bytes and its bits, then the *)
(* fields, and last the invariant of the decoder.                          *)
(***************************************************************************)
EXTENDS ProtocolDecode, SequenceTheorems, WellFoundedInduction, TLAPS

----------------------------------------------------------------------------
(* Induction, division. *)

(* A set of natural numbers that is not empty has a least one. *)
LEMMA LeastNumber ==
    ASSUME NEW T \in SUBSET Nat, T # {}
    PROVE  \E x \in T : \A y \in T : x <= y
<1> DEFINE R == OpToRel(<, Nat)
<1>1. IsWellFoundedOn(R, Nat)
  BY NatLessThanWellFounded
<1>2. \A a, b \in Nat : a < b => <<a, b>> \in R
  BY DEF OpToRel
<1> HIDE DEF R
<1>3. PICK x \in T : \A y \in T : ~(<<y, x>> \in R)
  BY <1>1, WFMin
<1>4. \A y \in T : ~(y < x)
  BY <1>2, <1>3
<1> QED
  BY <1>3, <1>4

(* A set that has 0, and the successor of each of its numbers, is Nat. *)
LEMMA Induction ==
    ASSUME NEW T \in SUBSET Nat, 0 \in T, \A n \in T : n + 1 \in T
    PROVE  T = Nat
<1> SUFFICES ASSUME T # Nat PROVE FALSE
  OBVIOUS
<1>1. PICK x \in Nat \ T : \A y \in Nat \ T : x <= y
  BY LeastNumber
<1>2. x - 1 \in Nat
  BY <1>1
<1>3. x - 1 \in T
  BY <1>1, <1>2
<1> QED
  BY <1>1, <1>3

(* A multiple of m between remainders is no multiple but 0. *)
LEMMA Remainder ==
    ASSUME NEW m \in Nat \ {0}, NEW x \in Int, NEW r \in 0 .. m - 1, NEW s \in 0 .. m - 1,
           m * x + r = s
    PROVE  x = 0
<1>1. CASE x >= 1
  <2>1. m * x >= m
    BY <1>1
  <2> QED
    BY <2>1
<1>2. CASE x <= -1
  <2>1. m * x <= -m
    BY <1>2
  <2> QED
    BY <2>1
<1> QED
  BY <1>1, <1>2

(* Quotient and remainder, and that no others are. *)
LEMMA Division ==
    ASSUME NEW a \in Int, NEW m \in Nat \ {0}
    PROVE  a \div m \in Int /\ a % m \in 0 .. m - 1 /\ a = m * (a \div m) + (a % m)
OBVIOUS

LEMMA Quotient ==
    ASSUME NEW a \in Int, NEW m \in Nat \ {0}, NEW q \in Int, NEW r \in 0 .. m - 1,
           a = m * q + r
    PROVE  a \div m = q /\ a % m = r
<1> DEFINE d == a \div m
<1>1. d \in Int /\ a % m \in 0 .. m - 1 /\ a = m * d + (a % m)
  BY Division
<1>2. m * (d - q) = m * d - m * q
  BY <1>1
<1>3. m * (d - q) + (a % m) = r
  BY <1>1, <1>2
<1>4. d - q = 0
  BY <1>1, <1>3, Remainder
<1> QED
  BY <1>1, <1>3, <1>4

(* A number below m is its own remainder. *)
LEMMA SmallRemainder == ASSUME NEW m \in Nat \ {0}, NEW r \in 0 .. m - 1 PROVE r % m = r
<1>1. r \in Int /\ 0 \in Int /\ r = m * 0 + r
  OBVIOUS
<1> QED
  BY <1>1, Quotient

(* A product of positive numbers is positive. *)
LEMMA Product ==
    ASSUME NEW a \in Nat \ {0}, NEW b \in Nat \ {0}
    PROVE  a * b \in Nat \ {0}
<1>1. a * b >= a
  OBVIOUS
<1> QED
  BY <1>1

(* What is added in multiples of m is added to the quotient. *)
LEMMA QuotientOfSum ==
    ASSUME NEW a \in Int, NEW m \in Nat \ {0}, NEW q \in Int
    PROVE  (a + m * q) \div m = (a \div m) + q /\ (a + m * q) % m = (a % m)
<1> DEFINE d == a \div m
<1>1. d \in Int /\ a % m \in 0 .. m - 1 /\ a = m * d + (a % m)
  BY Division
<1>2. m * (d + q) = m * d + m * q /\ m * q \in Int
  BY <1>1
<1>3. a + m * q = m * (d + q) + (a % m)
  BY <1>1, <1>2
<1>4. a + m * q \in Int /\ d + q \in Int
  BY <1>1, <1>2
<1> HIDE DEF d
<1> QED
  BY <1>1, <1>3, <1>4, Quotient DEF d

(* A number is split into its part below m, the part below n of the rest, and the rest. *)
LEMMA TwoQuotients ==
    ASSUME NEW a \in Int, NEW m \in Nat \ {0}, NEW n \in Nat \ {0}
    PROVE  /\ a \div (m * n) = (a \div m) \div n
           /\ a % (m * n) = m * ((a \div m) % n) + (a % m)
<1> DEFINE d == a \div m
<1> DEFINE e == d \div n
<1> DEFINE s == d % n
<1> DEFINE t == (a % m)
<1>1. d \in Int /\ t \in 0 .. m - 1 /\ a = m * d + t
  BY Division
<1>2. e \in Int /\ s \in 0 .. n - 1 /\ d = n * e + s
  BY <1>1, Division
<1> HIDE DEF d, e, s, t
<1>3. m * d = m * (n * e) + m * s
  BY <1>1, <1>2
<1>4. m * (n * e) = (m * n) * e
  BY <1>2
<1>5. m * s + t \in 0 .. m * n - 1
  <2>1. m * s \in Nat
    BY <1>2
  <2>2. m * s <= m * (n - 1)
    BY <1>2
  <2>3. m * (n - 1) = m * n - m
    OBVIOUS
  <2>4. m * n \in Nat
    OBVIOUS
  <2> QED
    BY <1>1, <2>1, <2>2, <2>3, <2>4
<1>6. a = (m * n) * e + (m * s + t)
  <2>1. m * d \in Int /\ m * (n * e) \in Int /\ m * s \in Int
    BY <1>1, <1>2
  <2> QED
    BY <1>1, <1>3, <1>4, <2>1
<1>7. m * n \in Nat \ {0}
  BY Product
<1>8. a \div (m * n) = e /\ a % (m * n) = m * s + t
  BY <1>2, <1>5, <1>6, <1>7, Quotient
<1> QED
  BY <1>8 DEF d, e, s, t

(* The part of a number below m * n, above m. *)
LEMMA MiddlePart ==
    ASSUME NEW a \in Int, NEW m \in Nat \ {0}, NEW n \in Nat \ {0}
    PROVE  (a % (m * n)) \div m = (a \div m) % n
<1> DEFINE s == (a \div m) % n
<1> DEFINE t == (a % m)
<1>1. s \in Int /\ t \in 0 .. m - 1
  BY Division
<1>2. a % (m * n) = m * s + t
  BY TwoQuotients
<1> HIDE DEF s, t
<1>3. m * s + t \in Int
  BY <1>1
<1>4. (m * s + t) \div m = s
  BY <1>1, <1>3, Quotient
<1> QED
  BY <1>2, <1>4 DEF s

(* The recursive definition of Pow2 defines it: such a function exists up to *)
(* every number, they agree, and together they make one on Nat.             *)
LEMMA Pow2Equation == Pow2 = [n \in Nat |-> IF n = 0 THEN 1 ELSE 2 * Pow2[n - 1]]
<1> DEFINE Upto(g, n) == g = [i \in 0 .. n |-> IF i = 0 THEN 1 ELSE 2 * g[i - 1]]
<1>1. \A n \in Nat : \E g : Upto(g, n)
  <2> DEFINE T == {n \in Nat : \E g : Upto(g, n)}
  <2>1. 0 \in T
    <3>1. Upto([i \in 0 .. 0 |-> 1], 0)
      OBVIOUS
    <3> QED
      BY <3>1
  <2>2. ASSUME NEW n \in T PROVE n + 1 \in T
    <3>1. PICK g : Upto(g, n)
      OBVIOUS
    <3> DEFINE h == [i \in 0 .. n + 1 |-> IF i <= n THEN g[i] ELSE 2 * g[n]]
    <3>2. ASSUME NEW i \in 0 .. n + 1 PROVE h[i] = IF i = 0 THEN 1 ELSE 2 * h[i - 1]
      <4>1. CASE i \in 0 .. n
        BY <3>1, <4>1
      <4>2. CASE i = n + 1
        BY <3>1, <4>2
      <4> QED
        BY <4>1, <4>2
    <3>3. Upto(h, n + 1)
      BY <3>2
    <3> HIDE DEF h
    <3>4. \E u : Upto(u, n + 1)
      BY <3>3
    <3> QED
      BY <3>4
  <2> HIDE DEF T
  <2>3. T = Nat
    BY <2>1, <2>2, Induction DEF T
  <2> QED
    BY <2>3 DEF T
<1>2. ASSUME NEW n \in Nat, NEW g, Upto(g, n), NEW m \in Nat, NEW h, Upto(h, m)
      PROVE  \A i \in Nat : i <= n /\ i <= m => g[i] = h[i]
  <2> DEFINE T == {i \in Nat : i <= n /\ i <= m => g[i] = h[i]}
  <2>1. 0 \in T
    BY <1>2
  <2>2. ASSUME NEW i \in T PROVE i + 1 \in T
    <3> SUFFICES ASSUME i + 1 <= n, i + 1 <= m PROVE g[i + 1] = h[i + 1]
      OBVIOUS
    <3>1. g[i + 1] = 2 * g[i] /\ h[i + 1] = 2 * h[i]
      BY <1>2
    <3> QED
      BY <3>1
  <2> HIDE DEF T
  <2>3. T = Nat
    BY <2>1, <2>2, Induction DEF T
  <2> QED
    BY <2>3 DEF T
<1> DEFINE F(n) == CHOOSE g : Upto(g, n)
<1> DEFINE G == [n \in Nat |-> F(n)[n]]
<1>3. \A n \in Nat : Upto(F(n), n)
  BY <1>1
<1> HIDE DEF F
<1>4. ASSUME NEW n \in Nat PROVE G[n] = IF n = 0 THEN 1 ELSE 2 * G[n - 1]
  <2>1. F(n)[n] = IF n = 0 THEN 1 ELSE 2 * F(n)[n - 1]
    BY <1>3
  <2>2. CASE n # 0
    <3>1. n - 1 \in Nat /\ n - 1 <= n
      BY <2>2
    <3>2. Upto(F(n), n) /\ Upto(F(n - 1), n - 1)
      BY <1>3, <3>1
    <3> HIDE DEF Upto
    <3>3. F(n)[n - 1] = F(n - 1)[n - 1]
      BY <1>2, <3>1, <3>2
    <3> QED
      BY <2>1, <2>2, <3>1, <3>3
  <2> QED
    BY <2>1, <2>2
<1>5. G = [n \in Nat |-> IF n = 0 THEN 1 ELSE 2 * G[n - 1]]
  BY <1>4
<1> HIDE DEF G
<1> QED
  BY <1>5 DEF Pow2

LEMMA Pow2Step == Pow2[0] = 1 /\ \A n \in Nat : Pow2[n + 1] = 2 * Pow2[n]
BY Pow2Equation

LEMMA Pow2Type == \A n \in Nat : Pow2[n] \in Nat \ {0}
<1> DEFINE T == {n \in Nat : Pow2[n] \in Nat \ {0}}
<1>1. 0 \in T
  BY Pow2Step
<1>2. \A n \in T : n + 1 \in T
  BY Pow2Step
<1> HIDE DEF T
<1>3. T = Nat
  BY <1>1, <1>2, Induction DEF T
<1> QED
  BY <1>3 DEF T

LEMMA Pow2Sum == ASSUME NEW a \in Nat, NEW b \in Nat PROVE Pow2[a + b] = Pow2[a] * Pow2[b]
<1> DEFINE T == {n \in Nat : Pow2[a + n] = Pow2[a] * Pow2[n]}
<1>1. 0 \in T
  BY Pow2Step, Pow2Type
<1>2. ASSUME NEW n \in T PROVE n + 1 \in T
  <2>1. Pow2[n + 1] = 2 * Pow2[n]
    BY Pow2Step
  <2>2. Pow2[(a + n) + 1] = 2 * Pow2[a + n]
    BY Pow2Step
  <2>3. a + (n + 1) = (a + n) + 1
    OBVIOUS
  <2>4. Pow2[a] \in Nat /\ Pow2[n] \in Nat
    BY Pow2Type
  <2>5. Pow2[a] * (2 * Pow2[n]) = 2 * (Pow2[a] * Pow2[n])
    BY <2>4
  <2> QED
    BY <2>1, <2>2, <2>3, <2>5
<1> HIDE DEF T
<1>3. T = Nat
  BY <1>1, <1>2, Induction DEF T
<1> QED
  BY <1>3 DEF T

(* The sums of the digits, up to each of them. *)
Sums(s, digit, w, n) ==
    /\ s[0] = 0
    /\ \A i \in 0 .. n - 1 : s[i + 1] = s[i] + digit[i] * Pow2[w * i]
    /\ Composed(digit, w, n) = s[n]

LEMMA ComposedSum ==
    ASSUME NEW digit, NEW w, NEW n \in Nat
    PROVE  \E s : Sums(s, digit, w, n)
<1> DEFINE Upto(g, m) ==
        g = [i \in 0 .. m |-> IF i = 0 THEN 0 ELSE g[i - 1] + digit[i - 1] * Pow2[w * (i - 1)]]
<1> DEFINE T == {m \in Nat : \E g : Upto(g, m)}
<1>1. 0 \in T
  <2>1. Upto([i \in 0 .. 0 |-> 0], 0)
    OBVIOUS
  <2> QED
    BY <2>1
<1>2. ASSUME NEW m \in T PROVE m + 1 \in T
  <2>1. PICK g : Upto(g, m)
    OBVIOUS
  <2> DEFINE h == [i \in 0 .. m + 1 |->
                      IF i <= m THEN g[i] ELSE g[i - 1] + digit[i - 1] * Pow2[w * (i - 1)]]
  <2>2. ASSUME NEW i \in 0 .. m + 1
        PROVE  h[i] = IF i = 0 THEN 0 ELSE h[i - 1] + digit[i - 1] * Pow2[w * (i - 1)]
    <3>1. CASE i \in 0 .. m
      BY <2>1, <3>1
    <3>2. CASE i = m + 1
      BY <2>1, <3>2
    <3> QED
      BY <3>1, <3>2
  <2>3. Upto(h, m + 1)
    BY <2>2
  <2> HIDE DEF h
  <2>4. \E u : Upto(u, m + 1)
    BY <2>3
  <2> QED
    BY <2>4
<1> HIDE DEF T
<1>3. T = Nat
  BY <1>1, <1>2, Induction DEF T
<1>4. \E g : Upto(g, n)
  BY <1>3 DEF T
<1> DEFINE s == CHOOSE g : Upto(g, n)
<1>5. Upto(s, n)
  BY <1>4
<1>6. Composed(digit, w, n) = s[n]
  BY DEF Composed
<1> HIDE DEF s
<1>7. s[0] = 0 /\ \A i \in 1 .. n : s[i] = s[i - 1] + digit[i - 1] * Pow2[w * (i - 1)]
  BY <1>5
<1>8. ASSUME NEW i \in 0 .. n - 1 PROVE s[i + 1] = s[i] + digit[i] * Pow2[w * i]
  <2> DEFINE k == i + 1
  <2>1. k \in 1 .. n /\ k - 1 = i
    OBVIOUS
  <2> HIDE DEF k
  <2>2. s[k] = s[k - 1] + digit[k - 1] * Pow2[w * (k - 1)]
    BY <1>7, <2>1
  <2> QED
    BY <2>1, <2>2 DEF k
<1> QED
  BY <1>6, <1>7, <1>8 DEF Sums

(* What is added above the first n digits does not change them. *)
LEMMA LowerDigits ==
    ASSUME NEW a \in Int, NEW w \in Nat, NEW n \in Nat, NEW d \in Int, NEW i \in 0 .. n - 1
    PROVE  ((a + Pow2[w * n] * d) \div Pow2[w * i]) % Pow2[w] = (a \div Pow2[w * i]) % Pow2[w]
<1> DEFINE k == n - 1 - i
<1> DEFINE x == w * i
<1> DEFINE y == w * k
<1>1. k \in Nat /\ i \in Nat /\ n = i + (1 + k)
  OBVIOUS
<1> HIDE DEF k
<1>2. x \in Nat /\ y \in Nat
  BY <1>1
<1>3. w * n = x + (w + y)
  BY <1>1
<1> HIDE DEF x, y
<1> DEFINE P == Pow2[x]
<1> DEFINE M == Pow2[w]
<1> DEFINE Q == Pow2[y]
<1>4. P \in Nat \ {0} /\ M \in Nat \ {0} /\ Q \in Nat \ {0}
  BY <1>2, Pow2Type
<1>5. Pow2[w * n] = P * (M * Q)
  <2>1. w + y \in Nat
    BY <1>2
  <2>2. Pow2[x + (w + y)] = Pow2[x] * Pow2[w + y] /\ Pow2[w + y] = Pow2[w] * Pow2[y]
    BY <1>2, <2>1, Pow2Sum
  <2> QED
    BY <1>3, <2>2
<1> HIDE DEF P, M, Q
<1> DEFINE q == Q * d
<1> DEFINE z == M * q
<1>6. q \in Int /\ z \in Int
  BY <1>4
<1>7. (P * (M * Q)) * d = P * z
  BY <1>4
<1> HIDE DEF z
<1>8. (a + P * z) \div P = (a \div P) + z /\ a \div P \in Int
  <2>1. (a + P * z) \div P = (a \div P) + z
    BY <1>4, <1>6, QuotientOfSum
  <2>2. a \div P \in Int
    BY <1>4, Division
  <2> QED
    BY <2>1, <2>2
<1> DEFINE b == a \div P
<1> HIDE DEF b, q
<1>9. (b + M * q) % M = b % M
  BY <1>4, <1>6, <1>8, QuotientOfSum DEF b
<1> QED
  BY <1>5, <1>7, <1>8, <1>9 DEF P, M, x, z, b

(* Nor does taking 2^bits away, as a negative number is read. *)
LEMMA LowerDigitsWrapped ==
    ASSUME NEW a \in Int, NEW w \in Nat, NEW n \in Nat
    PROVE  \A i \in 0 .. n - 1 :
               ((a - Pow2[w * n]) \div Pow2[w * i]) % Pow2[w] = (a \div Pow2[w * i]) % Pow2[w]
<1> TAKE i \in 0 .. n - 1
<1> DEFINE z == -1
<1>1. z \in Int
  OBVIOUS
<1> HIDE DEF z
<1>2. ((a + Pow2[w * n] * z) \div Pow2[w * i]) % Pow2[w] = (a \div Pow2[w * i]) % Pow2[w]
  BY <1>1, LowerDigits
<1>3. w * n \in Nat
  OBVIOUS
<1>4. Pow2[w * n] \in Nat \ {0}
  BY <1>3, Pow2Type
<1>5. a + Pow2[w * n] * z = a - Pow2[w * n]
  BY <1>4 DEF z
<1> QED
  BY <1>2, <1>5

(* The digits of a number of n digits are below Pow2[w * n], and can be read back. *)
LEMMA DigitsRead ==
    ASSUME NEW digit, NEW w \in Nat, NEW n \in Nat,
           \A i \in 0 .. n - 1 : digit[i] \in 0 .. Pow2[w] - 1
    PROVE  /\ Composed(digit, w, n) \in 0 .. Pow2[w * n] - 1
           /\ \A i \in 0 .. n - 1 : (Composed(digit, w, n) \div Pow2[w * i]) % Pow2[w] = digit[i]
<1> DEFINE P(i) == Pow2[w * i]
<1>0. PICK s : Sums(s, digit, w, n)
  BY ComposedSum
<1>1. /\ s[0] = 0
      /\ \A i \in 0 .. n - 1 : s[i + 1] = s[i] + digit[i] * P(i)
      /\ Composed(digit, w, n) = s[n]
  BY <1>0 DEF Sums
<1>2. \A i \in Nat : w * i \in Nat /\ P(i) \in Nat \ {0}
  <2>1. \A i \in Nat : w * i \in Nat
    OBVIOUS
  <2> QED
    BY <2>1, Pow2Type
<1>3. Pow2[w] \in Nat \ {0}
  BY Pow2Type
<1>4. \A i, k \in Nat : P(i + k) = P(i) * P(k)
  <2> TAKE i, k \in Nat
  <2>1. w * (i + k) = w * i + w * k
    OBVIOUS
  <2> QED
    BY <1>2, <2>1, Pow2Sum
<1>5. P(0) = 1 /\ P(1) = Pow2[w]
  <2>1. w * 0 = 0 /\ w * 1 = w
    OBVIOUS
  <2> QED
    BY <2>1, Pow2Step
<1> HIDE DEF P
<1> DEFINE Reads(m) == /\ s[m] \in 0 .. P(m) - 1
                       /\ \A i \in 0 .. m - 1 : (s[m] \div P(i)) % Pow2[w] = digit[i]
<1> DEFINE T == {m \in Nat : m <= n => Reads(m)}
<1>6. 0 \in T
  BY <1>1, <1>5
<1>7. ASSUME NEW m \in T PROVE m + 1 \in T
  <2> SUFFICES ASSUME m + 1 <= n PROVE Reads(m + 1)
    OBVIOUS
  <2>1. Reads(m) /\ m \in Nat /\ m \in 0 .. n - 1 /\ P(m) \in Nat \ {0}
    BY <1>2
  <2> DEFINE d == digit[m]
  <2>2. d \in 0 .. Pow2[w] - 1
    BY <2>1
  <2>3. s[m + 1] = s[m] + P(m) * d
    <3>1. s[m + 1] = s[m] + d * P(m)
      BY <1>1, <2>1
    <3> QED
      BY <1>2, <2>1, <2>2, <3>1
  <2>4. P(m + 1) = P(m) * Pow2[w]
    <3>1. m \in Nat /\ 1 \in Nat
      OBVIOUS
    <3>2. P(m + 1) = P(m) * P(1)
      BY <1>4, <3>1
    <3> QED
      BY <1>5, <3>2
  <2> HIDE DEF d
  <2>5. s[m + 1] \in 0 .. P(m + 1) - 1
    <3>1. P(m) * d <= P(m) * (Pow2[w] - 1)
      <4> DEFINE p == P(m)
      <4> DEFINE c == Pow2[w]
      <4>1. p \in Nat \ {0} /\ c \in Nat \ {0} /\ d \in 0 .. c - 1
        BY <1>3, <2>1, <2>2
      <4> HIDE DEF p, c
      <4>2. p * d <= p * (c - 1)
        BY <4>1
      <4> QED
        BY <4>2 DEF p, c
    <3>2. P(m) * (Pow2[w] - 1) = P(m) * Pow2[w] - P(m)
      BY <1>2, <1>3, <2>1
    <3>3. P(m) * d \in Nat /\ P(m) * Pow2[w] \in Nat
      BY <1>2, <1>3, <2>1, <2>2
    <3> QED
      BY <1>2, <2>1, <2>3, <2>4, <3>1, <3>2, <3>3
  <2>6. ASSUME NEW i \in 0 .. m - 1 PROVE (s[m + 1] \div P(i)) % Pow2[w] = digit[i]
    <3> DEFINE a == s[m]
    <3>1. a \in Int /\ d \in Int /\ m \in Nat
      BY <2>1, <2>2
    <3> HIDE DEF a
    <3>2. ((a + Pow2[w * m] * d) \div Pow2[w * i]) % Pow2[w] = (a \div Pow2[w * i]) % Pow2[w]
      BY <3>1, LowerDigits
    <3> QED
      BY <2>1, <2>3, <3>2 DEF P, a
  <2>7. (s[m + 1] \div P(m)) % Pow2[w] = digit[m]
    <3>1. s[m + 1] = P(m) * d + s[m]
      BY <1>2, <2>1, <2>2, <2>3
    <3>2. s[m + 1] \in Int /\ P(m + 1) \in Nat /\ d \in Int /\ s[m] \in 0 .. P(m) - 1
      BY <1>2, <1>3, <2>1, <2>2, <2>5
    <3>3. s[m + 1] \div P(m) = d
      BY <2>1, <3>1, <3>2, Quotient
    <3>5. d % Pow2[w] = d
      BY <1>3, <2>2, SmallRemainder
    <3> QED
      BY <3>3, <3>5 DEF d
  <2> QED
    BY <2>1, <2>5, <2>6, <2>7
<1> HIDE DEF T
<1>8. T = Nat
  BY <1>6, <1>7, Induction DEF T
<1>9. Reads(n)
  BY <1>8 DEF T
<1> QED
  BY <1>1, <1>9 DEF P

(* A number composed of the digits of v is v, up to its size. *)
LEMMA DigitsComposed ==
    ASSUME NEW v \in Int, NEW digit, NEW w \in Nat, NEW n \in Nat,
           \A i \in 0 .. n - 1 : digit[i] = (v \div Pow2[w * i]) % Pow2[w]
    PROVE  Composed(digit, w, n) = v % Pow2[w * n]
<1> DEFINE P(i) == Pow2[w * i]
<1>0. PICK s : Sums(s, digit, w, n)
  BY ComposedSum
<1>1. /\ s[0] = 0
      /\ \A i \in 0 .. n - 1 : s[i + 1] = s[i] + digit[i] * P(i)
      /\ Composed(digit, w, n) = s[n]
  BY <1>0 DEF Sums
<1>2. \A i \in Nat : w * i \in Nat /\ P(i) \in Nat \ {0}
  <2>1. \A i \in Nat : w * i \in Nat
    OBVIOUS
  <2> QED
    BY <2>1, Pow2Type
<1>3. Pow2[w] \in Nat \ {0}
  BY Pow2Type
<1>4. \A i \in Nat : P(i + 1) = P(i) * Pow2[w]
  <2> TAKE i \in Nat
  <2>1. w * (i + 1) = w * i + w
    OBVIOUS
  <2> QED
    BY <1>2, <2>1, Pow2Sum
<1>5. P(0) = 1
  <2>1. w * 0 = 0
    OBVIOUS
  <2> QED
    BY <2>1, Pow2Step
<1>10. \A i \in 0 .. n - 1 : digit[i] = (v \div P(i)) % Pow2[w]
  OBVIOUS
<1> HIDE DEF P
<1> DEFINE T == {m \in Nat : m <= n => s[m] = v % P(m)}
<1>6. 0 \in T
  <2>1. v = 1 * v + 0
    OBVIOUS
  <2>2. v % 1 = 0
    BY <2>1, Quotient
  <2> QED
    BY <1>1, <1>5, <2>2
<1>7. ASSUME NEW m \in T PROVE m + 1 \in T
  <2> SUFFICES ASSUME m + 1 <= n PROVE s[m + 1] = v % P(m + 1)
    OBVIOUS
  <2>1. m \in Nat /\ m \in 0 .. n - 1 /\ s[m] = v % P(m) /\ P(m) \in Nat \ {0}
    BY <1>2
  <2>2. s[m + 1] = s[m] + digit[m] * P(m)
    BY <1>1, <2>1
  <2>3. v % P(m + 1) = P(m) * ((v \div P(m)) % Pow2[w]) + (v % P(m))
    <3>1. P(m + 1) = P(m) * Pow2[w]
      BY <1>4, <2>1
    <3>2. v % (P(m) * Pow2[w]) = P(m) * ((v \div P(m)) % Pow2[w]) + (v % P(m))
      BY <1>3, <2>1, TwoQuotients
    <3> QED
      BY <3>1, <3>2
  <2> DEFINE d == (v \div P(m)) % Pow2[w]
  <2>4. d \in Int /\ v % P(m) \in Int /\ P(m) \in Int
    <3>1. v \div P(m) \in Int /\ v % P(m) \in Int
      <4> DEFINE p == P(m)
      <4>1. p \in Nat \ {0}
        BY <2>1
      <4> HIDE DEF p
      <4>2. v \div p \in Int /\ v % p \in 0 .. p - 1
        BY <4>1, Division
      <4>3. v \div p \in Int /\ v % p \in Int
        BY <4>1, <4>2
      <4> QED
        BY <4>3 DEF p
    <3> QED
      BY <1>3, <2>1, <3>1, Division
  <2>5. digit[m] = d
    BY <1>10, <2>1
  <2> HIDE DEF d
  <2>6. s[m + 1] = (v % P(m)) + d * P(m)
    BY <2>1, <2>2, <2>5
  <2>7. v % P(m + 1) = P(m) * d + (v % P(m))
    BY <2>3 DEF d
  <2> QED
    BY <2>4, <2>6, <2>7
<1> HIDE DEF T
<1>8. T = Nat
  BY <1>6, <1>7, Induction DEF T
<1>9. s[n] = v % P(n)
  BY <1>8 DEF T
<1> QED
  BY <1>1, <1>9 DEF P

(* A bit of a digit is a bit of the number. *)
LEMMA BitOfDigit ==
    ASSUME NEW v \in Int, NEW w \in Nat, NEW i \in Nat, NEW k \in 0 .. w - 1
    PROVE  Bit(v, w * i + k) = Bit((v \div Pow2[w * i]) % Pow2[w], k)
<1> DEFINE x == v \div Pow2[w * i]
<1> DEFINE j == w - 1 - k
<1>1. w * i \in Nat /\ k \in Nat /\ j \in Nat /\ w = k + (1 + j)
  OBVIOUS
<1>2. Pow2[w * i] \in Nat \ {0} /\ Pow2[k] \in Nat \ {0} /\ Pow2[j] \in Nat \ {0}
  BY <1>1, Pow2Type
<1>3. x \in Int
  BY <1>2, Division
<1>4. v \div Pow2[w * i + k] = x \div Pow2[k]
  <2>1. Pow2[w * i + k] = Pow2[w * i] * Pow2[k]
    BY <1>1, Pow2Sum
  <2>2. v \div (Pow2[w * i] * Pow2[k]) = (v \div Pow2[w * i]) \div Pow2[k]
    BY <1>2, TwoQuotients
  <2> QED
    BY <2>1, <2>2
<1>5. Pow2[w] = Pow2[k] * (2 * Pow2[j])
  <2>1. Pow2[1 + j] = 2 * Pow2[j]
    BY <1>1, Pow2Step
  <2> QED
    BY <1>1, <2>1, Pow2Sum
<1> HIDE DEF x, j
<1>6. 2 * Pow2[j] \in Nat \ {0}
  BY <1>2
<1>7. (x % Pow2[w]) \div Pow2[k] = (x \div Pow2[k]) % (2 * Pow2[j])
  <2>1. (x % (Pow2[k] * (2 * Pow2[j]))) \div Pow2[k] = (x \div Pow2[k]) % (2 * Pow2[j])
    BY <1>2, <1>3, <1>6, MiddlePart
  <2> QED
    BY <1>5, <2>1
<1>8. x \div Pow2[k] \in Int
  BY <1>2, <1>3, Division
<1>9. ((x \div Pow2[k]) % (2 * Pow2[j])) % 2 = (x \div Pow2[k]) % 2
  <2> DEFINE y == x \div Pow2[k]
  <2> DEFINE z == (y \div 2) % Pow2[j]
  <2>0. y \in Int /\ 2 \in Nat \ {0} /\ y \div 2 \in Int
    BY <1>8
  <2> HIDE DEF y
  <2>1. y % (2 * Pow2[j]) = 2 * z + (y % 2)
    BY <1>2, <2>0, TwoQuotients
  <2>2. y % 2 \in 0 .. 2 - 1 /\ z \in Int
    <3>1. y % 2 \in 0 .. 2 - 1
      BY <2>0, Division
    <3> DEFINE u == y \div 2
    <3>2. u \in Int
      BY <2>0
    <3> HIDE DEF u
    <3>3. u % Pow2[j] \in Int
      BY <1>2, <3>2, Division
    <3> QED
      BY <3>1, <3>3 DEF u
  <2> HIDE DEF z
  <2>3. 2 * z + (y % 2) \in Int
    BY <2>2
  <2>4. (2 * z + (y % 2)) % 2 = y % 2
    BY <2>2, <2>3, Quotient
  <2> QED
    BY <2>1, <2>4 DEF y
<1> QED
  BY <1>4, <1>7, <1>9 DEF Bit, x

----------------------------------------------------------------------------
(* The numbers, the bytes and the bits of a field. *)

(* The number that is read from the bytes of a field has these bytes, and no *)
(* other number of the type has (struct.unpack_from).                        *)
LEMMA NumberIsWritten ==
    ASSUME NEW frame \in Seq(Byte), NEW f,
           f.offset \in Nat, f.size \in Nat \ {0}, f.signed \in BOOLEAN,
           f.offset + f.size <= Len(frame)
    PROVE  /\ Number(frame, f) \in Int
           /\ IsWritten(frame, f, Number(frame, f))
           /\ \A v \in Int : IsWritten(frame, f, v) => v = Number(frame, f)
<1> DEFINE w == Width
<1> DEFINE n == f.size
<1> DEFINE digit == [i \in 0 .. n - 1 |-> ByteAt(frame, f, i)]
<1> DEFINE u == Composed(digit, w, n)
<1> DEFINE B == Pow2[w * n]
<1> DEFINE H == Pow2[BitsOf(f) - 1]
<1>1. w \in Nat \ {0} /\ n \in Nat \ {0}
  BY ManifestAssumption
<1>2. \A i \in 0 .. n - 1 : ByteAt(frame, f, i) \in 0 .. Pow2[w] - 1
  <2> TAKE i \in 0 .. n - 1
  <2> DEFINE j == f.offset + 1 + i
  <2>1. j \in 1 .. Len(frame)
    BY <1>1
  <2> HIDE DEF j
  <2>2. frame[j] \in Byte
    BY <2>1
  <2> QED
    BY <2>2 DEF j, ByteAt, Byte
<1>3. BitsOf(f) = w * n /\ BitsOf(f) \in Nat \ {0}
  <2>1. w * n \in Nat \ {0}
    BY <1>1, Product
  <2>2. n * w = w * n
    BY <1>1
  <2> QED
    BY <2>1, <2>2 DEF BitsOf
<1>4. B = 2 * H /\ H \in Nat \ {0} /\ B = Pow2[BitsOf(f)]
  <2> DEFINE b == BitsOf(f) - 1
  <2>1. b \in Nat /\ b + 1 = BitsOf(f)
    BY <1>3
  <2> HIDE DEF b
  <2>2. Pow2[b + 1] = 2 * Pow2[b] /\ Pow2[b] \in Nat \ {0}
    BY <2>1, Pow2Step, Pow2Type
  <2>3. b = BitsOf(f) - 1
    BY DEF b
  <2> QED
    BY <1>3, <2>1, <2>2, <2>3
<1>5. \A i \in 0 .. n - 1 : digit[i] = ByteAt(frame, f, i)
  OBVIOUS
<1>6. Number(frame, f) = IF u > TypeMax(f) THEN u - B ELSE u
  BY <1>4 DEF Number, Unsigned
<1>7. /\ TypeMin(f) = IF f.signed THEN -H ELSE 0
      /\ TypeMax(f) = IF f.signed THEN H - 1 ELSE B - 1
  BY <1>4 DEF TypeMin, TypeMax
<1> HIDE DEF w, n, digit, u, H
<1>8. u \in 0 .. B - 1 /\ \A i \in 0 .. n - 1 : (u \div Pow2[w * i]) % Pow2[w] = digit[i]
  <2>1. w \in Nat /\ n \in Nat /\ \A i \in 0 .. n - 1 : digit[i] \in 0 .. Pow2[w] - 1
    BY <1>1, <1>2, <1>5
  <2> QED
    BY <2>1, DigitsRead DEF u
<1>9. \A v \in Int, i \in 0 .. n - 1 : ByteOf(v, i) = (v \div Pow2[w * i]) % Pow2[w]
  BY DEF ByteOf, w
<1>10. ASSUME NEW v \in Int
       PROVE  IsWritten(frame, f, v) <=> /\ v \in TypeMin(f) .. TypeMax(f)
                                         /\ \A i \in 0 .. n - 1 : digit[i] = ByteOf(v, i)
  BY <1>5 DEF IsWritten, n
<1>11. \A i \in 0 .. n - 1 : ((u - B) \div Pow2[w * i]) % Pow2[w] = digit[i]
  <2>1. u \in Int /\ w \in Nat /\ n \in Nat
    BY <1>1, <1>4, <1>8
  <2>2. \A i \in 0 .. n - 1 : ((u - B) \div Pow2[w * i]) % Pow2[w] = (u \div Pow2[w * i]) % Pow2[w]
    BY <2>1, LowerDigitsWrapped
  <2> QED
    BY <1>8, <2>2
<1> HIDE DEF B
<1>12. Number(frame, f) \in TypeMin(f) .. TypeMax(f) /\ Number(frame, f) \in Int
  BY <1>4, <1>6, <1>7, <1>8
<1>13. \A i \in 0 .. n - 1 : digit[i] = ByteOf(Number(frame, f), i)
  <2> TAKE i \in 0 .. n - 1
  <2>1. CASE u > TypeMax(f)
    BY <1>6, <1>9, <1>11, <1>12, <2>1
  <2>2. CASE ~(u > TypeMax(f))
    BY <1>6, <1>8, <1>9, <1>12, <2>2
  <2> QED
    BY <2>1, <2>2
<1>14. ASSUME NEW v \in Int, IsWritten(frame, f, v) PROVE v = Number(frame, f)
  <2>1. v \in TypeMin(f) .. TypeMax(f) /\ \A i \in 0 .. n - 1 : digit[i] = ByteOf(v, i)
    BY <1>10, <1>14
  <2>2. u = v % B
    <3>1. w \in Nat /\ n \in Nat /\ \A i \in 0 .. n - 1 : digit[i] = (v \div Pow2[w * i]) % Pow2[w]
      BY <1>1, <1>9, <2>1
    <3> QED
      BY <3>1, DigitsComposed DEF u, B
  <2>3. CASE v >= 0
    <3>1. v \in 0 .. B - 1 /\ B \in Nat \ {0}
      BY <1>4, <1>7, <2>1, <2>3
    <3>2. v % B = v
      BY <3>1, SmallRemainder
    <3> QED
      BY <1>4, <1>6, <1>7, <2>1, <2>2, <3>2
  <2>4. CASE v < 0
    <3> DEFINE r == v + B
    <3>1. f.signed /\ r \in 0 .. B - 1 /\ B \in Nat \ {0} /\ -1 \in Int
      BY <1>4, <1>7, <2>1, <2>4
    <3>2. B * (-1) = -B /\ v = r - B
      BY <3>1
    <3> HIDE DEF r
    <3>3. v = B * (-1) + r
      BY <3>1, <3>2
    <3>4. v % B = r
      BY <3>1, <3>3, Quotient
    <3> QED
      BY <1>4, <1>6, <1>7, <2>1, <2>2, <3>1, <3>2, <3>4
  <2> QED
    BY <2>1, <2>3, <2>4
<1> QED
  BY <1>10, <1>12, <1>13, <1>14

(* The bits of the bytes are the bits of the number. *)
LEMMA BitOfByte ==
    ASSUME NEW frame \in Seq(Byte), NEW f, NEW v \in Int, IsWritten(frame, f, v),
           f.size \in Nat \ {0}, NEW i \in 0 .. f.size - 1, NEW k \in 0 .. Width - 1
    PROVE  Bit(ByteAt(frame, f, i), k) = Bit(v, Width * i + k)
<1>1. ByteAt(frame, f, i) = (v \div Pow2[Width * i]) % Pow2[Width]
  BY DEF IsWritten, ByteOf
<1>2. Width \in Nat /\ i \in Nat
  BY ManifestAssumption
<1>3. Bit(v, Width * i + k) = Bit((v \div Pow2[Width * i]) % Pow2[Width], k)
  BY <1>2, BitOfDigit
<1> QED
  BY <1>1, <1>3

(* Every bit of a number lies in one of its bytes. *)
LEMMA ByteOfBit ==
    ASSUME NEW f, f.size \in Nat \ {0}
    PROVE  /\ \A p \in 0 .. BitsOf(f) - 1 :
                  \E i \in 0 .. f.size - 1, k \in 0 .. Width - 1 : p = Width * i + k
           /\ \A i \in 0 .. f.size - 1, k \in 0 .. Width - 1 : Width * i + k \in 0 .. BitsOf(f) - 1
<1> DEFINE w == Width
<1> DEFINE n == f.size
<1>1. w \in Nat \ {0} /\ n \in Nat \ {0}
  BY ManifestAssumption
<1>2. BitsOf(f) = n * w
  BY DEF BitsOf
<1> HIDE DEF w, n
<1>3. n * w = w * n /\ w * n \in Nat
  BY <1>1
<1>4. ASSUME NEW p \in 0 .. w * n - 1
      PROVE  \E i \in 0 .. n - 1, k \in 0 .. w - 1 : p = w * i + k
  <2> DEFINE i == p \div w
  <2> DEFINE k == p % w
  <2>1. p \in Int
    BY <1>3
  <2>2. i \in Int /\ k \in 0 .. w - 1 /\ p = w * i + k
    BY <1>1, <2>1, Division
  <2> HIDE DEF i, k
  <2>3. i >= 0
    <3>1. CASE i <= -1
      <4>1. w * i <= -w
        BY <1>1, <2>2, <3>1
      <4> QED
        BY <1>1, <2>2, <4>1
    <3> QED
      BY <2>2, <3>1
  <2>4. i <= n - 1
    <3>1. CASE i >= n
      <4>1. w * i >= w * n
        BY <1>1, <2>2, <3>1
      <4> QED
        BY <1>1, <1>3, <2>2, <4>1
    <3> QED
      BY <1>1, <2>2, <3>1
  <2> QED
    BY <1>1, <2>2, <2>3, <2>4
<1>5. ASSUME NEW i \in 0 .. n - 1, NEW k \in 0 .. w - 1
      PROVE  w * i + k \in 0 .. w * n - 1
  <2>1. w * i \in Nat /\ w * i <= w * (n - 1)
    BY <1>1
  <2>2. w * (n - 1) = w * n - w
    BY <1>1
  <2> QED
    BY <1>1, <1>3, <2>1, <2>2
<1> QED
  BY <1>2, <1>3, <1>4, <1>5 DEF w, n

(* A bit is 0 or 1. *)
LEMMA BitType == ASSUME NEW v \in Int, NEW k \in Nat PROVE Bit(v, k) \in 0 .. 1
<1> DEFINE d == v \div Pow2[k]
<1>1. d \in Int
  BY Pow2Type, Division
<1> HIDE DEF d
<1>2. 2 \in Nat \ {0}
  OBVIOUS
<1>3. d % 2 \in 0 .. 2 - 1
  BY <1>1, <1>2, Division
<1> QED
  BY <1>3 DEF Bit, d

(* The shift of a mask is its lowest bit. *)
LEMMA LeastBit ==
    ASSUME NEW mask \in SUBSET Nat, mask # {}
    PROVE  Min(mask) \in mask /\ \A p \in mask : Min(mask) <= p
<1>1. \E x \in mask : \A y \in mask : x <= y
  BY LeastNumber
<1> QED
  BY <1>1 DEF Min

(* A bit field has the bits of its mask, shifted down to the lowest. *)
LEMMA BitsOfField ==
    ASSUME NEW f, NEW v \in Int, f.size \in Nat \ {0},
           NEW mask, mask # {}, mask \subseteq MaskBits(f), NEW p \in mask
    PROVE  Bit(BitValue(f, mask, v), p - Shift(mask)) = Bit(v, p)
<1> DEFINE n == BitsOf(f)
<1> DEFINE s == Shift(mask)
<1> DEFINE digit == [k \in 0 .. n - 1 |-> IF k + s \in mask THEN Bit(v, k + s) ELSE 0]
<1>1. n \in Nat \ {0}
  BY ManifestAssumption, Product DEF BitsOf
<1>2. mask \subseteq 0 .. n - 1
  BY <1>1 DEF MaskBits
<1>3. s \in mask /\ s <= p
  <2>1. mask \in SUBSET Nat
    BY <1>1, <1>2
  <2> QED
    BY <2>1, LeastBit DEF Shift
<1>4. BitValue(f, mask, v) = Composed(digit, 1, n)
  BY DEF BitValue
<1> DEFINE k == p - s
<1> HIDE DEF n, s
<1>5. k \in 0 .. n - 1 /\ k + s = p
  BY <1>1, <1>2, <1>3
<1>6. \A i \in 0 .. n - 1 : digit[i] \in 0 .. 1
  <2> TAKE i \in 0 .. n - 1
  <2>1. i + s \in Nat
    BY <1>1, <1>2, <1>3
  <2>2. Bit(v, i + s) \in 0 .. 1
    BY <2>1, BitType
  <2> QED
    BY <2>2
<1> HIDE DEF k
<1>7. digit[k] = Bit(v, p)
  BY <1>5
<1> HIDE DEF digit
<1>8. Pow2[1] = 2
  <2>1. Pow2[0 + 1] = 2 * Pow2[0] /\ Pow2[0] = 1
    BY Pow2Step
  <2> QED
    BY <2>1
<1>9. (Composed(digit, 1, n) \div Pow2[1 * k]) % Pow2[1] = digit[k]
  <2>1. 1 \in Nat /\ n \in Nat /\ \A i \in 0 .. n - 1 : digit[i] \in 0 .. Pow2[1] - 1
    BY <1>1, <1>6, <1>8
  <2> QED
    BY <1>5, <2>1, DigitsRead
<1>10. 1 * k = k
  BY <1>5
<1> QED
  BY <1>4, <1>7, <1>8, <1>9, <1>10 DEF Bit, k, s

----------------------------------------------------------------------------
(* What is kept of a field that has been read. *)

FieldNames(f) == Range(LogicalNames(f))

(* What is kept of a field that has been read, and what is known of one that *)
(* decode_telemetry has let through.                                         *)
Kept(r, frame, f) ==
    /\ FieldNames(f) \subseteq DOMAIN r.raw \cap DOMAIN r.values
    /\ ~Fixed(f) => f.from \in DOMAIN r.raw
    /\ Extent(r, f) \in Nat /\ f.offset + Extent(r, f) <= Len(frame)
    /\ IF HasBits(f)
       THEN \A b \in Range(f.bits) : r.raw[b.name] = BitValue(f, b.mask, Number(frame, f))
       ELSE r.raw[f.name] = Read(r, frame, f)
Judged(r, frame, f) ==
    /\ Legal(frame, f)
    /\ IsNumber(f) /\ ~HasBits(f) => (r.values[f.name] = NoValue <=> r.raw[f.name] = f.novalue)

(* The names a field has, and that those of two fields differ. *)
LEMMA NamesOfField ==
    ASSUME NEW f
    PROVE  /\ HasBits(f) => FieldNames(f) = {b.name : b \in Range(f.bits)}
           /\ ~HasBits(f) => FieldNames(f) = {f.name}
<1>1. CASE HasBits(f)
  BY <1>1 DEF FieldNames, LogicalNames, Range
<1>2. CASE ~HasBits(f)
  <2>1. LogicalNames(f) = <<f.name>>
    BY <1>2 DEF LogicalNames
  <2>2. DOMAIN <<f.name>> = {1} /\ <<f.name>>[1] = f.name
    OBVIOUS
  <2> QED
    BY <1>2, <2>1, <2>2 DEF FieldNames, Range
<1> QED
  BY <1>1, <1>2

LEMMA NamesOfFields ==
    ASSUME NEW fields, NamesDiffer(fields)
    PROVE  /\ \A i, j \in DOMAIN fields :
                  i # j => FieldNames(fields[i]) \cap FieldNames(fields[j]) = {}
           /\ \A i \in DOMAIN fields : HasBits(fields[i]) =>
                  \A b, c \in Range(fields[i].bits) : b.name = c.name => b = c
<1>1. ASSUME NEW i \in DOMAIN fields, NEW j \in DOMAIN fields, i # j,
             NEW n, n \in FieldNames(fields[i]), n \in FieldNames(fields[j])
      PROVE  FALSE
  <2>1. PICK a \in DOMAIN LogicalNames(fields[i]) : LogicalNames(fields[i])[a] = n
    BY <1>1 DEF FieldNames, Range
  <2>2. PICK b \in DOMAIN LogicalNames(fields[j]) : LogicalNames(fields[j])[b] = n
    BY <1>1 DEF FieldNames, Range
  <2> QED
    BY <1>1, <2>1, <2>2 DEF NamesDiffer
<1>2. ASSUME NEW i \in DOMAIN fields, HasBits(fields[i]),
             NEW b \in Range(fields[i].bits), NEW c \in Range(fields[i].bits), b.name = c.name
      PROVE  b = c
  <2> DEFINE f == fields[i]
  <2>1. PICK k \in DOMAIN f.bits : f.bits[k] = b
    BY DEF Range
  <2>2. PICK l \in DOMAIN f.bits : f.bits[l] = c
    BY DEF Range
  <2>3. LogicalNames(f) = [x \in DOMAIN f.bits |-> f.bits[x].name]
    BY <1>2 DEF LogicalNames
  <2>4. DOMAIN LogicalNames(f) = DOMAIN f.bits
    BY <2>3
  <2>5. LogicalNames(f)[k] = LogicalNames(f)[l]
    BY <1>2, <2>1, <2>2, <2>3
  <2>6. k = l
    BY <2>4, <2>5 DEF NamesDiffer
  <2> QED
    BY <2>1, <2>2, <2>6
<1> QED
  BY <1>1, <1>2

(* Storing a field keeps what has other names. *)
LEMMA Stored ==
    ASSUME NEW r, NEW s, NEW newraw, NEW newvalues, s = Store(r, newraw, newvalues)
    PROVE  /\ s = [code |-> r.code, raw |-> s.raw, values |-> s.values]
           /\ DOMAIN s.raw = DOMAIN r.raw \cup DOMAIN newraw
           /\ DOMAIN s.values = DOMAIN r.values \cup DOMAIN newvalues
           /\ \A n \in DOMAIN newraw : s.raw[n] = newraw[n]
           /\ \A n \in DOMAIN r.raw : n \notin DOMAIN newraw => s.raw[n] = r.raw[n]
           /\ \A n \in DOMAIN newvalues : s.values[n] = newvalues[n]
           /\ \A n \in DOMAIN r.values : n \notin DOMAIN newvalues => s.values[n] = r.values[n]
<1>1. /\ s = [code |-> r.code, raw |-> s.raw, values |-> s.values]
      /\ s.raw = With(r.raw, newraw) /\ s.values = With(r.values, newvalues)
  BY DEF Store
<1>2. /\ DOMAIN s.raw = DOMAIN r.raw \cup DOMAIN newraw
      /\ \A n \in DOMAIN newraw : s.raw[n] = newraw[n]
      /\ \A n \in DOMAIN r.raw : n \notin DOMAIN newraw => s.raw[n] = r.raw[n]
  BY <1>1 DEF With
<1>3. /\ DOMAIN s.values = DOMAIN r.values \cup DOMAIN newvalues
      /\ \A n \in DOMAIN newvalues : s.values[n] = newvalues[n]
      /\ \A n \in DOMAIN r.values : n \notin DOMAIN newvalues => s.values[n] = r.values[n]
  BY <1>1 DEF With
<1> QED
  BY <1>1, <1>2, <1>3

(* What is kept of the fields before stays when a field of other names is stored. *)
LEMMA FieldsBeforeKept ==
    ASSUME NEW r, NEW s, NEW frame, NEW f, NEW new, Kept(r, frame, f),
           FieldNames(f) \cap new = {}, ~Fixed(f) => f.from \notin new,
           DOMAIN r.raw \subseteq DOMAIN s.raw, DOMAIN r.values \subseteq DOMAIN s.values,
           \A n \in DOMAIN r.raw : n \notin new => s.raw[n] = r.raw[n],
           \A n \in DOMAIN r.values : n \notin new => s.values[n] = r.values[n]
    PROVE  Kept(s, frame, f) /\ (Judged(r, frame, f) => Judged(s, frame, f))
<1>1. ~Fixed(f) => s.raw[f.from] = r.raw[f.from] /\ f.from \in DOMAIN s.raw
  BY DEF Kept
<1>2. Length(s, f) = Length(r, f) \/ IsNumber(f)
  BY <1>1 DEF Length, Fixed
<1>3. Extent(s, f) = Extent(r, f) /\ Read(s, frame, f) = Read(r, frame, f)
  BY <1>2 DEF Extent, Read
<1>4. \A n \in FieldNames(f) : /\ n \in DOMAIN r.raw /\ n \in DOMAIN r.values
                               /\ s.raw[n] = r.raw[n] /\ s.values[n] = r.values[n]
  BY DEF Kept
<1>5. CASE HasBits(f)
  <2>1. \A b \in Range(f.bits) : s.raw[b.name] = r.raw[b.name]
    BY <1>4, <1>5, NamesOfField
  <2> QED
    BY <1>1, <1>3, <1>4, <1>5, <2>1 DEF Kept, Judged
<1>6. CASE ~HasBits(f)
  <2>1. s.raw[f.name] = r.raw[f.name] /\ s.values[f.name] = r.values[f.name]
    BY <1>4, <1>6, NamesOfField
  <2> QED
    BY <1>1, <1>3, <1>4, <1>6, <2>1 DEF Kept, Judged
<1> QED
  BY <1>5, <1>6

----------------------------------------------------------------------------
(* One step of decode_telemetry, and one of decode_stream. *)

Errors == {"invalid_value", "wrong_length"}
Refusal(s) == \E code \in Errors : s = Failed(code)

(* The size of a field of a profile does not depend on what has been read. *)
LEMMA FixedExtent ==
    ASSUME NEW f, NEW r, FieldWellFormed(f), Fixed(f)
    PROVE  Extent(r, f) = Wide(f) /\ Wide(f) \in Nat
BY DEF FieldWellFormed, Fixed, Extent, Wide, Length

(* The bit fields of a number that has no bit but theirs. *)
LEMMA BitsKept ==
    ASSUME NEW r, NEW s, NEW frame \in Seq(Byte), NEW f,
           FieldWellFormed(f), HasBits(f), f.offset + f.size <= Len(frame),
           \A b, c \in Range(f.bits) : b.name = c.name => b = c,
           s = WithBits(r, f, Number(frame, f))
    PROVE  \/ Refusal(s) /\ ~Legal(frame, f)
           \/ /\ Kept(s, frame, f) /\ Judged(s, frame, f)
              /\ \E read : DOMAIN read = FieldNames(f) /\ s = Store(r, read, read)
<1> DEFINE v == Number(frame, f)
<1>1. IsNumber(f) /\ f.offset \in Nat /\ f.size \in Nat \ {0} /\ f.signed \in BOOLEAN
  BY DEF HasBits, FieldWellFormed
<1>2. v \in Int /\ IsWritten(frame, f, v)
  BY <1>1, NumberIsWritten
<1> HIDE DEF v
<1>3. \A i \in 0 .. f.size - 1, k \in 0 .. Width - 1 :
          Bit(ByteAt(frame, f, i), k) = Bit(v, Width * i + k)
  BY <1>1, <1>2, BitOfByte
<1>4. Reserved(f, v) => ~Legal(frame, f)
  <2> SUFFICES ASSUME NEW p \in 0 .. BitsOf(f) - 1, Bit(v, p) = 1, p \notin Covered(f)
               PROVE  ~Legal(frame, f)
    BY DEF Reserved
  <2>1. PICK i \in 0 .. f.size - 1, k \in 0 .. Width - 1 : p = Width * i + k
    BY <1>1, ByteOfBit
  <2>2. Bit(ByteAt(frame, f, i), k) = 1 /\ Width * i + k \notin Covered(f)
    BY <1>3, <2>1
  <2> QED
    BY <2>2 DEF Legal
<1>5. ASSUME ~Reserved(f, v) PROVE Legal(frame, f)
  <2>1. ASSUME NEW i \in 0 .. f.size - 1, NEW k \in 0 .. Width - 1,
               Bit(ByteAt(frame, f, i), k) = 1
        PROVE  Width * i + k \in Covered(f)
    <3>1. Width * i + k \in 0 .. BitsOf(f) - 1
      BY <1>1, ByteOfBit
    <3>2. Bit(v, Width * i + k) = 1
      BY <1>3, <2>1
    <3> QED
      BY <1>5, <3>1, <3>2 DEF Reserved
  <2>2. f.offset + Wide(f) <= Len(frame)
    BY <1>1 DEF Wide
  <2> QED
    BY <2>1, <2>2 DEF Legal
<1>6. CASE Reserved(f, v)
  <2>1. s = Failed("invalid_value")
    BY <1>6 DEF WithBits, v
  <2> QED
    BY <1>4, <1>6, <2>1 DEF Refusal, Errors
<1>7. CASE ~Reserved(f, v)
  <2> DEFINE mask(n) == (CHOOSE b \in Range(f.bits) : b.name = n).mask
  <2> DEFINE read == [n \in Range(LogicalNames(f)) |-> BitValue(f, mask(n), v)]
  <2>1. s = Store(r, read, read)
    BY <1>7 DEF WithBits, v
  <2>2. DOMAIN read = FieldNames(f)
    BY DEF FieldNames
  <2>3. ASSUME NEW b \in Range(f.bits) PROVE read[b.name] = BitValue(f, b.mask, v)
    <3>1. b.name \in Range(LogicalNames(f))
      BY NamesOfField DEF FieldNames
    <3>2. (CHOOSE c \in Range(f.bits) : c.name = b.name) = b
      OBVIOUS
    <3> QED
      BY <3>1, <3>2
  <2> HIDE DEF read
  <2>4. /\ FieldNames(f) \subseteq DOMAIN s.raw \cap DOMAIN s.values
        /\ \A n \in FieldNames(f) : s.raw[n] = read[n]
    BY <2>1, <2>2, Stored
  <2>5. \A b \in Range(f.bits) : b.name \in FieldNames(f)
    BY NamesOfField
  <2>6. \A b \in Range(f.bits) : s.raw[b.name] = BitValue(f, b.mask, v)
    BY <2>3, <2>4, <2>5
  <2>7. Kept(s, frame, f)
    <3>1. Extent(s, f) = f.size /\ Fixed(f)
      BY <1>1 DEF Extent, Fixed
    <3> QED
      BY <1>1, <2>4, <2>6, <3>1 DEF Kept, v
  <2>8. Judged(s, frame, f)
    BY <1>5, <1>7 DEF Judged
  <2> QED
    BY <2>1, <2>2, <2>7, <2>8
<1> QED
  BY <1>6, <1>7

(* A number without bit fields, or a string, as decode_telemetry stores it. *)
LEMMA ValueKept ==
    ASSUME NEW r, NEW s, NEW frame \in Seq(Byte), NEW f,
           FieldWellFormed(f), Fixed(f), ~HasBits(f), f.offset + Wide(f) <= Len(frame),
           s = WithValue(r, f, Read(r, frame, f))
    PROVE  \/ Refusal(s) /\ ~Legal(frame, f)
           \/ /\ Kept(s, frame, f) /\ Judged(s, frame, f)
              /\ \E read, value : /\ DOMAIN read = FieldNames(f) /\ DOMAIN value = FieldNames(f)
                                  /\ s = Store(r, read, value)
<1> DEFINE v == Read(r, frame, f)
<1>1. f.offset \in Nat /\ Wide(f) \in Nat
  BY FixedExtent DEF FieldWellFormed
<1>2. ASSUME IsNumber(f)
      PROVE  /\ v \in Int /\ v \in TypeMin(f) .. TypeMax(f) /\ IsWritten(frame, f, v)
             /\ \A u \in Int : IsWritten(frame, f, u) => u = v
  <2>1. f.size \in Nat \ {0} /\ f.signed \in BOOLEAN /\ f.offset + f.size <= Len(frame)
    BY <1>2 DEF FieldWellFormed, Wide
  <2>2. v = Number(frame, f)
    BY <1>2 DEF Read
  <2> QED
    BY <1>1, <2>1, <2>2, NumberIsWritten DEF IsWritten
<1>3. FieldNames(f) = {f.name}
  BY NamesOfField
<1>4. \A raw : DOMAIN Named(f, raw) = FieldNames(f) /\ Named(f, raw)[f.name] = raw
  BY <1>3 DEF Named
<1>5. ASSUME NEW value, s = Store(r, Named(f, v), Named(f, value))
      PROVE  /\ Kept(s, frame, f) /\ s.raw[f.name] = v /\ s.values[f.name] = value
             /\ \E read, new : /\ DOMAIN read = FieldNames(f) /\ DOMAIN new = FieldNames(f)
                               /\ s = Store(r, read, new)
  <2> DEFINE read == Named(f, v)
  <2> DEFINE new == Named(f, value)
  <2>1. /\ DOMAIN read = FieldNames(f) /\ read[f.name] = v
        /\ DOMAIN new = FieldNames(f) /\ new[f.name] = value
    BY <1>4
  <2>2. s = Store(r, read, new)
    BY <1>5
  <2> HIDE DEF read, new, v
  <2>3. /\ FieldNames(f) \subseteq DOMAIN s.raw \cap DOMAIN s.values
        /\ s.raw[f.name] = v /\ s.values[f.name] = value
    BY <1>3, <2>1, <2>2, Stored
  <2>4. Extent(s, f) = Wide(f) /\ Read(s, frame, f) = v
    BY FixedExtent DEF Read, Length, Fixed, v
  <2>5. Kept(s, frame, f)
    BY <1>1, <2>3, <2>4 DEF Kept
  <2> QED
    BY <2>1, <2>2, <2>3, <2>5
<1> HIDE DEF v
<1>6. IsNumber(f) => (Legal(frame, f) <=> v = f.novalue \/ v \in f.allowed)
  BY <1>2 DEF Legal
<1>7. ~IsNumber(f) => Legal(frame, f)
  BY DEF Legal, HasBits
<1>8. CASE IsNumber(f) /\ v = f.novalue
  <2>1. s = Store(r, Named(f, v), Named(f, NoValue))
    BY <1>8 DEF WithValue, v
  <2> QED
    BY <1>5, <1>6, <1>8, <2>1 DEF Judged
<1>9. CASE IsNumber(f) /\ v # f.novalue /\ v \notin f.allowed
  <2>1. s = Failed("invalid_value")
    BY <1>9 DEF WithValue, v
  <2> QED
    BY <1>6, <1>9, <2>1 DEF Refusal, Errors
<1>10. CASE ~(IsNumber(f) /\ v = f.novalue) /\ ~(IsNumber(f) /\ v \notin f.allowed)
  <2>1. s = Store(r, Named(f, v), Named(f, v))
    BY <1>10 DEF WithValue, v
  <2>2. IsNumber(f) => v # NoValue
    BY <1>2, ManifestAssumption
  <2> QED
    BY <1>5, <1>6, <1>7, <1>10, <2>1, <2>2 DEF Judged
<1> QED
  BY <1>8, <1>9, <1>10

(* A step of decode_telemetry refuses a field that is not legal, and only that. *)
LEMMA TelemetryStep ==
    ASSUME NEW r, NEW s, NEW frame \in Seq(Byte), NEW f,
           FieldWellFormed(f), Fixed(f),
           HasBits(f) => \A b, c \in Range(f.bits) : b.name = c.name => b = c,
           s = TelemetryField(r, frame, f)
    PROVE  \/ Refusal(s) /\ ~Legal(frame, f)
           \/ /\ Kept(s, frame, f) /\ Judged(s, frame, f)
              /\ \E read, value : /\ DOMAIN read = FieldNames(f) /\ DOMAIN value = FieldNames(f)
                                  /\ s = Store(r, read, value)
<1>1. ~Unsized(r, f) /\ f.offset \in Nat /\ Wide(f) \in Nat /\ Extent(r, f) = Wide(f)
  BY FixedExtent DEF Unsized, FieldWellFormed
<1>2. CASE Missing(r, frame, f)
  <2>1. s = Failed("wrong_length")
    BY <1>1, <1>2 DEF TelemetryField
  <2>2. ~(f.offset + Wide(f) <= Len(frame))
    BY <1>1, <1>2 DEF Missing
  <2> QED
    BY <2>1, <2>2 DEF Refusal, Errors, Legal
<1>3. CASE ~Missing(r, frame, f) /\ HasBits(f)
  <2>1. s = WithBits(r, f, Number(frame, f))
    BY <1>1, <1>3 DEF TelemetryField, Read, HasBits
  <2>2. f.offset + f.size <= Len(frame)
    BY <1>1, <1>3 DEF Missing, Wide, HasBits
  <2> QED
    BY <1>3, <2>1, <2>2, BitsKept
<1>4. CASE ~Missing(r, frame, f) /\ ~HasBits(f)
  <2>1. s = WithValue(r, f, Read(r, frame, f))
    BY <1>1, <1>4 DEF TelemetryField
  <2>2. f.offset + Wide(f) <= Len(frame)
    BY <1>1, <1>4 DEF Missing
  <2> QED
    BY <1>4, <2>1, <2>2, ValueKept
<1> QED
  BY <1>2, <1>3, <1>4

(* The length of a string is known when the string is read. *)
LengthRead(r, f) ==
    ~Fixed(f) => f.from # f.name /\ f.from \in DOMAIN r.raw /\ r.raw[f.from] \in Int

(* A step of decode_stream. *)
LEMMA StreamStep ==
    ASSUME NEW r, NEW s, NEW frame \in Seq(Byte), NEW f,
           FieldWellFormed(f), ~HasBits(f), LengthRead(r, f),
           s = StreamField(r, frame, f)
    PROVE  \/ Refusal(s)
           \/ /\ Kept(s, frame, f)
              /\ \E read : DOMAIN read = FieldNames(f) /\ s = Store(r, read, read)
<1>1. ~Unsized(r, f) /\ f.offset \in Nat /\ Extent(r, f) \in Int
  BY DEF LengthRead, Unsized, FieldWellFormed, Extent, Length, Fixed
<1>2. CASE Missing(r, frame, f)
  <2>1. s = Failed("wrong_length")
    BY <1>1, <1>2 DEF StreamField
  <2> QED
    BY <2>1 DEF Refusal, Errors
<1>3. CASE ~Missing(r, frame, f)
  <2> DEFINE v == Read(r, frame, f)
  <2> DEFINE read == Named(f, v)
  <2>1. s = Store(r, read, read)
    BY <1>1, <1>3 DEF StreamField
  <2>2. FieldNames(f) = {f.name}
    BY NamesOfField
  <2>3. DOMAIN read = FieldNames(f) /\ read[f.name] = v
    BY <2>2 DEF Named
  <2> HIDE DEF read, v
  <2>4. /\ FieldNames(f) \subseteq DOMAIN s.raw \cap DOMAIN s.values
        /\ s.raw[f.name] = v
        /\ \A n \in DOMAIN r.raw : n \in DOMAIN s.raw /\ (n # f.name => s.raw[n] = r.raw[n])
    BY <2>1, <2>2, <2>3, Stored
  <2>5. ~Fixed(f) => f.from \in DOMAIN s.raw /\ s.raw[f.from] = r.raw[f.from]
    BY <2>4 DEF LengthRead
  <2>6. Length(s, f) = Length(r, f) \/ IsNumber(f)
    BY <2>5 DEF Length, Fixed
  <2>7. Extent(s, f) = Extent(r, f) /\ Read(s, frame, f) = v
    BY <2>6 DEF Extent, Read, v
  <2>8. Extent(r, f) \in Nat /\ f.offset + Extent(r, f) <= Len(frame)
    BY <1>1, <1>3 DEF Missing
  <2>9. Kept(s, frame, f)
    BY <2>4, <2>5, <2>7, <2>8 DEF Kept
  <2> QED
    BY <2>1, <2>3, <2>9
<1> QED
  BY <1>2, <1>3

(* What is kept of a field tells its bytes. *)
LEMMA KeptTells ==
    ASSUME NEW f, FieldWellFormed(f), BitsValid(f), input.frame \in Seq(Byte),
           Kept(result, input.frame, f), HasBits(f) => Legal(input.frame, f)
    PROVE  /\ Tells(f)
           /\ EndOf(f) = f.offset + Extent(result, f)
<1> DEFINE frame == input.frame
<1> DEFINE v == Number(frame, f)
<1>1. f.offset \in Nat /\ Extent(result, f) \in Nat /\ f.offset + Extent(result, f) <= Len(frame)
  BY DEF Kept, FieldWellFormed
<1>2. ASSUME IsNumber(f)
      PROVE  v \in Int /\ IsWritten(frame, f, v) /\ f.size \in Nat \ {0}
  <2>1. f.size \in Nat \ {0} /\ f.signed \in BOOLEAN /\ f.offset + f.size <= Len(frame)
    BY <1>1, <1>2 DEF FieldWellFormed, Extent
  <2> QED
    BY <1>1, <2>1, NumberIsWritten
<1> HIDE DEF v
<1>3. CASE HasBits(f)
  <2>1. IsNumber(f) /\ v \in Int /\ IsWritten(frame, f, v) /\ f.size \in Nat \ {0}
    BY <1>2, <1>3 DEF HasBits
  <2>2. ASSUME NEW i \in 0 .. f.size - 1, NEW k \in 0 .. Width - 1
        PROVE  Bit(ByteAt(frame, f, i), k) = 1 <=> HasBit(f, Width * i + k)
    <3> DEFINE p == Width * i + k
    <3>1. Bit(ByteAt(frame, f, i), k) = Bit(v, p)
      BY <2>1, BitOfByte
    <3>2. Bit(ByteAt(frame, f, i), k) = 1 => p \in Covered(f)
      BY <1>3 DEF Legal
    <3> HIDE DEF p
    <3>3. ASSUME NEW b \in Range(f.bits), p \in b.mask
          PROVE  Bit(result.raw[b.name], p - Shift(b.mask)) = Bit(v, p)
      <4>1. result.raw[b.name] = BitValue(f, b.mask, v)
        BY <1>3 DEF Kept, v
      <4>2. b.mask # {} /\ b.mask \subseteq MaskBits(f)
        BY <1>3 DEF BitsValid, Range
      <4> QED
        BY <2>1, <3>3, <4>1, <4>2, BitsOfField
    <3>4. HasBit(f, p) => Bit(v, p) = 1
      BY <3>3 DEF HasBit
    <3>5. p \in Covered(f) /\ Bit(v, p) = 1 => HasBit(f, p)
      BY <3>3 DEF HasBit, Covered
    <3> QED
      BY <3>1, <3>2, <3>4, <3>5 DEF p
  <2>3. Tells(f)
    BY <1>3, <2>2 DEF Tells
  <2> QED
    BY <2>1, <2>3 DEF EndOf, Extent
<1>4. CASE ~HasBits(f) /\ IsNumber(f)
  <2>1. result.raw[f.name] = v
    BY <1>4 DEF Kept, Read, v
  <2> QED
    BY <1>2, <1>4, <2>1 DEF Tells, EndOf, Extent
<1>5. CASE ~IsNumber(f)
  <2> DEFINE n == Extent(result, f)
  <2> DEFINE raw == SubSeq(frame, f.offset + 1, f.offset + n)
  <2>1. ~HasBits(f)
    BY <1>5 DEF HasBits
  <2>2. result.raw[f.name] = raw
    BY <1>5, <2>1 DEF Kept, Read, Extent
  <2>3. Len(raw) = n
    <3> DEFINE a == f.offset + 1
    <3> DEFINE b == f.offset + n
    <3>1. a \in Int /\ b \in Int /\ a <= b + 1 /\ b - a + 1 = n
      BY <1>1
    <3>2. \A i \in a .. b : frame[i] \in Byte
      BY <1>1
    <3> HIDE DEF a, b
    <3>3. Len(SubSeq(frame, a, b)) = IF a <= b THEN b - a + 1 ELSE 0
      BY <3>1, <3>2, SubSeqProperties
    <3> QED
      BY <1>1, <3>1, <3>3 DEF a, b
  <2> QED
    BY <1>5, <2>1, <2>2, <2>3 DEF Tells, EndOf
<1> QED
  BY <1>3, <1>4, <1>5

----------------------------------------------------------------------------
(* The inductive invariant. *)

InputType ==
    input \in [profile : Manifest, frame : Frame] \cup [profile : {NoProfile}, frame : Datagram]
IsRecord == result = [code |-> result.code, raw |-> result.raw, values |-> result.values]
Started ==
    IF IsTelemetry
    THEN /\ Len(input.frame) = input.profile.size
         /\ input.frame # <<>> /\ Head(input.frame) = Header
    ELSE Known(input.frame) # {}
FieldsKept ==
    \A i \in 1 .. at : /\ Kept(result, input.frame, Layout[i])
                       /\ IsTelemetry => Judged(result, input.frame, Layout[i])
Accepted ==
    /\ at = Len(Layout)
    /\ ~IsTelemetry => ~WrongSize(MessageOf(input.frame), input.frame, result)

DecodeInvariant ==
    /\ InputType /\ IsRecord
    /\ at \in 0 .. Len(Layout)
    /\ result.code = "waiting" => at = 0
    /\ result.code \in {"reading", "ok"} => Started /\ FieldsKept
    /\ Decoded => Accepted
    /\ Refused /\ IsTelemetry => ~Acceptable(input.profile, input.frame)

(* What the manifest says of the fields of the input. *)
LEMMA FieldsOfInput ==
    ASSUME InputType
    PROVE  /\ input.frame \in Seq(Byte)
           /\ Len(Layout) \in Nat /\ DOMAIN Layout = 1 .. Len(Layout)
           /\ \A i \in 1 .. Len(Layout) : FieldWellFormed(Layout[i]) /\ BitsValid(Layout[i])
           /\ NamesDiffer(Layout)
           /\ IsTelemetry => /\ Layout = input.profile.fields
                             /\ \A i \in 1 .. Len(Layout) : Fixed(Layout[i])
           /\ ~IsTelemetry => /\ \A i \in 1 .. Len(Layout) : ~HasBits(Layout[i])
                              /\ LengthsKnown(Layout)
           /\ ~IsTelemetry /\ Known(input.frame) # {} =>
                  /\ MessageOf(input.frame) \in Message
                  /\ Layout = MessageOf(input.frame).fields
<1>1. input.frame \in Seq(Byte)
  BY ManifestAssumption DEF InputType
<1>2. CASE IsTelemetry
  <2> DEFINE p == input.profile
  <2>1. p \in Profile /\ ProfileValid(p) /\ Layout = p.fields
    BY <1>2 DEF InputType, IsTelemetry, Manifest, Layout
  <2>2. DOMAIN p.fields = 1 .. Len(p.fields) /\ Len(p.fields) \in Nat
    BY <2>1, ManifestAssumption
  <2>3. \A i \in 1 .. Len(p.fields) : FieldWellFormed(p.fields[i]) /\ Fixed(p.fields[i])
    BY <2>1, <2>2, ManifestAssumption DEF Range
  <2>4. NamesDiffer(p.fields) /\ \A i \in 1 .. Len(p.fields) : BitsValid(p.fields[i])
    BY <2>1, <2>2 DEF ProfileValid, BitsOnly
  <2> QED
    BY <1>1, <1>2, <2>1, <2>2, <2>3, <2>4
<1>3. CASE ~IsTelemetry /\ Known(input.frame) # {}
  <2> DEFINE m == MessageOf(input.frame)
  <2>1. m \in Message /\ Layout = m.fields
    BY <1>3 DEF MessageOf, Known, Layout
  <2> HIDE DEF m
  <2>2. DOMAIN m.fields = 1 .. Len(m.fields) /\ Len(m.fields) \in Nat
    BY <2>1, ManifestAssumption
  <2>3. \A i \in 1 .. Len(m.fields) : FieldWellFormed(m.fields[i]) /\ ~HasBits(m.fields[i])
    BY <2>1, <2>2, ManifestAssumption DEF Range
  <2>4. LengthsKnown(m.fields) /\ NamesDiffer(m.fields)
    BY <2>1, ManifestAssumption
  <2> QED
    BY <1>1, <1>3, <2>1, <2>2, <2>3, <2>4 DEF BitsValid, m
<1>4. CASE ~IsTelemetry /\ Known(input.frame) = {}
  <2>1. Layout = <<>>
    BY <1>4 DEF Layout
  <2>2. Len(<<>>) = 0 /\ DOMAIN <<>> = 1 .. 0
    OBVIOUS
  <2> QED
    BY <1>1, <1>4, <2>1, <2>2 DEF NamesDiffer, LengthsKnown
<1> QED
  BY <1>2, <1>3, <1>4

----------------------------------------------------------------------------
(* Every step keeps the invariant. *)

(* One lemma for the initial states and one for each action. *)
LEMMA InitInvariant == Init => DecodeInvariant
<1> SUFFICES ASSUME Init PROVE DecodeInvariant
  OBVIOUS
<1>1. InputType /\ IsRecord /\ result.code = "waiting" /\ at = 0
  BY DEF Init, InputType, IsRecord, Failed, Empty
<1>2. Len(Layout) \in Nat
  BY <1>1, FieldsOfInput
<1> QED
  BY <1>1, <1>2 DEF DecodeInvariant, Decoded, Refused

LEMMA BeginKeeps == DecodeInvariant /\ Begin => DecodeInvariant'
<1> SUFFICES ASSUME DecodeInvariant, Begin PROVE DecodeInvariant'
  OBVIOUS
<1> USE DEF Begin
<1>1. /\ InputType' /\ at' = 0 /\ (at \in 0 .. Len(Layout))'
      /\ IsTelemetry' = IsTelemetry /\ Layout' = Layout
  BY DEF DecodeInvariant, InputType, IsTelemetry, Layout
<1>2. ASSUME NEW code \in {"wrong_header", "wrong_length", "unsupported_version", "unknown"},
             result' = Failed(code), IsTelemetry => ~Acceptable(input.profile, input.frame)
      PROVE  DecodeInvariant'
  <2>1. result'.code = code /\ IsRecord'
    BY <1>2 DEF Failed, Empty, IsRecord
  <2> QED
    BY <1>1, <1>2, <2>1 DEF DecodeInvariant, Decoded, Refused, IsTelemetry
<1>3. ASSUME result' = Empty, Started
      PROVE  DecodeInvariant'
  <2>1. result'.code = "reading" /\ IsRecord'
    BY <1>3 DEF Empty, IsRecord
  <2>2. Started' /\ FieldsKept'
    BY <1>1, <1>3 DEF Started, FieldsKept
  <2> QED
    BY <1>1, <2>1, <2>2 DEF DecodeInvariant, Decoded, Refused
<1>4. CASE IsTelemetry
  <2>1. result' = Telemetry(input.profile, input.frame)
    BY <1>4
  <2>2. CASE input.frame = <<>> \/ Head(input.frame) # Header
    BY <1>2, <2>1, <2>2 DEF Telemetry, Acceptable
  <2>3. CASE input.frame # <<>> /\ Head(input.frame) = Header /\ Len(input.frame) # input.profile.size
    BY <1>2, <2>1, <2>3 DEF Telemetry, Acceptable
  <2>4. CASE input.frame # <<>> /\ Head(input.frame) = Header /\ Len(input.frame) = input.profile.size
    BY <1>3, <1>4, <2>1, <2>4 DEF Telemetry, Started
  <2> QED
    BY <2>2, <2>3, <2>4
<1>5. CASE ~IsTelemetry
  <2>1. result' = Stream(input.frame)
    BY <1>5
  <2>2. CASE Len(input.frame) >= Prefix /\ input.frame[1] = Version /\ Known(input.frame) # {}
    BY <1>2, <1>3, <1>5, <2>1, <2>2 DEF Stream, Started
  <2>3. CASE ~(Len(input.frame) >= Prefix /\ input.frame[1] = Version /\ Known(input.frame) # {})
    <3>1. \E code \in {"wrong_length", "unsupported_version", "unknown"} : result' = Failed(code)
      BY <2>1, <2>3, FieldsOfInput DEF Stream, Prefix, DecodeInvariant
    <3> QED
      BY <1>2, <1>5, <3>1
  <2> QED
    BY <2>2, <2>3
<1> QED
  BY <1>4, <1>5

LEMMA ReadFieldKeeps == DecodeInvariant /\ ReadField => DecodeInvariant'
<1> SUFFICES ASSUME DecodeInvariant, ReadField PROVE DecodeInvariant'
  OBVIOUS
<1> DEFINE frame == input.frame
<1> DEFINE n == at + 1
<1> DEFINE f == Layout[n]
<1> DEFINE new == FieldNames(f)
<1> DEFINE s == result'
<1>1. /\ InputType' /\ at' = n /\ n \in 1 .. Len(Layout) /\ input' = input
      /\ IsTelemetry' = IsTelemetry /\ Layout' = Layout /\ result.code = "reading"
      /\ at \in Nat /\ Started /\ FieldsKept
  BY FieldsOfInput DEF ReadField, DecodeInvariant, InputType, IsTelemetry, Layout
<1>2. /\ frame \in Seq(Byte) /\ DOMAIN Layout = 1 .. Len(Layout) /\ NamesDiffer(Layout)
      /\ FieldWellFormed(f) /\ BitsValid(f)
      /\ IsTelemetry => Layout = input.profile.fields /\ Fixed(f)
      /\ ~IsTelemetry => ~HasBits(f) /\ LengthsKnown(Layout)
  BY <1>1, FieldsOfInput DEF DecodeInvariant
<1>3. HasBits(f) => \A b, c \in Range(f.bits) : b.name = c.name => b = c
  BY <1>1, <1>2, NamesOfFields
<1>4. \A i \in 1 .. at : Kept(result, frame, Layout[i]) /\ FieldNames(Layout[i]) \cap new = {}
  <2> TAKE i \in 1 .. at
  <2>1. i \in DOMAIN Layout /\ n \in DOMAIN Layout /\ i # n
    BY <1>1, <1>2
  <2> QED
    BY <1>1, <1>2, <2>1, NamesOfFields DEF FieldsKept
<1>5. \A i \in 1 .. n : ~IsTelemetry /\ ~Fixed(Layout[i]) =>
          \E j \in 1 .. i - 1 : /\ ~HasBits(Layout[j]) /\ IsNumber(Layout[j])
                                /\ Layout[j].name = Layout[i].from
  <2> TAKE i \in 1 .. n
  <2> HAVE ~IsTelemetry /\ ~Fixed(Layout[i])
  <2>1. i \in DOMAIN Layout
    BY <1>1, <1>2
  <2>2. PICK j \in 1 .. i - 1 : IsNumber(Layout[j]) /\ Layout[j].name = Layout[i].from
    BY <1>2, <2>1 DEF LengthsKnown
  <2>3. j \in 1 .. Len(Layout)
    BY <1>1
  <2>4. ~HasBits(Layout[j])
    BY <2>3, FieldsOfInput DEF DecodeInvariant
  <2> QED
    BY <2>2, <2>4
<1>6. ASSUME NEW i \in 1 .. n, ~Fixed(Layout[i])
      PROVE  /\ Layout[i].from \notin new
             /\ Layout[i].from \in DOMAIN result.raw /\ result.raw[Layout[i].from] \in Int
  <2>1. ~IsTelemetry
    <3>1. i \in 1 .. Len(Layout)
      BY <1>1
    <3> QED
      BY <1>6, <3>1, FieldsOfInput DEF DecodeInvariant
  <2>2. PICK j \in 1 .. i - 1 : /\ ~HasBits(Layout[j]) /\ IsNumber(Layout[j])
                                /\ Layout[j].name = Layout[i].from
    BY <1>5, <1>6, <2>1
  <2>3. j \in 1 .. at /\ j \in 1 .. Len(Layout)
    BY <1>1
  <2> DEFINE g == Layout[j]
  <2>4. Kept(result, frame, g) /\ FieldNames(g) \cap new = {} /\ FieldWellFormed(g)
    BY <1>4, <2>3, FieldsOfInput DEF DecodeInvariant
  <2> HIDE DEF new, g
  <2>5. FieldNames(g) = {g.name}
    BY <2>2, NamesOfField DEF g
  <2>6. result.raw[g.name] = Number(frame, g)
    BY <2>2, <2>4 DEF Kept, Read, g
  <2>7. Number(frame, g) \in Int
    <3>1. /\ g.offset \in Nat /\ g.size \in Nat \ {0} /\ g.signed \in BOOLEAN
          /\ g.offset + g.size <= Len(frame)
      BY <2>2, <2>4 DEF Kept, Extent, FieldWellFormed, g
    <3> QED
      BY <1>2, <3>1, NumberIsWritten
  <2> QED
    BY <2>2, <2>4, <2>5, <2>6, <2>7 DEF Kept, g
<1>7. ASSUME Refusal(s), IsTelemetry => ~Legal(frame, f)
      PROVE  DecodeInvariant'
  <2>1. s.code \in Errors /\ IsRecord'
    BY <1>7 DEF Refusal, Failed, Empty, IsRecord
  <2>2. IsTelemetry => ~Acceptable(input.profile, frame)
    BY <1>1, <1>2, <1>7 DEF Acceptable, Range
  <2> QED
    BY <1>1, <2>1, <2>2 DEF DecodeInvariant, Decoded, Refused, Errors
<1>8. ASSUME Kept(s, frame, f), IsTelemetry => Judged(s, frame, f),
             NEW read, NEW value, DOMAIN read = new, DOMAIN value = new,
             s = Store(result, read, value)
      PROVE  DecodeInvariant'
  <2>1. /\ s = [code |-> result.code, raw |-> s.raw, values |-> s.values]
        /\ DOMAIN result.raw \subseteq DOMAIN s.raw /\ DOMAIN result.values \subseteq DOMAIN s.values
        /\ \A x \in DOMAIN result.raw : x \notin new => s.raw[x] = result.raw[x]
        /\ \A x \in DOMAIN result.values : x \notin new => s.values[x] = result.values[x]
    BY <1>8, Stored
  <2>2. s.code = "reading" /\ IsRecord'
    BY <1>1, <2>1 DEF IsRecord
  <2>3. ASSUME NEW i \in 1 .. at
        PROVE  Kept(s, frame, Layout[i]) /\ (IsTelemetry => Judged(s, frame, Layout[i]))
    <3> DEFINE g == Layout[i]
    <3>1. i \in 1 .. n
      BY <1>1
    <3>2. /\ Kept(result, frame, g) /\ FieldNames(g) \cap new = {}
          /\ ~Fixed(g) => g.from \notin new
          /\ IsTelemetry => Judged(result, frame, g)
      BY <1>1, <1>4, <1>6, <3>1 DEF FieldsKept
    <3> HIDE DEF g, new, s
    <3>3. Kept(s, frame, g) /\ (Judged(result, frame, g) => Judged(s, frame, g))
      BY <2>1, <3>2, FieldsBeforeKept
    <3> QED
      BY <3>2, <3>3 DEF g
  <2>4. FieldsKept'
    BY <1>1, <1>8, <2>3 DEF FieldsKept
  <2>5. Started'
    BY <1>1 DEF Started
  <2> QED
    BY <1>1, <2>2, <2>4, <2>5 DEF DecodeInvariant, Decoded, Refused
<1>9. CASE IsTelemetry
  <2>1. s = TelemetryField(result, frame, f)
    BY <1>9 DEF ReadField
  <2>2. Fixed(f)
    BY <1>2, <1>9
  <2> HIDE DEF s, f, frame
  <2>3. \/ Refusal(s) /\ ~Legal(frame, f)
        \/ /\ Kept(s, frame, f) /\ Judged(s, frame, f)
           /\ \E read, value : /\ DOMAIN read = FieldNames(f) /\ DOMAIN value = FieldNames(f)
                               /\ s = Store(result, read, value)
    BY <1>2, <1>3, <2>1, <2>2, TelemetryStep
  <2> QED
    BY <1>7, <1>8, <2>3
<1>10. CASE ~IsTelemetry
  <2>1. s = StreamField(result, frame, f)
    BY <1>10 DEF ReadField
  <2>2. ~HasBits(f)
    BY <1>2, <1>10
  <2>3. LengthRead(result, f)
    <3>1. f.name \in new
      BY <2>2, NamesOfField
    <3>2. n \in 1 .. n
      BY <1>1
    <3> QED
      BY <1>6, <3>1, <3>2 DEF LengthRead
  <2> HIDE DEF s, f, frame
  <2>4. \/ Refusal(s)
        \/ /\ Kept(s, frame, f)
           /\ \E read : DOMAIN read = FieldNames(f) /\ s = Store(result, read, read)
    <3>1. frame \in Seq(Byte) /\ FieldWellFormed(f)
      BY <1>2
    <3> QED
      BY <2>1, <2>2, <2>3, <3>1, StreamStep
  <2> QED
    BY <1>7, <1>8, <1>10, <2>4
<1> QED
  BY <1>9, <1>10

LEMMA FinishKeeps == DecodeInvariant /\ Finish => DecodeInvariant'
<1> SUFFICES ASSUME DecodeInvariant, Finish PROVE DecodeInvariant'
  OBVIOUS
<1>1. /\ InputType' /\ at' = at /\ at = Len(Layout) /\ (at \in 0 .. Len(Layout))' /\ input' = input
      /\ IsTelemetry' = IsTelemetry /\ Layout' = Layout /\ result.code = "reading"
      /\ Started /\ FieldsKept /\ IsRecord
  BY DEF Finish, DecodeInvariant, InputType, IsTelemetry, Layout
<1> DEFINE wrong == ~IsTelemetry /\ WrongSize(MessageOf(input.frame), input.frame, result)
<1>2. CASE wrong
  <2>1. result' = Failed("wrong_length") /\ ~IsTelemetry
    BY <1>2 DEF Finish
  <2>2. result'.code = "wrong_length" /\ IsRecord'
    BY <2>1 DEF Failed, Empty, IsRecord
  <2> QED
    BY <1>1, <2>1, <2>2 DEF DecodeInvariant, Decoded, Refused
<1>3. CASE ~wrong
  <2>1. result' = [result EXCEPT !.code = "ok"]
    BY <1>3 DEF Finish
  <2>2. /\ result'.code = "ok" /\ result'.raw = result.raw /\ result'.values = result.values
        /\ IsRecord'
    BY <1>1, <2>1 DEF IsRecord
  <2>3. \A f : Kept(result', input.frame, f) <=> Kept(result, input.frame, f)
    BY <2>2 DEF Kept, Extent, Length, Read
  <2>4. \A f : Judged(result', input.frame, f) <=> Judged(result, input.frame, f)
    BY <2>2 DEF Judged
  <2>5. Started' /\ FieldsKept'
    BY <1>1, <2>3, <2>4 DEF Started, FieldsKept
  <2>6. Accepted'
    BY <1>1, <1>3, <2>2 DEF Accepted, WrongSize
  <2> QED
    BY <1>1, <2>2, <2>5, <2>6 DEF DecodeInvariant, Decoded, Refused
<1> QED
  BY <1>2, <1>3

(* The invariant holds in every state. *)
LEMMA DecodeInvariantHolds == Spec => []DecodeInvariant
<1>1. DecodeInvariant /\ [Next]_vars => DecodeInvariant'
  <2> SUFFICES ASSUME DecodeInvariant, [Next]_vars PROVE DecodeInvariant'
    OBVIOUS
  <2>1. CASE Begin
    BY <2>1, BeginKeeps
  <2>2. CASE ReadField
    BY <2>2, ReadFieldKeeps
  <2>3. CASE Finish
    BY <2>3, FinishKeeps
  <2>4. CASE UNCHANGED vars
    BY <2>4 DEF vars, DecodeInvariant, InputType, IsRecord, Layout, IsTelemetry, Started, FieldsKept,
             Accepted, Decoded, Refused
  <2> QED
    BY <2>1, <2>2, <2>3, <2>4 DEF Next
<1> QED
  BY <1>1, InitInvariant, PTL DEF Spec

----------------------------------------------------------------------------
(* The theorems. *)

(* The invariant says of a frame that is accepted what the theorems need. *)
LEMMA DecodedFields ==
    ASSUME DecodeInvariant, Decoded
    PROVE  /\ Started /\ Accepted
           /\ \A f \in Range(Layout) :
                  /\ Kept(result, input.frame, f) /\ (IsTelemetry => Judged(result, input.frame, f))
                  /\ FieldWellFormed(f) /\ BitsValid(f) /\ (~IsTelemetry => ~HasBits(f))
                  /\ Tells(f) /\ EndOf(f) = f.offset + Extent(result, f)
<1>1. /\ Started /\ FieldsKept /\ Accepted /\ at = Len(Layout)
      /\ input.frame \in Seq(Byte) /\ DOMAIN Layout = 1 .. Len(Layout)
  BY FieldsOfInput DEF DecodeInvariant, Decoded, Accepted
<1> SUFFICES ASSUME NEW f \in Range(Layout)
             PROVE  /\ Kept(result, input.frame, f) /\ (IsTelemetry => Judged(result, input.frame, f))
                    /\ FieldWellFormed(f) /\ BitsValid(f) /\ (~IsTelemetry => ~HasBits(f))
                    /\ Tells(f) /\ EndOf(f) = f.offset + Extent(result, f)
  BY <1>1
<1>2. PICK i \in 1 .. Len(Layout) : Layout[i] = f
  BY <1>1 DEF Range
<1>3. /\ Kept(result, input.frame, f) /\ (IsTelemetry => Judged(result, input.frame, f))
      /\ FieldWellFormed(f) /\ BitsValid(f) /\ (~IsTelemetry => ~HasBits(f))
  BY <1>1, <1>2, FieldsOfInput DEF FieldsKept, DecodeInvariant
<1>4. HasBits(f) => Legal(input.frame, f)
  BY <1>3 DEF Judged
<1>5. Tells(f) /\ EndOf(f) = f.offset + Extent(result, f)
  BY <1>1, <1>3, <1>4, KeptTells
<1> QED
  BY <1>3, <1>5

(* At most all fields of a frame are read, and each field of a frame that is   *)
(* accepted has a raw number and a value, which is none just for the reserved  *)
(* number (protocol.py:279).                                                   *)
THEOREM DecodeTypeCorrect == Spec => []TypeOK
<1>1. DecodeInvariant => TypeOK
  <2> SUFFICES ASSUME DecodeInvariant PROVE TypeOK
    OBVIOUS
  <2>1. at \in 0 .. Len(Layout)
    BY DEF DecodeInvariant
  <2>2. ASSUME Decoded, NEW f \in Range(Layout) PROVE HasValue(f)
    BY <2>2, DecodedFields DEF HasValue, Kept, Judged, FieldNames
  <2> QED
    BY <2>1, <2>2 DEF TypeOK
<1> QED
  BY <1>1, DecodeInvariantHolds, PTL

(* The maximum of a set that has one. *)
LEMMA Largest ==
    ASSUME NEW S \in SUBSET Int, NEW x \in S, \A y \in S : y <= x
    PROVE  Max(S) = x
<1>1. \A y \in S : x >= y
  OBVIOUS
<1>2. Max(S) \in S /\ \A y \in S : Max(S) >= y
  BY <1>1 DEF Max
<1> DEFINE z == Max(S)
<1>3. z \in Int /\ z >= x /\ x >= z
  BY <1>1, <1>2
<1> HIDE DEF z
<1>4. z = x
  BY <1>3
<1> QED
  BY <1>4 DEF z

(* A message that is accepted ends where its last field does. *)
LEMMA MessageEnds ==
    ASSUME DecodeInvariant, Decoded, ~IsTelemetry
    PROVE  Len(input.frame) = Max({EndOf(f) : f \in Range(Layout)})
<1> DEFINE m == MessageOf(input.frame)
<1> DEFINE size == IF m.plus = NoValue THEN m.base ELSE m.base + result.raw[m.plus]
<1>1. m \in Message /\ Layout = m.fields /\ Len(input.frame) = size
  BY FieldsOfInput, DecodedFields DEF DecodeInvariant, Started, Accepted, WrongSize
<1> HIDE DEF m
<1>2. m.base \in Nat /\ EndsAtSize(m)
  BY <1>1, ManifestAssumption
<1>3. \A f \in Range(m.fields) : /\ Kept(result, input.frame, f) /\ FieldWellFormed(f)
                                 /\ EndOf(f) = f.offset + Extent(result, f)
  BY <1>1, DecodedFields
<1>4. ASSUME NEW f \in Range(m.fields), Fixed(f)
      PROVE  EndOf(f) = f.offset + Wide(f) /\ f.offset \in Nat /\ Wide(f) \in Nat
  BY <1>3, <1>4, FixedExtent DEF FieldWellFormed
<1>5. ASSUME NEW f \in Range(m.fields), Trails(f, m)
      PROVE  EndOf(f) = size /\ m.plus # NoValue /\ result.raw[m.plus] \in Nat
  BY <1>2, <1>3, <1>5 DEF Trails, Fixed, Extent, Length, Kept
<1>6. ASSUME m.plus # NoValue PROVE \E f \in Range(m.fields) : Trails(f, m)
  BY <1>2, <1>6 DEF EndsAtSize
<1>7. size \in Nat /\ m.base <= size
  BY <1>2, <1>5, <1>6
<1> HIDE DEF size
<1>8. \A f \in Range(m.fields) : EndOf(f) \in Int /\ EndOf(f) <= size
  <2> TAKE f \in Range(m.fields)
  <2>1. CASE Trails(f, m)
    BY <1>5, <1>7, <2>1
  <2>2. CASE Fixed(f) /\ f.offset + Wide(f) <= m.base
    BY <1>2, <1>4, <1>7, <2>2
  <2> QED
    BY <1>2, <2>1, <2>2 DEF EndsAtSize
<1>9. \E f \in Range(m.fields) : EndOf(f) = size
  <2>1. CASE m.plus # NoValue
    BY <1>5, <1>6, <2>1
  <2>2. CASE m.plus = NoValue
    <3>1. PICK f \in Range(m.fields) : f.offset + Wide(f) = m.base
      BY <1>2, <2>2 DEF EndsAtSize
    <3>2. Fixed(f)
      BY <1>2, <2>2 DEF EndsAtSize, Trails
    <3> QED
      BY <1>4, <2>2, <3>1, <3>2 DEF size
  <2> QED
    BY <2>1, <2>2
<1> DEFINE S == {EndOf(f) : f \in Range(m.fields)}
<1>10. S \in SUBSET Int /\ size \in S /\ \A y \in S : y <= size
  BY <1>8, <1>9
<1> HIDE DEF S
<1>11. Max(S) = size
  BY <1>10, Largest
<1> QED
  BY <1>1, <1>11 DEF S

(* What is decoded of an accepted frame says what its bytes are, and the last  *)
(* field of an accepted message ends where the message does                    *)
(* (protocol.py:204, 235).                                                     *)
THEOREM FieldsTell == Spec => []FieldsTellTheFrame
<1>1. DecodeInvariant => FieldsTellTheFrame
  BY DecodedFields, MessageEnds DEF FieldsTellTheFrame
<1> QED
  BY <1>1, DecodeInvariantHolds, PTL

(* decode_telemetry accepts exactly the frames the manifest describes          *)
(* (protocol.py:180).                                                          *)
THEOREM RefusalsHaveReasons == Spec => []RefusedForAReason
<1>1. DecodeInvariant => RefusedForAReason
  <2> SUFFICES ASSUME DecodeInvariant, IsTelemetry
               PROVE  /\ Decoded => Acceptable(input.profile, input.frame)
                      /\ Refused => ~Acceptable(input.profile, input.frame)
    BY DEF RefusedForAReason
  <2>1. Layout = input.profile.fields
    BY FieldsOfInput DEF DecodeInvariant
  <2>2. ASSUME Decoded PROVE Acceptable(input.profile, input.frame)
    BY <2>1, <2>2, DecodedFields DEF Acceptable, Started, Judged
  <2> QED
    BY <2>2 DEF DecodeInvariant
<1> QED
  BY <1>1, DecodeInvariantHolds, PTL
=============================================================================
