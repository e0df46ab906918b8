-------------------------- MODULE NativeLibProofs --------------------------
(***************************************************************************)
(* What holds of the calls of the native library (NativeLib) for every     *)
(* group of prime order, every size of a byte, a number and a block, and   *)
(* all arguments.                                                          *)
(***************************************************************************)
EXTENDS NativeLib, WellFoundedInduction, TLAPS
-----------------------------------------------------------------------------
(* Induction, as a fact about sets of numbers *)

Less == {p \in Nat \X Nat : p[1] < p[2]}

LEMMA LessIsWellFounded == IsWellFoundedOn(Less, Nat)
<1>1. OpToRel(<, Nat) = Less
  BY Zenon DEF OpToRel, Less
<1> QED
  BY <1>1, NatLessThanWellFounded, Zenon

\* A set of numbers that is not empty has a least element.
LEMMA LeastElement ==
  ASSUME NEW S, S \subseteq Nat, S # {}
  PROVE  \E n \in S : \A m \in S : n <= m
<1>1. PICK n \in S : \A m \in S : <<m, n>> \notin Less
  BY LessIsWellFounded, WFMin
<1>2. ASSUME NEW m \in S
      PROVE  n <= m
  <2>1. n \in Nat /\ m \in Nat /\ <<m, n>> \notin Less
    BY <1>1
  <2> QED
    BY <2>1 DEF Less
<1> QED
  BY <1>2

\* A set that holds 0, and n + 1 with n, holds every number.
LEMMA SetInduction ==
  ASSUME NEW S, 0 \in S, \A n \in Nat : n \in S => n + 1 \in S
  PROVE  Nat \subseteq S
<1> SUFFICES ASSUME Nat \ S # {} PROVE FALSE
  OBVIOUS
<1>1. PICK n \in Nat \ S : \A m \in Nat \ S : n <= m
  BY LeastElement
<1>2. n # 0 /\ n - 1 \in Nat /\ n - 1 \notin S
  BY <1>1
<1> QED
  BY <1>1, <1>2
-----------------------------------------------------------------------------
(* Division *)

LEMMA Division ==
  ASSUME NEW a \in Nat, NEW n \in Nat \ {0}
  PROVE  /\ a \div n \in Nat /\ a % n \in 0..n-1
         /\ a = n * (a \div n) + (a % n)
  OBVIOUS

LEMMA DivisionIsUnique ==
  ASSUME NEW n \in Nat \ {0}, NEW q \in Nat, NEW r \in 0..n-1
  PROVE  (n * q + r) \div n = q /\ (n * q + r) % n = r
  OBVIOUS

\* Dividing twice is dividing by the product.
LEMMA DivisionTwice ==
  ASSUME NEW a \in Nat, NEW m \in Nat \ {0}, NEW n \in Nat \ {0}
  PROVE  (a \div m) \div n = a \div (n * m)
<1> DEFINE q == a \div m
           r == a % m
           p == q \div n
           s == q % n
<1>1. a = m * q + r /\ q \in Nat /\ r \in 0..m-1
  BY Division
<1>2. q = n * p + s /\ p \in Nat /\ s \in 0..n-1
  BY <1>1, Division
<1> HIDE DEF p, s
<1> HIDE DEF q, r
<1>3. n * m \in Nat \ {0} /\ m * s \in Nat /\ m * s <= m * (n - 1)
  BY <1>2
<1>4. m * (n - 1) = n * m - m
  OBVIOUS
<1>5. a = (n * m) * p + (m * s + r)
  <2>1. m * (n * p + s) = (n * m) * p + m * s
    BY <1>2
  <2> QED
    BY <1>1, <1>2, <1>3, <2>1
<1>6. m * s + r \in 0..n*m - 1
  BY <1>1, <1>3, <1>4
<1>7. a \div (n * m) = p
  BY <1>2, <1>3, <1>5, <1>6, DivisionIsUnique
<1> QED
  BY <1>7 DEF p, q
-----------------------------------------------------------------------------
(* Arithmetic modulo the order of the group *)

\* The remainder of a is b.
Cong(a, b) == \E q \in Int : a = b + Order * q

LEMMA OrderType == Order \in Nat \ {0, 1, 2} /\ Order \in Int
  BY NativeAssumption

LEMMA CongRemainder ==
  ASSUME NEW a \in Nat
  PROVE  a % Order \in 0..Order-1 /\ Cong(a, a % Order) /\ Cong(a % Order, a)
<1>1. /\ a \div Order \in Nat /\ a % Order \in 0..Order-1
      /\ a = Order * (a \div Order) + (a % Order)
  BY OrderType, Division
<1>2. a = (a % Order) + Order * (a \div Order) /\ a \div Order \in Int
  BY <1>1, OrderType
<1>3. a % Order = a + Order * (-(a \div Order)) /\ -(a \div Order) \in Int
  BY <1>1, OrderType
<1> QED
  BY <1>1, <1>2, <1>3 DEF Cong

LEMMA CongTrans ==
  ASSUME NEW a \in Int, NEW b \in Int, NEW c \in Int, Cong(a, b), Cong(b, c)
  PROVE  Cong(a, c)
<1>1. PICK p \in Int : a = b + Order * p
  BY DEF Cong
<1>2. PICK q \in Int : b = c + Order * q
  BY DEF Cong
<1>3. a = c + Order * (p + q) /\ p + q \in Int
  BY <1>1, <1>2, OrderType
<1> QED
  BY <1>3 DEF Cong

LEMMA CongSym ==
  ASSUME NEW a \in Int, NEW b \in Int, Cong(a, b)
  PROVE  Cong(b, a)
<1>1. PICK p \in Int : a = b + Order * p
  BY DEF Cong
<1>2. b = a + Order * (-p) /\ -p \in Int
  BY <1>1, OrderType
<1> QED
  BY <1>2 DEF Cong

LEMMA CongPlus ==
  ASSUME NEW a \in Int, NEW b \in Int, NEW c \in Int, NEW d \in Int, Cong(a, b), Cong(c, d)
  PROVE  Cong(a + c, b + d)
<1>1. PICK p \in Int : a = b + Order * p
  BY DEF Cong
<1>2. PICK q \in Int : c = d + Order * q
  BY DEF Cong
<1>3. a + c = b + d + Order * (p + q) /\ p + q \in Int
  BY <1>1, <1>2, OrderType
<1> QED
  BY <1>3 DEF Cong

LEMMA CongTimes ==
  ASSUME NEW a \in Int, NEW b \in Int, NEW c \in Int, Cong(a, b)
  PROVE  Cong(a * c, b * c)
<1>1. PICK p \in Int : a = b + Order * p
  BY DEF Cong
<1>2. a * c = b * c + Order * (p * c) /\ p * c \in Int
  BY <1>1, OrderType
<1> QED
  BY <1>2 DEF Cong

LEMMA CongSelf == ASSUME NEW a \in Int PROVE Cong(a, a)
<1>1. a = a + Order * 0
  BY OrderType
<1> QED
  BY <1>1 DEF Cong

\* Two remainders that are congruent are equal.
LEMMA CongIsEqual ==
  ASSUME NEW a \in 0..Order-1, NEW b \in 0..Order-1, Cong(a, b)
  PROVE  a = b
<1>1. PICK q \in Int : a = b + Order * q
  BY DEF Cong
<1>2. CASE q >= 1
  <2>1. Order * q >= Order
    BY <1>2, OrderType
  <2> QED
    BY <1>1, <2>1, OrderType
<1>3. CASE q <= -1
  <2>1. Order * q <= -Order
    BY <1>3, OrderType
  <2> QED
    BY <1>1, <2>1, OrderType
<1>4. CASE q = 0
  BY <1>1, <1>4, OrderType
<1> QED
  BY <1>2, <1>3, <1>4

\* A number that is no multiple of the order has an inverse: of its multiples'
\* remainders the least that is not 0 divides the order, which is a prime.
LEMMA InverseExists ==
  ASSUME NEW a \in 1..Order-1
  PROVE  \E b \in 1..Order-1 : (a * b) % Order = 1
<1> DEFINE T == {x \in 1..Order-1 : \E b \in 1..Order-1 : (a * b) % Order = x}
<1>1. a \in Nat /\ a \in T
  <2>1. Order = Order /\ a = Order * 0 + a /\ a \in 0..Order-1 /\ 1 \in 1..Order-1
    BY OrderType
  <2>2. (a * 1) % Order = a
    BY <2>1, OrderType, DivisionIsUnique
  <2> QED
    BY <2>1, <2>2, OrderType
<1>2. PICK x \in T : \A y \in T : x <= y
  <2>1. \A n \in 1..Order-1 : n \in Nat
    BY OrderType
  <2>2. T \subseteq Nat
    BY <2>1
  <2>3. T # {}
    BY <1>1
  <2> QED
    BY <2>2, <2>3, LeastElement
<1>3. PICK b \in 1..Order-1 : (a * b) % Order = x
  BY <1>2
<1>4. x \in 1..Order-1 /\ x \in Nat \ {0} /\ b \in Nat /\ b \in Int /\ x \in Int /\ a \in Int
  BY <1>1, <1>2, <1>3, OrderType
<1> HIDE DEF T
<1>5. CASE Order % x = 0
  <2>1. x \notin 2..Order-1
    BY <1>5, NativeAssumption
  <2>2. x = 1
    BY <1>4, <2>1, OrderType
  <2> QED
    BY <1>3, <2>2
<1>6. CASE Order % x # 0
  <2> DEFINE q == Order \div x
             r == Order % x
             c == (b * (Order - q)) % Order
  <2>1. q \in Nat /\ r \in 1..x-1 /\ Order = x * q + r
    <3>1. q \in Nat /\ r \in 0..x-1 /\ Order = x * q + r
      BY <1>4, OrderType, Division
    <3> HIDE DEF q
    <3> QED
      BY <1>4, <1>6, <3>1
  <2> HIDE DEF q, r
  <2>2. Order - q \in Nat /\ Order - q \in Int /\ r \in 0..Order-1 /\ r \in Int
    <3>1. x * q >= q
      BY <1>4, <2>1
    <3> QED
      BY <1>4, <2>1, <3>1, OrderType
  <2>3. b * (Order - q) \in Nat /\ b * (Order - q) \in Int /\ a * b \in Nat /\ a * b \in Int
    BY <1>1, <1>4, <2>2
  <2>4. c \in 0..Order-1 /\ Cong(c, b * (Order - q)) /\ c \in Nat /\ c \in Int
    BY <2>3, CongRemainder, OrderType
  <2> HIDE DEF c
  <2>5. Cong(a * b, x)
    BY <1>3, <2>3, CongRemainder
  <2>6. Cong((a * b) * (Order - q), x * (Order - q))
    BY <1>4, <2>2, <2>3, <2>5, CongTimes
  <2>7. Cong(x * (Order - q), r)
    <3>1. x * (Order - q) = r + Order * (x - 1)
      BY <1>4, <2>1, <2>2, OrderType
    <3> QED
      BY <1>4, <3>1 DEF Cong
  <2>8. Cong(a * c, (a * b) * (Order - q))
    <3>1. Cong(c * a, (b * (Order - q)) * a)
      BY <1>4, <2>3, <2>4, CongTimes
    <3>2. c * a = a * c
      BY <1>4, <2>4
    <3>3. (b * (Order - q)) * a = (a * b) * (Order - q)
      BY <1>1, <1>4, <2>2
    <3> QED
      BY <3>1, <3>2, <3>3
  <2>9. /\ a * c \in Nat /\ a * c \in Int /\ (a * b) * (Order - q) \in Int
        /\ x * (Order - q) \in Int
    BY <1>1, <1>4, <2>2, <2>3, <2>4
  <2>10. Cong(a * c, r)
    <3>1. Cong(a * c, x * (Order - q))
      BY <2>6, <2>8, <2>9, CongTrans
    <3> QED
      BY <2>2, <2>7, <2>9, <3>1, CongTrans
  <2>11. (a * c) % Order = r
    <3>1. /\ (a * c) % Order \in 0..Order-1 /\ (a * c) % Order \in Int
          /\ Cong((a * c) % Order, a * c)
      BY <2>9, CongRemainder, OrderType
    <3>2. Cong((a * c) % Order, r)
      BY <2>2, <2>9, <2>10, <3>1, CongTrans
    <3> QED
      BY <2>2, <3>1, <3>2, CongIsEqual
  <2>12. c # 0
    <3> SUFFICES ASSUME c = 0 PROVE FALSE
      OBVIOUS
    <3>1. a * c = Order * 0 + 0 /\ 0 \in 0..Order-1
      BY <1>1, OrderType
    <3>2. (a * c) % Order = 0
      BY <3>1, OrderType, DivisionIsUnique
    <3> QED
      BY <2>1, <2>11, <3>2
  <2>13. r \in T
    BY <1>4, <2>1, <2>4, <2>11, <2>12, OrderType DEF T
  <2> QED
    BY <1>2, <1>4, <2>1, <2>13
<1> QED
  BY <1>5, <1>6

LEMMA InverseType ==
  ASSUME NEW a \in 1..Order-1
  PROVE  /\ Inverse(a) \in 1..Order-1
         /\ Cong(a * Inverse(a), 1)
<1>1. Inverse(a) \in 1..Order-1 /\ (a * Inverse(a)) % Order = 1
  BY InverseExists DEF Inverse
<1>2. a * Inverse(a) \in Nat
  BY <1>1, OrderType
<1> QED
  BY <1>1, <1>2, CongRemainder
-----------------------------------------------------------------------------
(* The signature *)

\* What Minus computes is the difference, modulo the order.
LEMMA MinusType ==
  ASSUME NEW a \in Nat, NEW b \in Nat
  PROVE  Minus(a, b) \in 0..Order-1 /\ Cong(Minus(a, b) + b, a)
<1> DEFINE r == b % Order
           m == a + (Order - r)
<1>1. r \in 0..Order-1 /\ Cong(b, r)
  BY CongRemainder
<1> HIDE DEF r
<1>2. m \in Nat
  BY <1>1, OrderType
<1>3. m % Order \in 0..Order-1 /\ Cong(m % Order, m)
  BY <1>2, CongRemainder
<1> HIDE DEF m
<1>4. Cong((m % Order) + b, m + r)
  BY <1>1, <1>2, <1>3, OrderType, CongPlus
<1>5. Cong(m + r, a)
  <2>1. m + r = a + Order * 1
    BY <1>1, OrderType DEF m
  <2> QED
    BY <2>1 DEF Cong
<1>6. Cong((m % Order) + b, a)
  BY <1>1, <1>2, <1>3, <1>4, <1>5, OrderType, CongTrans
<1> QED
  BY <1>3, <1>6 DEF Minus, m, r

\* s (1 + d) = k - r d, modulo the order: the equation sm2_do_sign solves.
LEMMA SignEquation ==
  ASSUME NEW d \in Nat, NEW k \in 1..Order-1, NEW r \in 0..Order-1, NEW s \in 0..Order-1,
         (1 + d) % Order # 0,
         s = (Inverse((1 + d) % Order) * Minus(k, r * d)) % Order
  PROVE  Cong(s * (1 + d) + r * d, k)
<1> DEFINE f == (1 + d) % Order
           v == Inverse(f)
           m == Minus(k, r * d)
<1>1. f \in 1..Order-1 /\ Cong(1 + d, f)
  BY CongRemainder
<1> HIDE DEF f
<1>2. v \in 1..Order-1 /\ Cong(f * v, 1)
  BY <1>1, InverseType
<1> HIDE DEF v
<1>3. r * d \in Nat /\ k \in Nat
  BY OrderType
<1>4. m \in 0..Order-1 /\ Cong(m + r * d, k)
  BY <1>3, MinusType
<1> HIDE DEF m
<1>5. /\ f \in Int /\ v \in Int /\ m \in Int /\ s \in Int /\ 1 + d \in Int /\ r * d \in Int
      /\ k \in Int /\ v * m \in Nat /\ v * m \in Int
  BY <1>1, <1>2, <1>3, <1>4, OrderType
<1>6. Cong(s, v * m)
  <2>1. s = (v * m) % Order
    BY DEF f, v, m
  <2> QED
    BY <1>5, <2>1, CongRemainder
<1>7. Cong(s * (1 + d), (v * m) * (1 + d))
  BY <1>5, <1>6, CongTimes
<1>8. Cong((v * m) * (1 + d), (f * v) * m)
  <2>1. Cong((1 + d) * (v * m), f * (v * m))
    BY <1>1, <1>5, CongTimes
  <2>2. (1 + d) * (v * m) = (v * m) * (1 + d)
    BY <1>5
  <2>3. f * (v * m) = (f * v) * m
    BY <1>5
  <2> QED
    BY <2>1, <2>2, <2>3
<1>9. Cong((f * v) * m, m)
  <2>1. f * v \in Int /\ 1 \in Int /\ 1 * m = m
    BY <1>5
  <2> QED
    BY <1>2, <1>5, <2>1, CongTimes
<1>10. s * (1 + d) \in Int /\ (v * m) * (1 + d) \in Int /\ (f * v) * m \in Int
  BY <1>5
<1>11. Cong(s * (1 + d), m)
  <2>1. Cong(s * (1 + d), (f * v) * m)
    BY <1>7, <1>8, <1>10, CongTrans
  <2> QED
    BY <1>5, <1>9, <1>10, <2>1, CongTrans
<1>12. Cong(s * (1 + d) + r * d, m + r * d)
  BY <1>5, <1>10, <1>11, CongSelf, CongPlus
<1>13. s * (1 + d) + r * d \in Int /\ m + r * d \in Int
  BY <1>5, <1>10
<1> QED
  BY <1>4, <1>5, <1>12, <1>13, CongTrans

\* The pair that a round of sm2_do_sign puts out is one sm2_do_verify accepts:
\* the multiple it computes is the round's k.
LEMMA RoundVerifies ==
  ASSUME NEW d \in Nat, NEW e \in Nat, NEW k \in 1..Order-1, NEW r, NEW s,
         r = ((XOf[k] % Order) + e) % Order, r # 0, (r + k) % Order # 0,
         (1 + d) % Order # 0,
         s = (Inverse((1 + d) % Order) * Minus(k, r * d)) % Order, s # 0
  PROVE  r \in 1..Order-1 /\ s \in 1..Order-1 /\ Verifies(d, e, r, s)
<1> DEFINE x == XOf[k] % Order
           t == (r + s) % Order
           multiple == (s + t * d) % Order
<1>1. XOf[k] \in Nat /\ XOf[k] \in Int /\ k \in Nat /\ e \in Int
  BY NativeAssumption, OrderType
<1>2. x \in 0..Order-1 /\ Cong(x, XOf[k]) /\ x \in Int
  BY <1>1, CongRemainder, OrderType
<1>3. x + e \in Nat /\ r = (x + e) % Order
  BY <1>2
<1> HIDE DEF x
<1>4. r \in 1..Order-1 /\ r \in Nat /\ r \in Int /\ Cong(r, x + e)
  BY <1>3, CongRemainder, OrderType
<1>5. s \in 1..Order-1 /\ s \in Nat /\ s \in Int
  <2>1. (1 + d) % Order \in 1..Order-1
    BY CongRemainder
  <2>2. Inverse((1 + d) % Order) \in Nat
    BY <2>1, InverseType, OrderType
  <2>3. Minus(k, r * d) \in Nat
    BY <1>1, <1>4, MinusType, OrderType
  <2>4. Inverse((1 + d) % Order) * Minus(k, r * d) \in Nat
    BY <2>2, <2>3
  <2>5. s \in 0..Order-1
    BY <2>4, CongRemainder
  <2> QED
    BY <2>5, OrderType
<1>6. Cong(s * (1 + d) + r * d, k)
  <2>1. r \in 0..Order-1 /\ s \in 0..Order-1
    BY <1>4, <1>5, OrderType
  <2> QED
    BY <2>1, SignEquation
<1>7. t \in 0..Order-1 /\ Cong(t, r + s) /\ t \in Nat /\ t \in Int
  BY <1>4, <1>5, CongRemainder, OrderType
<1>8. t # 0
  <2> SUFFICES ASSUME t = 0 PROVE FALSE
    OBVIOUS
  <2>1. PICK q \in Int : r + s = Order * q
    <3>1. Cong(r + s, t)
      BY <1>4, <1>5, <1>7, CongSym
    <3>2. PICK q \in Int : r + s = 0 + Order * q
      BY <3>1 DEF Cong
    <3>3. Order * q \in Int
      BY OrderType
    <3> QED
      BY <3>2, <3>3
  <2>2. PICK p \in Int : s * (1 + d) + r * d = k + Order * p
    BY <1>6 DEF Cong
  <2>3. s * (1 + d) + r * d = s + (r + s) * d
    BY <1>4, <1>5
  <2>4. (r + s) * d = Order * (q * d)
    BY <2>1, OrderType
  <2>5. r + k = Order * (q + q * d - p)
    <3> DEFINE a == Order * q
               b == Order * (q * d)
               c == Order * p
    <3>1. Order * (q + q * d - p) = a + b - c /\ a \in Int /\ b \in Int /\ c \in Int
      BY OrderType
    <3>2. s + b = k + c /\ r + s = a
      BY <2>1, <2>2, <2>3, <2>4
    <3> HIDE DEF a, b, c
    <3>3. r + k = a + b - c
      BY <1>1, <1>4, <1>5, <3>1, <3>2
    <3> QED
      BY <3>1, <3>3
  <2>6. r + k \in Nat /\ Cong(r + k, 0)
    <3>1. r + k = 0 + Order * (q + q * d - p) /\ q + q * d - p \in Int
      BY <1>1, <1>4, <2>5, OrderType
    <3> QED
      BY <1>1, <1>4, <3>1 DEF Cong
  <2>7. Cong((r + k) % Order, 0)
    <3>1. (r + k) % Order \in Int /\ r + k \in Int /\ Cong((r + k) % Order, r + k)
      BY <2>6, CongRemainder, OrderType
    <3> QED
      BY <2>6, <3>1, CongTrans
  <2> QED
    BY <2>6, <2>7, CongRemainder, CongIsEqual, OrderType
<1> HIDE DEF t
<1>9. multiple = k
  <2>1. s + t * d \in Nat /\ s + t * d \in Int
    BY <1>5, <1>7
  <2>2. Cong(s + t * d, s * (1 + d) + r * d)
    <3>1. Cong(t * d, (r + s) * d)
      BY <1>4, <1>5, <1>7, CongTimes
    <3>2. t * d \in Int /\ (r + s) * d \in Int
      BY <1>4, <1>5, <1>7
    <3>3. Cong(s + t * d, s + (r + s) * d)
      BY <1>5, <3>1, <3>2, CongSelf, CongPlus
    <3>4. s + (r + s) * d = s * (1 + d) + r * d
      BY <1>4, <1>5
    <3> QED
      BY <3>3, <3>4
  <2>3. s * (1 + d) + r * d \in Int /\ k \in Int
    BY <1>1, <1>4, <1>5
  <2>4. Cong(s + t * d, k)
    BY <1>6, <2>1, <2>2, <2>3, CongTrans
  <2>5. multiple \in 0..Order-1 /\ multiple \in Int /\ Cong(multiple, s + t * d)
    BY <2>1, CongRemainder, OrderType
  <2> HIDE DEF multiple
  <2>6. Cong(multiple, k)
    BY <2>1, <2>3, <2>4, <2>5, CongTrans
  <2>7. k \in 0..Order-1
    BY OrderType
  <2> QED
    BY <2>5, <2>6, <2>7, CongIsEqual
<1>10. (XOf[k] + e) % Order = r
  <2>1. XOf[k] + e \in Nat /\ XOf[k] + e \in Int /\ x + e \in Int
    BY <1>1, <1>2
  <2>2. Cong(x + e, XOf[k] + e)
    BY <1>1, <1>2, CongSelf, CongPlus
  <2>3. Cong(r, XOf[k] + e)
    BY <1>4, <2>1, <2>2, CongTrans
  <2>4. /\ (XOf[k] + e) % Order \in 0..Order-1 /\ (XOf[k] + e) % Order \in Int
        /\ Cong(XOf[k] + e, (XOf[k] + e) % Order)
    BY <2>1, CongRemainder, OrderType
  <2>5. Cong(r, (XOf[k] + e) % Order)
    BY <1>4, <2>1, <2>3, <2>4, CongTrans
  <2>6. r \in 0..Order-1
    BY <1>4, OrderType
  <2> QED
    BY <2>4, <2>5, <2>6, CongIsEqual
<1> QED
  BY <1>4, <1>5, <1>8, <1>9, <1>10, OrderType DEF Verifies, t, multiple
-----------------------------------------------------------------------------
(* The bytes of a number *)

\* The recursive definition of Weight defines a function.
LEMMA WeightDefined == Weight = [n \in 0..Width |-> IF n = 0 THEN 1 ELSE Radix * Weight[n-1]]
<1> DEFINE Upto(w) == \E f : f = [n \in 0..w |-> IF n = 0 THEN 1 ELSE Radix * f[n-1]]
           S == {w \in Nat : Upto(w)}
<1>1. Upto(0)
  <2> DEFINE f == [n \in 0..0 |-> 1]
  <2>1. f = [n \in 0..0 |-> IF n = 0 THEN 1 ELSE Radix * f[n-1]]
    OBVIOUS
  <2> QED
    BY <2>1
<1>2. ASSUME NEW w \in Nat, Upto(w)
      PROVE  Upto(w + 1)
  <2>1. PICK f : f = [n \in 0..w |-> IF n = 0 THEN 1 ELSE Radix * f[n-1]]
    BY <1>2
  <2> DEFINE g == [n \in 0..w+1 |-> IF n = w + 1 THEN Radix * f[w] ELSE f[n]]
  <2>2. \A n \in 0..w+1 : g[n] = IF n = 0 THEN 1 ELSE Radix * g[n-1]
    <3> SUFFICES ASSUME NEW n \in 0..w+1
                 PROVE  g[n] = IF n = 0 THEN 1 ELSE Radix * g[n-1]
      OBVIOUS
    <3>1. CASE n = w + 1
      BY <3>1
    <3>2. CASE n # w + 1
      <4>1. n \in 0..w /\ g[n] = f[n] /\ f[n] = (IF n = 0 THEN 1 ELSE Radix * f[n-1])
        BY <2>1, <3>2
      <4>2. n # 0 => g[n-1] = f[n-1]
        BY <4>1
      <4> QED
        BY <4>1, <4>2
    <3> QED
      BY <3>1, <3>2
  <2>3. g = [n \in 0..w+1 |-> IF n = 0 THEN 1 ELSE Radix * g[n-1]]
    BY <2>2
  <2> QED
    BY <2>3
<1>3. Width \in S
  <2>1. 0 \in S
    BY <1>1
  <2>2. \A w \in Nat : w \in S => w + 1 \in S
    BY <1>2
  <2> HIDE DEF S
  <2> QED
    BY <2>1, <2>2, SetInduction, NativeAssumption
<1> QED
  BY <1>3 DEF Weight

LEMMA WeightType ==
  /\ Weight[0] = 1
  /\ \A n \in 1..Width : Weight[n] = Radix * Weight[n-1]
  /\ \A n \in 0..Width : Weight[n] \in Nat \ {0}
<1>1. Width \in Nat /\ Radix \in Nat \ {0}
  BY NativeAssumption
<1>2. Weight[0] = 1 /\ \A n \in 1..Width : Weight[n] = Radix * Weight[n-1]
  BY <1>1, WeightDefined
<1> DEFINE S == {n \in Nat : n <= Width => Weight[n] \in Nat \ {0}}
<1>3. 0 \in S
  BY <1>2
<1>4. ASSUME NEW n \in Nat, n \in S
      PROVE  n + 1 \in S
  <2> SUFFICES ASSUME n + 1 <= Width
               PROVE  Weight[n+1] \in Nat \ {0}
    OBVIOUS
  <2>1. Weight[n] \in Nat \ {0} /\ Weight[n+1] = Radix * Weight[n]
    BY <1>1, <1>2, <1>4
  <2> QED
    BY <1>1, <2>1
<1>5. Nat \subseteq S
  BY <1>3, <1>4, SetInduction
<1> QED
  BY <1>1, <1>2, <1>5

LEMMA NumBytesType ==
  ASSUME NEW v \in 0..Order-1
  PROVE  NumBytes(v) \in 0..Width /\ v < Weight[NumBytes(v)]
<1> DEFINE S == {n \in 0..Width : v < Weight[n]}
<1>1. Width \in Nat /\ Width \in S
  <2>1. Width \in Nat /\ Weight[Width] \in Nat /\ Order <= Weight[Width] /\ v \in Nat /\ v < Order
    BY NativeAssumption, WeightType, OrderType
  <2> QED
    BY <2>1, OrderType
<1>2. S \subseteq Nat /\ S # {}
  BY <1>1
<1>3. PICK n \in S : \A m \in S : n <= m
  BY <1>2, LeastElement
<1>4. n > 0 => v >= Weight[n-1]
  <2> SUFFICES ASSUME n > 0, ~(v >= Weight[n-1])
               PROVE  FALSE
    OBVIOUS
  <2>1. n - 1 \in 0..Width /\ Weight[n-1] \in Nat /\ v \in Nat
    BY <1>1, WeightType, OrderType
  <2>2. n - 1 \in S
    BY <2>1
  <2> QED
    BY <1>1, <1>3, <2>2
<1> QED
  BY <1>3, <1>4 DEF NumBytes

LEMMA BytesOfType ==
  ASSUME NEW v \in 0..Order-1
  PROVE  /\ BytesOf(v) \in Seq(0..Radix-1) /\ Len(BytesOf(v)) = NumBytes(v)
         /\ Len(BytesOf(v)) <= Width
         /\ \A j \in 1..NumBytes(v) :
              BytesOf(v)[j] = (v \div Weight[NumBytes(v) - j]) % Radix
<1> DEFINE len == NumBytes(v)
<1>1. len \in 0..Width /\ Width \in Nat /\ len \in Nat /\ Radix \in Nat \ {0} /\ v \in Nat
  BY NumBytesType, NativeAssumption, OrderType
<1> HIDE DEF len
<1>2. ASSUME NEW j \in 1..len
      PROVE  (v \div Weight[len - j]) % Radix \in 0..Radix-1
  <2>1. Weight[len - j] \in Nat \ {0}
    BY <1>1, WeightType
  <2> QED
    BY <1>1, <2>1, Division
<1>3. BytesOf(v) = [j \in 1..len |-> (v \div Weight[len - j]) % Radix]
  BY DEF BytesOf, len
<1>4. BytesOf(v) \in [1..len -> 0..Radix-1]
  BY <1>2, <1>3
<1>5. Len(BytesOf(v)) = len /\ BytesOf(v) \in Seq(0..Radix-1)
  BY <1>1, <1>4
<1> QED
  BY <1>1, <1>3, <1>5 DEF len

\* So does NumberOf's.
LEMMA NumberOfDefined ==
  ASSUME NEW b, Len(b) \in Nat
  PROVE  \E value : /\ value = [j \in 0..Len(b) |->
                                  IF j = 0 THEN 0 ELSE Radix * value[j-1] + b[j]]
                    /\ NumberOf(b) = value[Len(b)]
<1> DEFINE Upto(w) == \E f : f = [j \in 0..w |-> IF j = 0 THEN 0 ELSE Radix * f[j-1] + b[j]]
           S == {w \in Nat : Upto(w)}
<1>1. Upto(0)
  <2> DEFINE f == [j \in 0..0 |-> 0]
  <2>1. f = [j \in 0..0 |-> IF j = 0 THEN 0 ELSE Radix * f[j-1] + b[j]]
    OBVIOUS
  <2> QED
    BY <2>1
<1>2. ASSUME NEW w \in Nat, Upto(w)
      PROVE  Upto(w + 1)
  <2>1. PICK f : f = [j \in 0..w |-> IF j = 0 THEN 0 ELSE Radix * f[j-1] + b[j]]
    BY <1>2
  <2> DEFINE g == [j \in 0..w+1 |-> IF j = w + 1 THEN Radix * f[w] + b[w+1] ELSE f[j]]
  <2>2. \A j \in 0..w+1 : g[j] = IF j = 0 THEN 0 ELSE Radix * g[j-1] + b[j]
    <3> SUFFICES ASSUME NEW j \in 0..w+1
                 PROVE  g[j] = IF j = 0 THEN 0 ELSE Radix * g[j-1] + b[j]
      OBVIOUS
    <3>1. CASE j = w + 1
      BY <3>1
    <3>2. CASE j # w + 1
      <4>1. j \in 0..w /\ g[j] = f[j] /\ f[j] = (IF j = 0 THEN 0 ELSE Radix * f[j-1] + b[j])
        BY <2>1, <3>2
      <4>2. j # 0 => g[j-1] = f[j-1]
        BY <4>1
      <4> QED
        BY <4>1, <4>2
    <3> QED
      BY <3>1, <3>2
  <2>3. g = [j \in 0..w+1 |-> IF j = 0 THEN 0 ELSE Radix * g[j-1] + b[j]]
    BY <2>2
  <2> QED
    BY <2>3
<1>3. Upto(Len(b))
  <2>1. 0 \in S
    BY <1>1
  <2>2. \A w \in Nat : w \in S => w + 1 \in S
    BY <1>2
  <2> HIDE DEF S
  <2>3. Len(b) \in S
    BY <2>1, <2>2, SetInduction
  <2> QED
    BY <2>3 DEF S
<1> DEFINE value == CHOOSE f : f = [j \in 0..Len(b) |-> IF j = 0 THEN 0 ELSE Radix * f[j-1] + b[j]]
<1>4. value = [j \in 0..Len(b) |-> IF j = 0 THEN 0 ELSE Radix * value[j-1] + b[j]]
  BY <1>3
<1>5. NumberOf(b) = value[Len(b)]
  BY DEF NumberOf
<1> HIDE DEF value
<1> QED
  BY <1>4, <1>5

\* What the gates read is the number that was written.
LEMMA NumberOfBytes ==
  ASSUME NEW v \in 0..Order-1
  PROVE  NumberOf(BytesOf(v)) = v
<1> DEFINE len == NumBytes(v)
           b == BytesOf(v)
<1>1. /\ len \in 0..Width /\ len \in Nat /\ v < Weight[len] /\ Len(b) = len
      /\ Width \in Nat /\ Radix \in Nat \ {0} /\ v \in Nat
  BY NumBytesType, BytesOfType, NativeAssumption, OrderType
<1>2. \A j \in 1..len : b[j] = (v \div Weight[len - j]) % Radix
  BY BytesOfType
<1>3. PICK value : /\ value = [j \in 0..len |-> IF j = 0 THEN 0 ELSE Radix * value[j-1] + b[j]]
                   /\ NumberOf(b) = value[len]
  BY <1>1, NumberOfDefined
<1> HIDE DEF len, b
<1> DEFINE S == {j \in Nat : j <= len => value[j] = v \div Weight[len - j]}
<1>4. 0 \in S
  <2>1. Weight[len] \in Nat \ {0}
    BY <1>1, WeightType
  <2>2. v = Weight[len] * 0 + v /\ v \in 0..Weight[len]-1
    BY <1>1, <2>1
  <2>3. v \div Weight[len] = 0
    BY <2>1, <2>2, DivisionIsUnique
  <2>4. value[0] = 0
    BY <1>1, <1>3
  <2> QED
    BY <1>1, <2>3, <2>4
<1>5. ASSUME NEW j \in Nat, j \in S
      PROVE  j + 1 \in S
  <2> SUFFICES ASSUME j + 1 <= len
               PROVE  value[j+1] = v \div Weight[len - (j + 1)]
    OBVIOUS
  <2> DEFINE n == len - (j + 1)
             q == v \div Weight[n]
  <2>1. n \in 0..Width /\ n + 1 \in 1..Width /\ len - j = n + 1
    BY <1>1
  <2>2. Weight[n] \in Nat \ {0} /\ Weight[n+1] = Radix * Weight[n]
    BY <2>1, WeightType
  <2>3. value[j] = v \div (Radix * Weight[n])
    BY <1>1, <1>5, <2>1, <2>2
  <2>4. value[j] = q \div Radix
    BY <1>1, <2>2, <2>3, DivisionTwice
  <2>5. b[j+1] = q % Radix
    BY <1>1, <1>2
  <2>6. value[j+1] = Radix * value[j] + b[j+1]
    BY <1>1, <1>3
  <2>7. q \in Nat
    BY <1>1, <2>2, Division
  <2> HIDE DEF q
  <2>8. q = Radix * (q \div Radix) + (q % Radix)
    BY <1>1, <2>7, Division
  <2>9. value[j+1] = q
    BY <2>4, <2>5, <2>6, <2>8
  <2> QED
    BY <2>9 DEF q, n
<1>6. len \in S
  <2> HIDE DEF S
  <2> QED
    BY <1>1, <1>4, <1>5, SetInduction
<1>7. len - len = 0 /\ Weight[0] = 1
  BY <1>1, WeightType
<1>8. v \div 1 = v
  BY <1>1
<1> QED
  BY <1>1, <1>3, <1>6, <1>7, <1>8 DEF b

\* Two numbers one behind the other can be cut apart when both have full length.
LEMMA CutInTheMiddle ==
  ASSUME NEW r \in 0..Order-1, NEW s \in 0..Order-1, NEW out,
         out = BytesOf(r) \o BytesOf(s)
  PROVE  /\ out \in Seq(0..Radix-1) /\ Len(out) <= 2 * Width
         /\ Len(out) = 2 * Width =>
              /\ NumberOf(SubSeq(out, 1, Width)) = r
              /\ NumberOf(SubSeq(out, Width + 1, 2 * Width)) = s
<1> DEFINE a == BytesOf(r)
           b == BytesOf(s)
<1>1. /\ a \in Seq(0..Radix-1) /\ b \in Seq(0..Radix-1)
      /\ Len(a) <= Width /\ Len(b) <= Width /\ Width \in Nat
  BY BytesOfType, NativeAssumption
<1>2. NumberOf(a) = r /\ NumberOf(b) = s
  BY NumberOfBytes
<1>3. out = a \o b
  OBVIOUS
<1> HIDE DEF a, b
<1>4. out \in Seq(0..Radix-1) /\ Len(out) = Len(a) + Len(b)
  BY <1>1, <1>3
<1>5. ASSUME Len(out) = 2 * Width
      PROVE  SubSeq(out, 1, Width) = a /\ SubSeq(out, Width + 1, 2 * Width) = b
  <2>1. Len(a) = Width /\ Len(b) = Width
    BY <1>1, <1>4, <1>5
  <2>2. SubSeq(out, 1, Width) = a
    BY <1>1, <1>3, <1>4, <1>5, <2>1
  <2>3. SubSeq(out, Width + 1, 2 * Width) = b
    BY <1>1, <1>3, <1>4, <1>5, <2>1
  <2> QED
    BY <2>2, <2>3
<1>6. Len(out) <= 2 * Width
  BY <1>1, <1>4
<1>7. Len(out) = 2 * Width =>
        /\ NumberOf(SubSeq(out, 1, Width)) = r
        /\ NumberOf(SubSeq(out, Width + 1, 2 * Width)) = s
  BY <1>2, <1>5
<1> QED
  BY <1>4, <1>6, <1>7
-----------------------------------------------------------------------------
(* Sequences *)

LEMMA ElementOf ==
  ASSUME NEW S, NEW s \in Seq(S)
  PROVE  Len(s) \in Nat /\ \A m \in 1..Len(s) : s[m] \in S
  OBVIOUS

LEMMA PartOf ==
  ASSUME NEW S, NEW s \in Seq(S), NEW a \in Nat, NEW n \in Nat, a + n <= Len(s)
  PROVE  /\ SubSeq(s, a + 1, a + n) \in Seq(S)
         /\ Len(SubSeq(s, a + 1, a + n)) = n
         /\ \A m \in 1..n : SubSeq(s, a + 1, a + n)[m] = s[a + m]
  OBVIOUS

LEMMA OneBehindTheOther ==
  ASSUME NEW S, NEW s \in Seq(S), NEW t \in Seq(S)
  PROVE  /\ s \o t \in Seq(S) /\ Len(s \o t) = Len(s) + Len(t)
         /\ \A n \in 1..Len(s) : (s \o t)[n] = s[n]
         /\ \A n \in 1..Len(t) : (s \o t)[Len(s) + n] = t[n]
  OBVIOUS

LEMMA TimesMonotone ==
  ASSUME NEW n \in Nat, NEW a \in Nat, NEW b \in Nat, a <= b
  PROVE  n * a \in Nat /\ n * a <= n * b
<1>1. n * b = n * a + n * (b - a) /\ n * (b - a) \in Nat /\ n * a \in Nat
  <2>1. b - a \in Nat /\ b = a + (b - a)
    OBVIOUS
  <2>2. \A c \in Nat : n * (a + c) = n * a + n * c /\ n * c \in Nat /\ n * a \in Nat
    OBVIOUS
  <2> QED
    BY <2>1, <2>2
<1> QED
  BY <1>1
-----------------------------------------------------------------------------
(* AES *)

\* The two parts of what aesEnc encrypts: the whole blocks of the argument, and
\* the block that is filled up.
LEMMA BlocksOfInput ==
  ASSUME NEW in \in Seq(0..255), NEW whole \in Nat, NEW rest \in 0..AES_BLOCK_SIZE-1,
         whole = Blocks(in), rest = Len(in) % AES_BLOCK_SIZE
  PROVE  /\ Len(in) = AES_BLOCK_SIZE * whole + rest
         /\ \A j \in 0..whole-1, n \in 1..AES_BLOCK_SIZE :
              BlockOf(in, j + 1)[n] = in[AES_BLOCK_SIZE * j + n]
         /\ \A n \in 1..rest : LastBlock(in)[n] = in[AES_BLOCK_SIZE * whole + n]
         /\ LastBlock(in)[AES_BLOCK_SIZE] = AES_BLOCK_SIZE - rest
<1>1. AES_BLOCK_SIZE \in Nat \ {0} /\ AES_BLOCK_SIZE \in 1..255 /\ Len(in) \in Nat
  BY NativeAssumption
<1>2. Len(in) = AES_BLOCK_SIZE * whole + rest
  BY <1>1, Division DEF Blocks
<1>3. \A j \in 0..whole-1, n \in 1..AES_BLOCK_SIZE :
        BlockOf(in, j + 1)[n] = in[AES_BLOCK_SIZE * j + n]
  <2> SUFFICES ASSUME NEW j \in 0..whole-1, NEW n \in 1..AES_BLOCK_SIZE
               PROVE  BlockOf(in, j + 1)[n] = in[AES_BLOCK_SIZE * j + n]
    OBVIOUS
  <2> DEFINE from == AES_BLOCK_SIZE * j
  <2>1. /\ from \in Nat /\ ((j + 1) - 1) * AES_BLOCK_SIZE = from
        /\ (j + 1) * AES_BLOCK_SIZE = from + AES_BLOCK_SIZE
        /\ AES_BLOCK_SIZE * (j + 1) = from + AES_BLOCK_SIZE
    BY <1>1
  <2>2. AES_BLOCK_SIZE * (j + 1) <= AES_BLOCK_SIZE * whole
    <3>1. AES_BLOCK_SIZE \in Nat /\ j + 1 \in Nat /\ whole \in Nat /\ j + 1 <= whole
      BY <1>1
    <3> QED
      BY ONLY <3>1, TimesMonotone
  <2>3. AES_BLOCK_SIZE * whole \in Nat
    BY <1>1
  <2>4. BlockOf(in, j + 1) = SubSeq(in, from + 1, from + AES_BLOCK_SIZE)
    BY <2>1 DEF BlockOf
  <2> HIDE DEF from
  <2>5. from + AES_BLOCK_SIZE <= Len(in)
    <3>1. from + AES_BLOCK_SIZE <= AES_BLOCK_SIZE * whole
      BY <2>1, <2>2
    <3> DEFINE upto == AES_BLOCK_SIZE * whole
    <3>2. upto \in Nat /\ from + AES_BLOCK_SIZE <= upto /\ Len(in) = upto + rest
      BY <1>2, <2>3, <3>1
    <3> HIDE DEF upto
    <3> QED
      BY <1>1, <2>1, <3>2
  <2>6. SubSeq(in, from + 1, from + AES_BLOCK_SIZE)[n] = in[from + n]
    <3>1. from \in Nat /\ AES_BLOCK_SIZE \in Nat /\ in \in Seq(0..255)
      BY <1>1, <2>1
    <3>2. \A m \in 1..AES_BLOCK_SIZE : SubSeq(in, from + 1, from + AES_BLOCK_SIZE)[m] = in[from + m]
      BY ONLY <2>5, <3>1, PartOf
    <3> QED
      BY <3>2
  <2> QED
    BY <2>4, <2>6 DEF from
<1> DEFINE from == AES_BLOCK_SIZE * whole
           pading == AES_BLOCK_SIZE - rest
           tail == SubSeq(in, from + 1, from + rest)
           fill == [n \in 1..pading |-> pading]
<1>4. from \in Nat /\ whole * AES_BLOCK_SIZE = from
  BY <1>1
<1>5. pading \in Nat \ {0} /\ pading \in 0..255 /\ rest + pading = AES_BLOCK_SIZE
  <2>1. \A b \in 0..AES_BLOCK_SIZE-1 :
          /\ AES_BLOCK_SIZE - b \in 1..255
          /\ b + (AES_BLOCK_SIZE - b) = AES_BLOCK_SIZE
    BY <1>1
  <2>2. pading \in 1..255 /\ rest + pading = AES_BLOCK_SIZE
    BY <2>1
  <2> HIDE DEF pading
  <2> QED
    BY <2>2
<1>6. LastBlock(in) = tail \o fill
  BY <1>2, <1>4 DEF LastBlock
<1> HIDE DEF from, pading
<1>7. tail \in Seq(0..255) /\ Len(tail) = rest /\ \A n \in 1..rest : tail[n] = in[from + n]
  <2>1. Len(in) = from + rest
    BY <1>2 DEF from
  <2>2. from + rest <= Len(in) /\ rest \in Nat
    BY <1>1, <1>4, <2>1
  <2>3. tail \in Seq(0..255)
    BY <1>4, <2>2, PartOf
  <2>4. Len(tail) = rest
    BY <1>4, <2>2, PartOf
  <2>5. \A n \in 1..rest : tail[n] = in[from + n]
    BY <1>4, <2>2, PartOf
  <2> QED
    BY <2>3, <2>4, <2>5
<1>8. fill \in Seq(0..255) /\ Len(fill) = pading /\ fill[pading] = pading
  BY <1>5
<1> HIDE DEF tail, fill
<1>9. /\ \A n \in 1..rest : LastBlock(in)[n] = tail[n]
      /\ LastBlock(in)[rest + pading] = fill[pading]
  <2>1. pading \in 1..pading
    BY <1>5
  <2> QED
    BY <1>6, <1>7, <1>8, <2>1, OneBehindTheOther
<1>10. /\ \A n \in 1..rest : LastBlock(in)[n] = in[from + n]
       /\ LastBlock(in)[AES_BLOCK_SIZE] = pading
  BY <1>5, <1>7, <1>8, <1>9
<1> QED
  BY <1>2, <1>3, <1>10 DEF from, pading

\* aesDec inverts aesEnc.
LEMMA AesInverse ==
  ASSUME NEW in \in Seq(0..255), NEW key
  PROVE  aesDec(aesEnc(in, key)) = in
<1> DEFINE whole == Blocks(in)
           rest == Len(in) % AES_BLOCK_SIZE
           cipher == aesEnc(in, key)
           length == (whole + 1) * AES_BLOCK_SIZE
           out == [n \in 1..length |->
                     cipher[((n-1) \div AES_BLOCK_SIZE) + 1].block[((n-1) % AES_BLOCK_SIZE) + 1]]
<1>1. AES_BLOCK_SIZE \in Nat \ {0} /\ Len(in) \in Nat
  BY NativeAssumption
<1>2. whole \in Nat /\ rest \in 0..AES_BLOCK_SIZE-1
  BY <1>1, Division DEF Blocks
<1>3. Len(cipher) = whole + 1
  BY <1>2 DEF aesEnc
<1>4. /\ \A j \in 0..whole-1 : cipher[j + 1].block = BlockOf(in, j + 1)
      /\ cipher[whole + 1].block = LastBlock(in)
  BY <1>2 DEF aesEnc
<1>5. /\ Len(in) = AES_BLOCK_SIZE * whole + rest
      /\ \A j \in 0..whole-1, n \in 1..AES_BLOCK_SIZE :
           BlockOf(in, j + 1)[n] = in[AES_BLOCK_SIZE * j + n]
      /\ \A n \in 1..rest : LastBlock(in)[n] = in[AES_BLOCK_SIZE * whole + n]
      /\ LastBlock(in)[AES_BLOCK_SIZE] = AES_BLOCK_SIZE - rest
  BY <1>2, BlocksOfInput
<1>6. aesDec(cipher) = SubSeq(out, 1, length - out[length])
  BY <1>3 DEF aesDec
<1> HIDE DEF whole, rest, cipher
<1> DEFINE base == AES_BLOCK_SIZE * whole
<1>7. base \in Nat /\ length = base + AES_BLOCK_SIZE
  BY <1>1, <1>2
<1>8. \A n \in 1..length :
        out[n] = cipher[((n-1) \div AES_BLOCK_SIZE) + 1].block[((n-1) % AES_BLOCK_SIZE) + 1]
  OBVIOUS
<1> HIDE DEF length, out
<1>9. ASSUME NEW n \in 1..Len(in)
      PROVE  out[n] = in[n]
  <2> DEFINE q == (n-1) \div AES_BLOCK_SIZE
             r == (n-1) % AES_BLOCK_SIZE
  <2>1. q \in Nat /\ r \in 0..AES_BLOCK_SIZE-1 /\ n - 1 = AES_BLOCK_SIZE * q + r
    <3>1. n - 1 \in Nat
      BY <1>1
    <3> QED
      BY <1>1, <3>1, Division
  <2>2. n \in 1..length
    <3> HIDE DEF base
    <3> QED
      BY <1>1, <1>2, <1>5, <1>7 DEF base
  <2>3. out[n] = cipher[q + 1].block[r + 1]
    BY <1>8, <2>2
  <2> HIDE DEF q, r
  <2>4. r + 1 \in 1..AES_BLOCK_SIZE
    BY <1>1, <2>1
  <2>5. CASE q < whole
    <3>1. q \in 0..whole-1
      BY <1>2, <2>1, <2>5
    <3>2. out[n] = in[AES_BLOCK_SIZE * q + (r + 1)]
      BY <1>4, <1>5, <2>3, <2>4, <3>1
    <3> DEFINE from == AES_BLOCK_SIZE * q
    <3>3. from \in Nat /\ n - 1 = from + r
      BY <1>1, <2>1
    <3> HIDE DEF from
    <3>4. from + (r + 1) = n
      BY <1>1, <2>1, <3>3
    <3> QED
      BY <3>2, <3>4 DEF from
  <2>6. CASE q = whole
    <3> HIDE DEF base
    <3>1. n - 1 = base + r /\ Len(in) = base + rest
      BY <1>5, <2>1, <2>6 DEF base
    <3>2. r + 1 \in 1..rest /\ base + (r + 1) = n
      BY <1>1, <1>2, <1>7, <2>1, <3>1
    <3>3. out[n] = LastBlock(in)[r + 1]
      BY <1>4, <2>3, <2>6
    <3>4. out[n] = in[base + (r + 1)]
      BY <1>5, <3>2, <3>3 DEF base
    <3> QED
      BY <3>2, <3>4
  <2>7. q <= whole
    <3> SUFFICES ASSUME q >= whole + 1 PROVE FALSE
      BY <1>2, <2>1
    <3>1. AES_BLOCK_SIZE * (whole + 1) <= AES_BLOCK_SIZE * q
      BY <1>1, <1>2, <2>1, TimesMonotone
    <3>2. AES_BLOCK_SIZE * (whole + 1) = base + AES_BLOCK_SIZE
      BY <1>1, <1>2
    <3> DEFINE from == AES_BLOCK_SIZE * q
    <3>3. from \in Nat /\ n - 1 = from + r /\ base + AES_BLOCK_SIZE <= from
      BY <1>1, <2>1, <3>1, <3>2
    <3>4. Len(in) = base + rest
      BY <1>5
    <3> HIDE DEF base, from
    <3> QED
      BY <1>1, <1>2, <1>7, <2>1, <3>3, <3>4
  <2> QED
    BY <1>2, <2>1, <2>5, <2>6, <2>7
<1>10. out[length] = AES_BLOCK_SIZE - rest
  <2>1. /\ AES_BLOCK_SIZE - 1 \in 0..AES_BLOCK_SIZE-1 /\ length \in 1..length
        /\ length - 1 = base + (AES_BLOCK_SIZE - 1)
    <3> HIDE DEF base
    <3> QED
      BY <1>1, <1>7
  <2>2. /\ (length - 1) \div AES_BLOCK_SIZE = whole
        /\ (length - 1) % AES_BLOCK_SIZE = AES_BLOCK_SIZE - 1
    BY <1>1, <1>2, <2>1, DivisionIsUnique
  <2>3. out[length] = cipher[whole + 1].block[(AES_BLOCK_SIZE - 1) + 1]
    BY <1>8, <2>1, <2>2
  <2>4. (AES_BLOCK_SIZE - 1) + 1 = AES_BLOCK_SIZE
    BY <1>1
  <2> QED
    BY <1>4, <1>5, <2>3, <2>4
<1>11. length - out[length] = Len(in)
  <2>1. Len(in) = base + rest
    BY <1>5
  <2> HIDE DEF base
  <2> QED
    BY <1>1, <1>2, <1>7, <1>10, <2>1
<1>12. SubSeq(out, 1, Len(in)) = in
  <2>1. SubSeq(out, 1, Len(in)) = [n \in 1..Len(in) |-> out[n]]
    BY <1>1
  <2>2. in = [n \in 1..Len(in) |-> in[n]]
    OBVIOUS
  <2>3. [n \in 1..Len(in) |-> out[n]] = [n \in 1..Len(in) |-> in[n]]
    BY <1>9
  <2> QED
    BY <2>1, <2>2, <2>3
<1> QED
  BY <1>6, <1>11, <1>12 DEF cipher
-----------------------------------------------------------------------------
(* Hex *)

LEMMA HalvesOfByte ==
  ASSUME NEW v \in 0..255
  PROVE  v \div 16 \in 0..15 /\ v % 16 \in 0..15 /\ 16 * (v \div 16) + (v % 16) = v
  OBVIOUS

\* The character of half a byte, a capital, and its digit.
LEMMA HalfByte ==
  ASSUME NEW v \in 0..15
  PROVE  LET c == IF v < 10 THEN v + 48 ELSE v - 10 + 65
         IN  c \in Decimals \cup Capitals /\ Digit(c) = v
<1>1. CASE v < 10
  <2>1. v + 48 \in Decimals /\ (v + 48) - 48 = v
    BY <1>1 DEF Decimals
  <2> QED
    BY <1>1, <2>1 DEF Digit, Decimals, Smalls, Capitals
<1>2. CASE ~(v < 10)
  <2>1. /\ v - 10 + 65 \in Capitals /\ ((v - 10 + 65) - 65) + 10 = v
        /\ v - 10 + 65 \notin Decimals /\ v - 10 + 65 \notin Smalls
    BY <1>2 DEF Decimals, Smalls, Capitals
  <2> QED
    BY <1>2, <2>1 DEF Digit
<1> QED
  BY <1>1, <1>2

\* hex2bin inverts bin2hex, and takes every text of bin2hex for one in hex.
LEMMA HexInverse ==
  ASSUME NEW in \in Seq(0..255)
  PROVE  hex2bin(bin2hex(in)) = in
<1> DEFINE h == bin2hex(in)
           Half(n) == IF n % 2 = 1 THEN in[(n+1) \div 2] \div 16 ELSE in[(n+1) \div 2] % 16
<1>1. Len(in) \in Nat /\ \A m \in 1..Len(in) : in[m] \in 0..255
  BY ElementOf
<1>2. Len(h) = 2 * Len(in)
  BY <1>1 DEF bin2hex
<1>3. ASSUME NEW n \in 1..2*Len(in)
      PROVE  h[n] \in Decimals \cup Capitals /\ Digit(h[n]) = Half(n)
  <2>1. (n+1) \div 2 \in 1..Len(in)
    BY <1>1
  <2>2. in[(n+1) \div 2] \div 16 \in 0..15 /\ in[(n+1) \div 2] % 16 \in 0..15
    BY <1>1, <2>1, HalvesOfByte
  <2>3. Half(n) \in 0..15
    BY <2>2
  <2>4. h[n] = IF Half(n) < 10 THEN Half(n) + 48 ELSE Half(n) - 10 + 65
    BY DEF bin2hex
  <2> HIDE DEF h, Half
  <2> DEFINE v == Half(n)
             c == IF v < 10 THEN v + 48 ELSE v - 10 + 65
  <2>5. c \in Decimals \cup Capitals /\ Digit(c) = v
    BY <2>3, HalfByte
  <2>6. h[n] = c
    BY <2>4
  <2> HIDE DEF c, v
  <2>7. Half(n) = v
    BY DEF v
  <2> QED
    BY <2>5, <2>6, <2>7
<1> HIDE DEF h
<1>4. Len(h) % 2 = 0 /\ Len(h) \div 2 = Len(in)
  BY <1>1, <1>2
<1>5. \A n \in 1..Len(h) : h[n] \in Decimals \cup Smalls \cup Capitals
  BY <1>2, <1>3
<1>6. hex2bin(h) = [n \in 1..Len(in) |-> 16 * Digit(h[2*n - 1]) + Digit(h[2*n])]
  BY <1>4, <1>5 DEF hex2bin
<1>7. ASSUME NEW n \in 1..Len(in)
      PROVE  16 * Digit(h[2*n - 1]) + Digit(h[2*n]) = in[n]
  <2>1. 2*n - 1 \in 1..2*Len(in) /\ 2*n \in 1..2*Len(in)
    BY <1>1
  <2>2. /\ (2*n - 1) % 2 = 1 /\ (2*n) % 2 = 0
        /\ ((2*n - 1) + 1) \div 2 = n /\ (2*n + 1) \div 2 = n
    BY <1>1
  <2>3. Digit(h[2*n - 1]) = in[n] \div 16
    BY <1>3, <2>1, <2>2
  <2>4. Digit(h[2*n]) = in[n] % 16
    BY <1>3, <2>1, <2>2
  <2>5. 16 * (in[n] \div 16) + (in[n] % 16) = in[n]
    BY <1>1, HalvesOfByte
  <2> QED
    BY <2>3, <2>4, <2>5
<1>8. [n \in 1..Len(in) |-> 16 * Digit(h[2*n - 1]) + Digit(h[2*n])] = [n \in 1..Len(in) |-> in[n]]
  BY <1>7
<1>9. in = [n \in 1..Len(in) |-> in[n]]
  OBVIOUS
<1> QED
  BY <1>6, <1>8, <1>9 DEF h
-----------------------------------------------------------------------------
(* The calls *)

\* What a call of an inverse will find: the array of the call before.
Encodings ==
  /\ last.fn = "aesEnc" => last.from \in Inputs /\ last.out = aesEnc(last.from, last.with)
  /\ last.fn = "bin2hex" => last.from \in Inputs /\ last.out = bin2hex(last.from)

\* Once genSM2KeyPairs has set the path, only it leaves the files with two keys.
FilesAgree ==
  path /\ ~writeFailed =>
    /\ op \in {"idle", "sign"} => files.private = files.public
    /\ op = "public" => files.private = arg

WritesToPath == op \in {"private", "public"} => path /\ last = Nothing

\* What sm2Enc gave is with the key that is in the file still.
Encrypted ==
  last.fn = "sm2Enc" =>
    /\ path
    /\ last.out # None => last.out = [of |-> last.from, by |-> files.public]

NativeInv ==
  /\ NativeTypeOK /\ SignatureVerifies /\ DecodesEncoded /\ DecryptsOwn
  /\ Encodings /\ FilesAgree /\ WritesToPath /\ Encrypted

LEMMA InitNative == Init => NativeInv
<1> SUFFICES ASSUME Init PROVE NativeInv
  OBVIOUS
<1>1. /\ op = "idle" /\ path = FALSE /\ writeFailed = FALSE /\ last.fn = "none"
      /\ files = [private |-> None, public |-> None]
  BY DEF Init, Nothing, Returned
<1>2. files \in [private : KeyPairs \cup {None}, public : KeyPairs \cup {None}]
  BY <1>1
<1>3. NativeTypeOK
  BY <1>1, <1>2 DEF NativeTypeOK
<1> QED
  BY <1>1, <1>3
  DEF NativeInv, SignatureVerifies, DecodesEncoded, DecryptsOwn,
      Encodings, FilesAgree, WritesToPath, Encrypted

\* A round of the rejection loop returns a signature that verifies.
LEMMA SignRoundInv ==
  ASSUME NativeInv, NEW k \in 1..Order-1, SignRound(k)
  PROVE  NativeInv'
<1> DEFINE d == arg.d
           e == arg.e
           x == XOf[k] % Order
           r == (x + e) % Order
           s == (Inverse((1 + d) % Order) * Minus(k, r * d)) % Order
           code == BytesOf(r) \o BytesOf(s)
<1>1. /\ op = "sign" /\ x # 0 /\ r # 0 /\ (r + k) % Order # 0
      /\ op' = "idle" /\ arg' = None /\ UNCHANGED <<path, files, writeFailed>>
      /\ \/ last' = Returned("sm2Sign", arg, None, None)
         \/ /\ (1 + d) % Order # 0 /\ s # 0
            /\ last' = Returned("sm2Sign", arg, <<r, s>>, code)
  BY DEF SignRound, Return
<1>2. d \in Nat /\ e \in Nat
  BY <1>1, NativeAssumption DEF NativeInv, NativeTypeOK
<1>3. /\ NativeTypeOK /\ FilesAgree
  BY DEF NativeInv
<1>4. CASE last' = Returned("sm2Sign", arg, None, None)
  <2>1. last'.fn = "sm2Sign" /\ last'.out = None
    BY <1>4 DEF Returned
  <2> QED
    BY <1>1, <1>3, <2>1
    DEF NativeInv, NativeTypeOK, SignatureVerifies, DecodesEncoded, DecryptsOwn,
        Encodings, FilesAgree, WritesToPath, Encrypted
<1>5. CASE (1 + d) % Order # 0 /\ s # 0 /\ last' = Returned("sm2Sign", arg, <<r, s>>, code)
  <2>1. r \in 1..Order-1 /\ s \in 1..Order-1 /\ Verifies(d, e, r, s)
    BY <1>1, <1>2, <1>5, RoundVerifies
  <2>2. /\ last'.fn = "sm2Sign" /\ last'.with.d = d /\ last'.with.e = e
        /\ last'.from[1] = r /\ last'.from[2] = s /\ last'.out = code
    BY <1>5 DEF Returned
  <2> HIDE DEF d, e, r, s
  <2>3. r \in 0..Order-1 /\ s \in 0..Order-1
    BY <2>1, OrderType
  <2>4. /\ code \in Seq(0..Radix-1) /\ Len(code) <= 2 * Width
        /\ Len(code) = 2 * Width =>
             /\ NumberOf(SubSeq(code, 1, Width)) = r
             /\ NumberOf(SubSeq(code, Width + 1, 2 * Width)) = s
    BY <2>3, CutInTheMiddle
  <2> HIDE DEF code
  <2>5. SignatureVerifies'
    BY <2>1, <2>2, <2>4 DEF SignatureVerifies
  <2>6. NativeTypeOK'
    BY <1>1, <1>3, <2>2, <2>4 DEF NativeTypeOK
  <2> QED
    BY <1>1, <1>3, <2>2, <2>5, <2>6
    DEF NativeInv, DecodesEncoded, DecryptsOwn, Encodings, FilesAgree, WritesToPath, Encrypted
<1> QED
  BY <1>1, <1>4, <1>5

LEMMA NextNative == NativeInv /\ [Next]_vars => NativeInv'
<1> SUFFICES ASSUME NativeInv, [Next]_vars
             PROVE  NativeInv'
  OBVIOUS
<1> USE DEF NativeInv
<1>1. ASSUME NEW d \in SignKeys, NEW e \in Digests, Sm2Sign(d, e)
      PROVE  NativeInv'
  BY <1>1
  DEF Sm2Sign, Return, Returned, NativeTypeOK, SignatureVerifies, DecodesEncoded, DecryptsOwn,
      Encodings, FilesAgree, WritesToPath, Encrypted
<1>2. ASSUME NEW k \in 1..Order-1, SignRound(k)
      PROVE  NativeInv'
  BY <1>2, SignRoundInv
<1>3. ASSUME NEW in \in Inputs, NEW key \in CipherKeys, AesEnc(in, key)
      PROVE  NativeInv'
  <2> HIDE DEF NativeInv
  <2>1. /\ op = "idle" /\ op' = "idle" /\ arg' = None /\ UNCHANGED <<path, files, writeFailed>>
        /\ last'.fn = "aesEnc" /\ last'.from = in /\ last'.with = key
        /\ last'.out = aesEnc(in, key)
    BY <1>3 DEF AesEnc, Return, Returned
  <2> QED
    BY <2>1
    DEF NativeInv, NativeTypeOK, SignatureVerifies, DecodesEncoded, DecryptsOwn,
        Encodings, FilesAgree, WritesToPath, Encrypted
<1>4. ASSUME NEW in \in Inputs, Bin2Hex(in)
      PROVE  NativeInv'
  <2>1. /\ op = "idle" /\ op' = "idle" /\ arg' = None /\ UNCHANGED <<path, files, writeFailed>>
        /\ last'.fn = "bin2hex" /\ last'.from = in /\ last'.out = bin2hex(in)
    BY <1>4 DEF Bin2Hex, Return, Returned
  <2> QED
    BY <2>1
    DEF NativeTypeOK, SignatureVerifies, DecodesEncoded, DecryptsOwn,
        Encodings, FilesAgree, WritesToPath, Encrypted
<1>5. CASE AesDec
  <2>1. /\ op = "idle" /\ op' = "idle" /\ arg' = None /\ UNCHANGED <<path, files, writeFailed>>
        /\ last.fn = "aesEnc" /\ last'.fn = "aesDec"
        /\ last'.from = last.from /\ last'.out = aesDec(last.out)
    BY <1>5 DEF AesDec, Return, Returned
  <2>2. last.from \in Seq(0..255) /\ last.out = aesEnc(last.from, last.with)
    BY <2>1, NativeAssumption DEF Encodings
  <2>3. last'.out = last'.from
    BY <2>1, <2>2, AesInverse
  <2> QED
    BY <2>1, <2>3
    DEF NativeTypeOK, SignatureVerifies, DecodesEncoded, DecryptsOwn,
        Encodings, FilesAgree, WritesToPath, Encrypted
<1>6. CASE Hex2Bin
  <2>1. /\ op = "idle" /\ op' = "idle" /\ arg' = None /\ UNCHANGED <<path, files, writeFailed>>
        /\ last.fn = "bin2hex" /\ last'.fn = "hex2bin"
        /\ last'.from = last.from /\ last'.out = hex2bin(last.out)
    BY <1>6 DEF Hex2Bin, Return, Returned
  <2>2. last.from \in Seq(0..255) /\ last.out = bin2hex(last.from)
    BY <2>1, NativeAssumption DEF Encodings
  <2>3. last'.out = last'.from
    BY <2>1, <2>2, HexInverse
  <2> QED
    BY <2>1, <2>3
    DEF NativeTypeOK, SignatureVerifies, DecodesEncoded, DecryptsOwn,
        Encodings, FilesAgree, WritesToPath, Encrypted
<1>7. ASSUME NEW pair \in KeyPairs, GenSM2KeyPairs(pair)
      PROVE  NativeInv'
  BY <1>7
  DEF GenSM2KeyPairs, Nothing, Returned, NativeTypeOK, SignatureVerifies, DecodesEncoded,
      DecryptsOwn, Encodings, FilesAgree, WritesToPath, Encrypted
<1>8. ASSUME NEW which \in {"private", "public"}, WriteFile(which)
      PROVE  NativeInv'
  <2>1. /\ op = which /\ path /\ arg \in KeyPairs /\ last = Nothing /\ last.fn = "none"
        /\ UNCHANGED <<last, path>>
    BY <1>8 DEF WriteFile, WritesToPath, NativeTypeOK, Nothing, Returned
  <2>2. \/ files' = [files EXCEPT ![which] = arg] /\ writeFailed' = writeFailed
        \/ files' = files /\ writeFailed' = TRUE
    BY <1>8 DEF WriteFile
  <2>3. \/ which = "private" /\ op' = "public" /\ arg' = arg
        \/ which = "public" /\ op' = "idle"
    BY <1>8 DEF WriteFile
  <2>4. /\ files \in [private : KeyPairs \cup {None}, public : KeyPairs \cup {None}]
        /\ writeFailed \in BOOLEAN
    BY DEF NativeTypeOK
  <2>5. /\ files' \in [private : KeyPairs \cup {None}, public : KeyPairs \cup {None}]
        /\ writeFailed' \in BOOLEAN
    BY <2>1, <2>2, <2>4
  <2>6. FilesAgree'
    <3>1. CASE which = "private"
      BY <2>1, <2>2, <2>3, <2>4, <3>1 DEF FilesAgree
    <3>2. CASE which = "public"
      BY <2>1, <2>2, <2>3, <2>4, <3>2 DEF FilesAgree
    <3> QED
      BY <3>1, <3>2
  <2>7. NativeTypeOK'
    BY <2>1, <2>3, <2>5 DEF NativeTypeOK
  <2> QED
    BY <2>1, <2>3, <2>6, <2>7
    DEF SignatureVerifies, DecodesEncoded, DecryptsOwn, Encodings, WritesToPath, Encrypted
<1>9. CASE ProcessDies
  BY <1>9
  DEF ProcessDies, Nothing, Returned, NativeTypeOK, SignatureVerifies, DecodesEncoded,
      DecryptsOwn, Encodings, FilesAgree, WritesToPath, Encrypted
<1>10. ASSUME NEW p \in Plaintexts, Sm2Enc(p)
       PROVE  NativeInv'
  BY <1>10
  DEF Sm2Enc, Return, Returned, NativeTypeOK, SignatureVerifies, DecodesEncoded,
      DecryptsOwn, Encodings, FilesAgree, WritesToPath, Encrypted
<1>11. CASE Sm2Dec
  <2>1. /\ op = "idle" /\ path /\ last.fn = "sm2Enc" /\ last.out # None
        /\ op' = "idle" /\ arg' = None /\ UNCHANGED <<path, files, writeFailed>>
        /\ last'.fn = "sm2Dec" /\ last'.from = last.from
        /\ last'.out = IF files.private = last.out.by THEN last.out.of ELSE None
    BY <1>11 DEF Sm2Dec, Return, Returned
  <2>2. last.out = [of |-> last.from, by |-> files.public]
    BY <2>1 DEF Encrypted
  <2>3. ~writeFailed => last'.out = last'.from
    BY <2>1, <2>2 DEF FilesAgree
  <2> QED
    BY <2>1, <2>3
    DEF NativeTypeOK, SignatureVerifies, DecodesEncoded, DecryptsOwn,
        Encodings, FilesAgree, WritesToPath, Encrypted
<1>12. CASE UNCHANGED vars
  BY <1>12
  DEF vars, NativeTypeOK, SignatureVerifies, DecodesEncoded, DecryptsOwn,
      Encodings, FilesAgree, WritesToPath, Encrypted
<1> QED
  BY <1>1, <1>2, <1>3, <1>4, <1>5, <1>6, <1>7, <1>8, <1>9, <1>10, <1>11, <1>12 DEF Next

LEMMA NativeSafe == Spec => []NativeInv
BY InitNative, NextNative, PTL DEF Spec
-----------------------------------------------------------------------------
\* The calls keep to their types: the code of a signature is a sequence of bytes
\* of at most twice the width of the order.
THEOREM NativeTypeCorrect == Spec => []NativeTypeOK
<1>1. NativeInv => NativeTypeOK
  BY DEF NativeInv
<1> QED
  BY NativeSafe, <1>1, PTL

\* For every group of prime order, every key and digest, and whatever the
\* rejection loop draws: what sm2Sign returns is accepted by sm2_do_verify, and
\* still is when a code of full length is cut into its two numbers.
THEOREM SignatureIsAccepted == Spec => []SignatureVerifies
<1>1. NativeInv => SignatureVerifies
  BY DEF NativeInv
<1> QED
  BY NativeSafe, <1>1, PTL

\* For every size of a block, every argument and key: aesDec gives back what was
\* passed to aesEnc, and hex2bin what was passed to bin2hex.
THEOREM DecodingInverts == Spec => []DecodesEncoded
<1>1. NativeInv => DecodesEncoded
  BY DEF NativeInv
<1> QED
  BY NativeSafe, <1>1, PTL

\* Wherever the process dies between the two writes of genSM2KeyPairs: unless a
\* write failed, sm2Dec decrypts what sm2Enc encrypted.
THEOREM OwnIsDecrypted == Spec => []DecryptsOwn
<1>1. NativeInv => DecryptsOwn
  BY DEF NativeInv
<1> QED
  BY NativeSafe, <1>1, PTL
=============================================================================
