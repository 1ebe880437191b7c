-------------------------- MODULE ArithmeticProofs --------------------------
(***************************************************************************)
(* The words and limbs of internal/edwards25519, of every size: what an    *)
(* operation on a field element or a scalar stands for, how large limbs    *)
(* get, what an encoding keeps and what the chains of powers compute.      *)
(***************************************************************************)
EXTENDS AlgorithmProps, WellFoundedInduction, SequenceTheorems, TLAPS

----------------------------------------------------------------------------
(* Integers that differ by a multiple of m.                                *)
Same(x, y, m) == \E k \in Int : x = y + m * k

LEMMA SmallMultiple ==
  ASSUME NEW m \in Nat, m >= 1, NEW z \in Int, NEW d \in Int, d = m * z, d < m, d > -m
  PROVE  z = 0
<1>1. ASSUME z >= 1 PROVE FALSE
  <2>1. m * z >= m * 1
    BY <1>1
  <2> QED BY <2>1
<1>2. ASSUME z <= -1 PROVE FALSE
  <2>1. m * z <= m * (-1)
    BY <1>2
  <2> QED BY <2>1
<1> QED BY <1>1, <1>2

LEMMA Remainder ==
  ASSUME NEW m \in Nat, m >= 1, NEW x \in Int
  PROVE  x % m \in 0 .. m - 1 /\ x \div m \in Int /\ x = m * (x \div m) + (x % m)
OBVIOUS

LEMMA SameRemainder ==
  ASSUME NEW m \in Nat, m >= 1, NEW x \in Int, NEW y \in 0 .. m - 1, Same(x, y, m)
  PROVE  x % m = y
<1> DEFINE q == x \div m  r == x % m
<1>1. r \in 0 .. m - 1 /\ q \in Int /\ x = m * q + r
  BY Remainder
<1>2. PICK k \in Int : x = y + m * k
  BY DEF Same
<1> HIDE DEF q, r
<1>3. r - y = m * (k - q)
  BY <1>1, <1>2
<1> DEFINE z == k - q  d == r - y
<1>4. z \in Int /\ d \in Int /\ d = m * z /\ d < m /\ d > -m
  BY <1>1, <1>3
<1> HIDE DEF z, d
<1>5. z = 0
  BY <1>4, SmallMultiple
<1>6. d = 0
  BY <1>4, <1>5
<1> QED BY <1>1, <1>6 DEF d, r

LEMMA SameSymmetric ==
  ASSUME NEW m \in Int, NEW x \in Int, NEW y \in Int, Same(x, y, m)
  PROVE  Same(y, x, m)
<1>1. PICK k \in Int : x = y + m * k
  BY DEF Same
<1>2. y = x + m * (-k) /\ -k \in Int
  BY <1>1
<1> QED BY <1>2 DEF Same

LEMMA SameItsRemainder ==
  ASSUME NEW m \in Nat, m >= 1, NEW x \in Int
  PROVE  Same(x % m, x, m) /\ Same(x, x % m, m) /\ Same(x, x, m)
<1> DEFINE q == x \div m  r == x % m
<1>1. r \in Int /\ q \in Int /\ x = m * q + r
  BY Remainder
<1> HIDE DEF q, r
<1>2. r = x + m * (-q) /\ -q \in Int
  BY <1>1
<1>3. x = x + m * 0
  OBVIOUS
<1>4. Same(x, x, m)
  <2>1. 0 \in Int
    OBVIOUS
  <2> QED BY <1>3, <2>1 DEF Same
<1>5. Same(r, x, m)
  BY <1>2 DEF Same
<1>6. Same(x, r, m)
  BY <1>1, <1>5, SameSymmetric
<1> QED BY <1>4, <1>5, <1>6 DEF r

LEMMA SameTransitive ==
  ASSUME NEW m \in Int, NEW x \in Int, NEW y \in Int, NEW z \in Int, Same(x, y, m), Same(y, z, m)
  PROVE  Same(x, z, m)
<1>1. PICK j \in Int : x = y + m * j
  BY DEF Same
<1>2. PICK k \in Int : y = z + m * k
  BY DEF Same
<1>3. x = z + m * (j + k) /\ j + k \in Int
  BY <1>1, <1>2
<1> QED BY <1>3 DEF Same

LEMMA SameSum ==
  ASSUME NEW m \in Int, NEW x \in Int, NEW y \in Int, NEW u \in Int, NEW v \in Int,
         Same(x, y, m), Same(u, v, m)
  PROVE  Same(x + u, y + v, m) /\ Same(x - u, y - v, m)
<1>1. PICK j \in Int : x = y + m * j
  BY DEF Same
<1>2. PICK k \in Int : u = v + m * k
  BY DEF Same
<1>3. x + u = (y + v) + m * (j + k) /\ j + k \in Int
  BY <1>1, <1>2
<1>4. x - u = (y - v) + m * (j - k) /\ j - k \in Int
  BY <1>1, <1>2
<1> QED BY <1>3, <1>4 DEF Same

LEMMA SameProduct ==
  ASSUME NEW m \in Int, NEW x \in Int, NEW y \in Int, NEW u \in Int, NEW v \in Int,
         Same(x, y, m), Same(u, v, m)
  PROVE  Same(x * u, y * v, m)
<1>1. PICK j \in Int : x = y + m * j
  BY DEF Same
<1>2. PICK k \in Int : u = v + m * k
  BY DEF Same
<1>3. x * u = (y + m * j) * (v + m * k)
  BY <1>1, <1>2
<1>4. (y + m * j) * (v + m * k) = y * v + m * (y * k + j * v + m * j * k)
  OBVIOUS
<1>5. y * k + j * v + m * j * k \in Int
  OBVIOUS
<1> QED BY <1>3, <1>4, <1>5 DEF Same

(* Equal remainders.                                                       *)
LEMMA SameMod ==
  ASSUME NEW m \in Nat, m >= 1, NEW x \in Int, NEW y \in Int, Same(x, y, m)
  PROVE  x % m = y % m
<1>1. y % m \in 0 .. m - 1 /\ Same(y, y % m, m)
  BY Remainder, SameItsRemainder
<1> DEFINE r == y % m
<1>2. r \in 0 .. m - 1 /\ r \in Int /\ Same(y, r, m)
  BY <1>1
<1> HIDE DEF r
<1>3. Same(x, r, m)
  BY <1>2, SameTransitive
<1>4. x % m = r
  BY <1>2, <1>3, SameRemainder
<1> QED BY <1>4 DEF r

----------------------------------------------------------------------------
(* Field elements.                                                         *)
LEMMA Division ==
  ASSUME NEW x \in Nat
  PROVE  /\ x \div B \in Nat /\ x % B \in Nat
         /\ x % B \in 0 .. B - 1
         /\ x = B * (x \div B) + (x % B)
BY BaseAssumption

(* A quotient is at most c if the number is below (c + 1) * B.             *)
LEMMA QuotientBound ==
  ASSUME NEW x \in Nat, NEW c \in Nat, x < B * (c + 1)
  PROVE  x \div B <= c
<1>1. x \div B \in Nat /\ x % B \in Nat /\ x = B * (x \div B) + (x % B)
  BY Division
<1>2. SUFFICES ASSUME x \div B >= c + 1 PROVE FALSE
  BY <1>1
<1>3. B * (x \div B) >= B * (c + 1)
  BY <1>1, <1>2, BaseAssumption
<1> QED BY <1>1, <1>3, BaseAssumption

(* carryPropagate takes away a multiple of P, and nothing else.            *)
THEOREM CarryKeepsTheValue ==
  ASSUME NEW v \in Vectors(Nat)
  PROVE  ValueOf(carryPropagate(v)) = ValueOf(v) - P * (v.l4 \div B)
<1> DEFINE q0 == v.l0 \div B  r0 == v.l0 % B
           q1 == v.l1 \div B  r1 == v.l1 % B
           q2 == v.l2 \div B  r2 == v.l2 % B
           q3 == v.l3 \div B  r3 == v.l3 % B
           q4 == v.l4 \div B  r4 == v.l4 % B
<1>1. /\ q0 \in Nat /\ r0 \in Nat /\ v.l0 = B * q0 + r0
      /\ q1 \in Nat /\ r1 \in Nat /\ v.l1 = B * q1 + r1
      /\ q2 \in Nat /\ r2 \in Nat /\ v.l2 = B * q2 + r2
      /\ q3 \in Nat /\ r3 \in Nat /\ v.l3 = B * q3 + r3
      /\ q4 \in Nat /\ r4 \in Nat /\ v.l4 = B * q4 + r4
  BY Division DEF Vectors
<1>2. ValueOf(carryPropagate(v)) =
        (r0 + q4 * 19) + B * ((r1 + q0) + B * ((r2 + q1) + B * ((r3 + q2) + B * (r4 + q3))))
  BY DEF ValueOf, carryPropagate, Element
<1>3. ValueOf(v) = (B * q0 + r0) + B * ((B * q1 + r1) + B * ((B * q2 + r2) + B * ((B * q3 + r3) + B * (B * q4 + r4))))
  BY <1>1 DEF ValueOf
<1> HIDE DEF q0, q1, q2, q3, q4, r0, r1, r2, r3, r4
<1>4. (r0 + q4 * 19) + B * ((r1 + q0) + B * ((r2 + q1) + B * ((r3 + q2) + B * (r4 + q3))))
        = (B * q0 + r0) + B * ((B * q1 + r1) + B * ((B * q2 + r2) + B * ((B * q3 + r3) + B * (B * q4 + r4))))
            - P * q4
  BY <1>1, BaseAssumption DEF P
<1>5. ValueOf(carryPropagate(v)) = ValueOf(v) - P * q4
  BY <1>1, <1>2, <1>3, <1>4, BaseAssumption DEF P
<1> QED BY <1>5 DEF q4

(* The code's columns are the product of the two integers, less a multiple *)
(* of P.                                                                   *)
Overflow(a, b) ==
  (a.l1 * b.l4 + a.l2 * b.l3 + a.l3 * b.l2 + a.l4 * b.l1)
    + B * ((a.l2 * b.l4 + a.l3 * b.l3 + a.l4 * b.l2)
    + B * ((a.l3 * b.l4 + a.l4 * b.l3) + B * (a.l4 * b.l4)))

LEMMA ColumnsMultiply ==
  ASSUME NEW a \in Vectors(Nat), NEW b \in Vectors(Nat)
  PROVE  ValueOf(MulColumns(a, b)) = ValueOf(a) * ValueOf(b) - P * Overflow(a, b)
<1> DEFINE a0 == a.l0  a1 == a.l1  a2 == a.l2  a3 == a.l3  a4 == a.l4
           b0 == b.l0  b1 == b.l1  b2 == b.l2  b3 == b.l3  b4 == b.l4
           high == (a1 * b4 + a2 * b3 + a3 * b2 + a4 * b1)
                     + B * ((a2 * b4 + a3 * b3 + a4 * b2) + B * ((a3 * b4 + a4 * b3) + B * (a4 * b4)))
           columns == (a0 * b0 + (a1 * 19) * b4 + (a2 * 19) * b3 + (a3 * 19) * b2 + (a4 * 19) * b1)
             + B * ((a0 * b1 + a1 * b0 + (a2 * 19) * b4 + (a3 * 19) * b3 + (a4 * 19) * b2)
             + B * ((a0 * b2 + a1 * b1 + a2 * b0 + (a3 * 19) * b4 + (a4 * 19) * b3)
             + B * ((a0 * b3 + a1 * b2 + a2 * b1 + a3 * b0 + (a4 * 19) * b4)
             + B * (a0 * b4 + a1 * b3 + a2 * b2 + a3 * b1 + a4 * b0))))
           left == a0 + B * (a1 + B * (a2 + B * (a3 + B * a4)))
           right == b0 + B * (b1 + B * (b2 + B * (b3 + B * b4)))
<1>1. /\ a0 \in Nat /\ a1 \in Nat /\ a2 \in Nat /\ a3 \in Nat /\ a4 \in Nat
      /\ b0 \in Nat /\ b1 \in Nat /\ b2 \in Nat /\ b3 \in Nat /\ b4 \in Nat
  BY DEF Vectors
<1>2. ValueOf(MulColumns(a, b)) = columns
  BY DEF ValueOf, MulColumns, Element
<1>3. ValueOf(a) = left /\ ValueOf(b) = right /\ Overflow(a, b) = high
  BY DEF ValueOf, Overflow
<1> HIDE DEF a0, a1, a2, a3, a4, b0, b1, b2, b3, b4
<1>4. columns = left * right - P * high
  BY <1>1, BaseAssumption DEF P
<1> HIDE DEF columns, left, right, high
<1> QED BY <1>2, <1>3, <1>4

LEMMA SquareIsMul ==
  ASSUME NEW a \in Vectors(Nat)
  PROVE  SquareColumns(a) = MulColumns(a, a)
BY BaseAssumption DEF Vectors, MulColumns, SquareColumns, Element

----------------------------------------------------------------------------
(* What a limb may be between operations: below 2^52, and small enough     *)
(* that 2 * P less an element is nowhere negative.                         *)
Light(v) == v \in Vectors(0 .. 2 * B - 39)

(* Quotients by B are at most c in the low four limbs and d in the top.    *)
Below(v, c, d) ==
  /\ v \in Vectors(Nat)
  /\ v.l0 < B * (c + 1) /\ v.l1 < B * (c + 1) /\ v.l2 < B * (c + 1) /\ v.l3 < B * (c + 1)
  /\ v.l4 < B * (d + 1)
Carried(w, c, d) ==
  /\ w \in Vectors(Nat)
  /\ w.l0 <= B - 1 + 19 * d
  /\ w.l1 <= B - 1 + c /\ w.l2 <= B - 1 + c /\ w.l3 <= B - 1 + c /\ w.l4 <= B - 1 + c

LEMMA DigitBounds ==
  ASSUME NEW x \in Nat, NEW c \in Nat, x < B * (c + 1)
  PROVE  x \div B \in 0 .. c /\ x % B \in 0 .. B - 1
<1>1. x \div B <= c
  BY QuotientBound
<1> QED BY <1>1, Division, BaseAssumption

LEMMA CarryBounds ==
  ASSUME NEW v, NEW c \in Nat, NEW d \in Nat, Below(v, c, d)
  PROVE  Carried(carryPropagate(v), c, d)
<1>1. v.l0 \div B \in 0 .. c /\ v.l0 % B \in 0 .. B - 1
  BY DigitBounds DEF Below, Vectors
<1>2. v.l1 \div B \in 0 .. c /\ v.l1 % B \in 0 .. B - 1
  BY DigitBounds DEF Below, Vectors
<1>3. v.l2 \div B \in 0 .. c /\ v.l2 % B \in 0 .. B - 1
  BY DigitBounds DEF Below, Vectors
<1>4. v.l3 \div B \in 0 .. c /\ v.l3 % B \in 0 .. B - 1
  BY DigitBounds DEF Below, Vectors
<1>5. v.l4 \div B \in 0 .. d /\ v.l4 % B \in 0 .. B - 1
  BY DigitBounds DEF Below, Vectors
<1> DEFINE w == carryPropagate(v)
<1>6. /\ w.l0 = (v.l0 % B) + (v.l4 \div B) * 19
      /\ w.l1 = (v.l1 % B) + (v.l0 \div B)
      /\ w.l2 = (v.l2 % B) + (v.l1 \div B)
      /\ w.l3 = (v.l3 % B) + (v.l2 \div B)
      /\ w.l4 = (v.l4 % B) + (v.l3 \div B)
      /\ w = [l0 |-> w.l0, l1 |-> w.l1, l2 |-> w.l2, l3 |-> w.l3, l4 |-> w.l4]
  BY DEF carryPropagate, Element
<1> HIDE DEF w
<1>7. /\ w.l0 \in Nat /\ w.l0 <= B - 1 + 19 * d
      /\ w.l1 \in Nat /\ w.l1 <= B - 1 + c
      /\ w.l2 \in Nat /\ w.l2 <= B - 1 + c
      /\ w.l3 \in Nat /\ w.l3 <= B - 1 + c
      /\ w.l4 \in Nat /\ w.l4 <= B - 1 + c
  BY <1>1, <1>2, <1>3, <1>4, <1>5, <1>6, BaseAssumption
<1>8. w \in Vectors(Nat)
  BY <1>6, <1>7 DEF Vectors
<1> QED BY <1>7, <1>8 DEF w, Carried

LEMMA AddIsLight ==
  ASSUME NEW a, NEW b, Light(a), Light(b), B >= 8192
  PROVE  Light(feAdd(a, b))
<1> DEFINE s == Element(a.l0 + b.l0, a.l1 + b.l1, a.l2 + b.l2, a.l3 + b.l3, a.l4 + b.l4)
<1>1. Below(s, 3, 3)
  BY BaseAssumption DEF Light, Vectors, Element, Below
<1>2. Carried(carryPropagate(s), 3, 3)
  BY <1>1, CarryBounds
<1>3. Light(carryPropagate(s))
  BY <1>2, BaseAssumption DEF Light, Vectors, Carried
<1> QED BY <1>3 DEF feAdd

LEMMA SubtractIsLight ==
  ASSUME NEW a, NEW b, Light(a), Light(b), B >= 8192
  PROVE  Light(feSubtract(a, b))
<1> DEFINE s == Element((a.l0 + 2 * B - 38) - b.l0, (a.l1 + 2 * B - 2) - b.l1,
                        (a.l2 + 2 * B - 2) - b.l2, (a.l3 + 2 * B - 2) - b.l3,
                        (a.l4 + 2 * B - 2) - b.l4)
<1>1. Below(s, 3, 3)
  BY BaseAssumption DEF Light, Vectors, Element, Below
<1>2. Carried(carryPropagate(s), 3, 3)
  BY <1>1, CarryBounds
<1>3. Light(carryPropagate(s))
  BY <1>2, BaseAssumption DEF Light, Vectors, Carried
<1> QED BY <1>3 DEF feSubtract

(* A product of two limbs, of which a column adds 77 at most.              *)
LEMMA LimbProduct ==
  ASSUME NEW x \in 0 .. 2 * B - 39, NEW y \in 0 .. 2 * B - 39
  PROVE  x * y \in Nat /\ x * y <= 4 * (B * B) - 1
<1>1. x * y <= (2 * B - 1) * (2 * B - 1)
  <2>1. x * y <= (2 * B - 1) * y
    BY BaseAssumption
  <2>2. (2 * B - 1) * y <= (2 * B - 1) * (2 * B - 1)
    BY BaseAssumption
  <2> QED BY <2>1, <2>2, BaseAssumption
<1>2. (2 * B - 1) * (2 * B - 1) = 4 * (B * B) - 4 * B + 1
  BY BaseAssumption
<1>3. x * y \in Nat
  BY BaseAssumption
<1> QED BY <1>1, <1>2, <1>3, BaseAssumption

LEMMA ColumnBounds ==
  ASSUME NEW a, NEW b, Light(a), Light(b), B >= 8192
  PROVE  Below(MulColumns(a, b), 308 * B - 1, 20 * B - 1)
<1> DEFINE M == 4 * (B * B) - 1
           L == 0 .. 2 * B - 39
<1>1. M \in Nat /\ 77 * M < B * (308 * B) /\ 5 * M < B * (20 * B)
  BY BaseAssumption
<1>2. \A x, y \in L : /\ x * y \in Nat /\ x * y <= M
                       /\ (x * 19) * y \in Nat /\ (x * 19) * y <= 19 * M
  <2> SUFFICES ASSUME NEW x \in L, NEW y \in L
               PROVE  /\ x * y \in Nat /\ x * y <= M
                      /\ (x * 19) * y \in Nat /\ (x * 19) * y <= 19 * M
    OBVIOUS
  <2>1. x * y \in Nat /\ x * y <= M
    BY LimbProduct
  <2>2. (x * 19) * y = 19 * (x * y)
    BY BaseAssumption
  <2> QED BY <2>1, <2>2, <1>1
<1>3. /\ a.l0 \in L /\ a.l1 \in L /\ a.l2 \in L /\ a.l3 \in L /\ a.l4 \in L
      /\ b.l0 \in L /\ b.l1 \in L /\ b.l2 \in L /\ b.l3 \in L /\ b.l4 \in L
  BY DEF Light, Vectors
<1> HIDE DEF L
<1> DEFINE r == MulColumns(a, b)
           N(n) == 0 .. n * M
<1>4. /\ r.l0 \in N(77) /\ r.l1 \in N(77) /\ r.l2 \in N(77) /\ r.l3 \in N(77) /\ r.l4 \in N(5)
  <2> HIDE DEF M
  <2>0. \A x \in L, y \in L : x * y \in 0 .. M /\ (x * 19) * y \in 0 .. 19 * M
    BY <1>1, <1>2
  <2>1. r.l0 \in N(77)
    <3>1. /\ a.l0 * b.l0 \in 0 .. M /\ (a.l1 * 19) * b.l4 \in 0 .. 19 * M
          /\ (a.l2 * 19) * b.l3 \in 0 .. 19 * M /\ (a.l3 * 19) * b.l2 \in 0 .. 19 * M
          /\ (a.l4 * 19) * b.l1 \in 0 .. 19 * M
      BY <1>3, <2>0
    <3> QED BY <1>1, <3>1 DEF MulColumns, Element
  <2>2. r.l1 \in N(77)
    <3>1. /\ a.l0 * b.l1 \in 0 .. M /\ a.l1 * b.l0 \in 0 .. M
          /\ (a.l2 * 19) * b.l4 \in 0 .. 19 * M /\ (a.l3 * 19) * b.l3 \in 0 .. 19 * M
          /\ (a.l4 * 19) * b.l2 \in 0 .. 19 * M
      BY <1>3, <2>0
    <3> QED BY <1>1, <3>1 DEF MulColumns, Element
  <2>3. r.l2 \in N(77)
    <3>1. /\ a.l0 * b.l2 \in 0 .. M /\ a.l1 * b.l1 \in 0 .. M /\ a.l2 * b.l0 \in 0 .. M
          /\ (a.l3 * 19) * b.l4 \in 0 .. 19 * M /\ (a.l4 * 19) * b.l3 \in 0 .. 19 * M
      BY <1>3, <2>0
    <3> QED BY <1>1, <3>1 DEF MulColumns, Element
  <2>4. r.l3 \in N(77)
    <3>1. /\ a.l0 * b.l3 \in 0 .. M /\ a.l1 * b.l2 \in 0 .. M /\ a.l2 * b.l1 \in 0 .. M
          /\ a.l3 * b.l0 \in 0 .. M /\ (a.l4 * 19) * b.l4 \in 0 .. 19 * M
      BY <1>3, <2>0
    <3> QED BY <1>1, <3>1 DEF MulColumns, Element
  <2>5. r.l4 \in N(5)
    <3>1. /\ a.l0 * b.l4 \in 0 .. M /\ a.l1 * b.l3 \in 0 .. M /\ a.l2 * b.l2 \in 0 .. M
          /\ a.l3 * b.l1 \in 0 .. M /\ a.l4 * b.l0 \in 0 .. M
      BY <1>3, <2>0
    <3> QED BY <1>1, <3>1 DEF MulColumns, Element
  <2> QED BY <2>1, <2>2, <2>3, <2>4, <2>5
<1>5. r \in Vectors(Nat)
  <2>1. r = [l0 |-> r.l0, l1 |-> r.l1, l2 |-> r.l2, l3 |-> r.l3, l4 |-> r.l4]
    BY DEF MulColumns, Element
  <2> HIDE DEF r, M
  <2> QED BY <2>1, <1>1, <1>4 DEF Vectors
<1> HIDE DEF r
<1>6. /\ r.l0 < B * (308 * B - 1 + 1) /\ r.l1 < B * (308 * B - 1 + 1) /\ r.l2 < B * (308 * B - 1 + 1)
      /\ r.l3 < B * (308 * B - 1 + 1) /\ r.l4 < B * (20 * B - 1 + 1)
  <2>1. 308 * B - 1 + 1 = 308 * B /\ 20 * B - 1 + 1 = 20 * B
    BY BaseAssumption
  <2>2. 77 * M \in Nat /\ 5 * M \in Nat /\ B * (308 * B) \in Nat /\ B * (20 * B) \in Nat
    BY <1>1, BaseAssumption
  <2> HIDE DEF M
  <2> QED BY <2>1, <2>2, <1>1, <1>4
<1> QED BY <1>5, <1>6 DEF Below, r

LEMMA MulIsLight ==
  ASSUME NEW a, NEW b, Light(a), Light(b), B >= 8192
  PROVE  /\ carryPropagate(MulColumns(a, b)) \in Vectors(0 .. 381 * B)
         /\ Light(feMul(a, b))
<1> DEFINE w == carryPropagate(MulColumns(a, b))
<1>1. 308 * B - 1 \in Nat /\ 20 * B - 1 \in Nat
  BY BaseAssumption
<1>2. Carried(w, 308 * B - 1, 20 * B - 1)
  BY <1>1, ColumnBounds, CarryBounds
<1> HIDE DEF w
<1>3. w \in Vectors(0 .. 381 * B) /\ Below(w, 381, 309)
  BY <1>2, BaseAssumption DEF Carried, Vectors, Below
<1>4. Carried(carryPropagate(w), 381, 309)
  BY <1>3, CarryBounds
<1>5. Light(carryPropagate(w))
  BY <1>4, BaseAssumption DEF Light, Vectors, Carried
<1> QED BY <1>3, <1>5 DEF feMul, w

----------------------------------------------------------------------------
(* Whatever is computed from light elements is light again, and on the way *)
(* no column reaches B * B * 2^13 and no limb B * 2^13: with B = 2^51, a   *)
(* uint128 and a uint64 hold them, and the carry of a column fits a word   *)
(* (fe_generic.go:34-266, fe.go:87-115).                                   *)
THEOREM FieldBounds ==
  ASSUME NEW a, NEW b, Light(a), Light(b), B >= 8192
  PROVE  /\ Light(feAdd(a, b)) /\ Light(feSubtract(a, b)) /\ Light(feNegate(a))
         /\ Light(feMul(a, b)) /\ Light(feSquare(a))
         /\ MulColumns(a, b) \in Vectors(0 .. B * B * 8192 - 1)
         /\ carryPropagate(MulColumns(a, b)) \in Vectors(0 .. B * 8192 - 1)
<1>1. Light(feAdd(a, b)) /\ Light(feSubtract(a, b)) /\ Light(feMul(a, b))
  BY AddIsLight, SubtractIsLight, MulIsLight
<1>2. Light(feNegate(a))
  <2>1. Light(feZero)
    BY BaseAssumption DEF Light, Vectors, feZero, Element
  <2> QED BY <2>1, SubtractIsLight DEF feNegate
<1>3. Light(feSquare(a))
  <2>1. a \in Vectors(Nat)
    BY BaseAssumption DEF Light, Vectors
  <2>2. SquareColumns(a) = MulColumns(a, a)
    BY <2>1, SquareIsMul
  <2>3. Light(feMul(a, a))
    BY MulIsLight
  <2> QED BY <2>2, <2>3 DEF feSquare, feMul
<1>4. MulColumns(a, b) \in Vectors(0 .. B * B * 8192 - 1)
  <2> DEFINE r == MulColumns(a, b)
  <2>1. Below(r, 308 * B - 1, 20 * B - 1)
    BY ColumnBounds
  <2>2. /\ B * (308 * B - 1 + 1) <= B * B * 8192 /\ B * (20 * B - 1 + 1) <= B * B * 8192
        /\ B * B * 8192 \in Nat /\ B * (308 * B - 1 + 1) \in Nat /\ B * (20 * B - 1 + 1) \in Nat
    BY BaseAssumption
  <2> HIDE DEF r
  <2> QED BY <2>1, <2>2 DEF Below, Vectors, r
<1>5. carryPropagate(MulColumns(a, b)) \in Vectors(0 .. B * 8192 - 1)
  <2>1. carryPropagate(MulColumns(a, b)) \in Vectors(0 .. 381 * B)
    BY MulIsLight
  <2>2. (0 .. 381 * B) \subseteq (0 .. B * 8192 - 1)
    BY BaseAssumption
  <2> QED BY <2>1, <2>2 DEF Vectors
<1> QED BY <1>1, <1>2, <1>3, <1>4, <1>5

(* Light elements are what the operations take, and what they return.      *)
LEMMA LightIsFull ==
  ASSUME NEW v, Light(v)
  PROVE  Full(v)
BY BaseAssumption DEF Light, Full, Vectors

(* The operations are those of the integers mod P: each result differs     *)
(* from the exact one by a multiple of P (fe.go:87-110,                    *)
(* fe_generic.go:34-246).                                                  *)
Congruent(x, y) == \E k \in Int : x = y - P * k

LEMMA CarryIsCongruent ==
  ASSUME NEW v \in Vectors(Nat)
  PROVE  Congruent(ValueOf(carryPropagate(v)), ValueOf(v))
<1>1. v.l4 \div B \in Int
  BY Division, BaseAssumption DEF Vectors
<1> QED BY <1>1, CarryKeepsTheValue DEF Congruent

LEMMA ValueIsInt ==
  ASSUME NEW v \in Vectors(Nat)
  PROVE  ValueOf(v) \in Nat
BY BaseAssumption DEF Vectors, ValueOf

LEMMA CongruentTransitive ==
  ASSUME NEW x \in Int, NEW y \in Int, NEW z \in Int, Congruent(x, y), Congruent(y, z)
  PROVE  Congruent(x, z)
<1>1. PICK k \in Int : x = y - P * k
  BY DEF Congruent
<1>2. PICK m \in Int : y = z - P * m
  BY DEF Congruent
<1>3. P \in Int
  BY BaseAssumption DEF P
<1>4. x = z - P * (k + m)
  BY <1>1, <1>2, <1>3
<1> QED BY <1>4 DEF Congruent

LEMMA CarriedIsNatural ==
  ASSUME NEW v \in Vectors(Nat)
  PROVE  carryPropagate(v) \in Vectors(Nat)
<1>1. \A x \in Nat : x \div B \in Nat /\ x % B \in Nat
  BY Division
<1> QED BY <1>1 DEF carryPropagate, Element, Vectors

(* Sums, differences, products and squares are those of integers modulo P. *)
THEOREM FieldIsExact ==
  ASSUME NEW a, NEW b, Full(a), Full(b)
  PROVE  /\ Congruent(ValueOf(feAdd(a, b)), ValueOf(a) + ValueOf(b))
         /\ Congruent(ValueOf(feSubtract(a, b)), ValueOf(a) - ValueOf(b))
         /\ Congruent(ValueOf(feMul(a, b)), ValueOf(a) * ValueOf(b))
         /\ Congruent(ValueOf(feSquare(a)), ValueOf(a) * ValueOf(a))
<1>1. a \in Vectors(Nat) /\ b \in Vectors(Nat)
  BY DEF Full
<1>2. Congruent(ValueOf(feAdd(a, b)), ValueOf(a) + ValueOf(b))
  <2> DEFINE s == Element(a.l0 + b.l0, a.l1 + b.l1, a.l2 + b.l2, a.l3 + b.l3, a.l4 + b.l4)
  <2>1. s \in Vectors(Nat)
    BY <1>1 DEF Vectors, Element
  <2>2. ValueOf(s) = ValueOf(a) + ValueOf(b)
    BY <1>1, BaseAssumption DEF Vectors, Element, ValueOf
  <2> QED BY <2>1, <2>2, CarryIsCongruent DEF feAdd
<1>3. Congruent(ValueOf(feSubtract(a, b)), ValueOf(a) - ValueOf(b))
  <2> DEFINE s == Element((a.l0 + 2 * B - 38) - b.l0, (a.l1 + 2 * B - 2) - b.l1,
                          (a.l2 + 2 * B - 2) - b.l2, (a.l3 + 2 * B - 2) - b.l3,
                          (a.l4 + 2 * B - 2) - b.l4)
  <2>1. s \in Vectors(Nat)
    BY BaseAssumption DEF Full, Vectors, Element
  <2>2. ValueOf(s) = (ValueOf(a) - ValueOf(b)) - P * (-2)
    BY <1>1, BaseAssumption DEF Vectors, Element, ValueOf, P
  <2>3. Congruent(ValueOf(s), ValueOf(a) - ValueOf(b))
    BY <2>2 DEF Congruent
  <2>4. Congruent(ValueOf(carryPropagate(s)), ValueOf(s))
    BY <2>1, CarryIsCongruent
  <2>5. ValueOf(s) \in Int /\ ValueOf(carryPropagate(s)) \in Int /\ ValueOf(a) - ValueOf(b) \in Int
    BY <1>1, <2>1, ValueIsInt, CarriedIsNatural
  <2> HIDE DEF s
  <2>6. Congruent(ValueOf(carryPropagate(s)), ValueOf(a) - ValueOf(b))
    BY <2>3, <2>4, <2>5, CongruentTransitive
  <2> QED BY <2>6 DEF s, feSubtract
<1>4. \A x \in {a, b} : Congruent(ValueOf(feMul(a, x)), ValueOf(a) * ValueOf(x))
  <2> SUFFICES ASSUME NEW x \in {a, b}
               PROVE  Congruent(ValueOf(feMul(a, x)), ValueOf(a) * ValueOf(x))
    OBVIOUS
  <2> DEFINE r == MulColumns(a, x)
  <2>1. r \in Vectors(Nat) /\ x \in Vectors(Nat)
    BY <1>1, BaseAssumption DEF MulColumns, Element, Vectors
  <2>2. Congruent(ValueOf(r), ValueOf(a) * ValueOf(x))
    <3>1. Overflow(a, x) \in Int
      BY <1>1, <2>1, BaseAssumption DEF Overflow, Vectors
    <3> QED BY <1>1, <2>1, <3>1, ColumnsMultiply DEF Congruent
  <2> HIDE DEF r
  <2>3. Congruent(ValueOf(carryPropagate(r)), ValueOf(r)) /\ carryPropagate(r) \in Vectors(Nat)
    BY <2>1, CarryIsCongruent, CarriedIsNatural
  <2>4. Congruent(ValueOf(carryPropagate(carryPropagate(r))), ValueOf(carryPropagate(r)))
        /\ carryPropagate(carryPropagate(r)) \in Vectors(Nat)
    BY <2>3, CarryIsCongruent, CarriedIsNatural
  <2>5. /\ ValueOf(r) \in Int /\ ValueOf(carryPropagate(r)) \in Int
        /\ ValueOf(carryPropagate(carryPropagate(r))) \in Int
        /\ ValueOf(a) \in Int /\ ValueOf(x) \in Int
    BY <1>1, <2>1, <2>3, <2>4, ValueIsInt
  <2>6. ValueOf(a) * ValueOf(x) \in Int
    BY <2>5
  <2>7. Congruent(ValueOf(carryPropagate(r)), ValueOf(a) * ValueOf(x))
    BY <2>2, <2>3, <2>5, <2>6, CongruentTransitive
  <2>8. Congruent(ValueOf(carryPropagate(carryPropagate(r))), ValueOf(a) * ValueOf(x))
    BY <2>4, <2>5, <2>6, <2>7, CongruentTransitive
  <2> QED BY <2>8 DEF r, feMul
<1>5. feSquare(a) = feMul(a, a)
  BY <1>1, SquareIsMul DEF feSquare, feMul
<1> QED BY <1>2, <1>3, <1>4, <1>5

----------------------------------------------------------------------------
(* The chain of divisions in TopCarry divides the integer by B^5; the      *)
(* chain in Ripple writes its rest.                                        *)
Fifth == B * B * B * B * B

LEMMA WithoutCarry ==
  ASSUME NEW l \in Nat, NEW p \in Nat, NEW q \in Nat, NEW r \in Nat, l + p = B * q + r
  PROVE  l = B * q + r - p
BY BaseAssumption

LEMMA RippleDivides ==
  ASSUME NEW v \in Vectors(Nat), NEW c \in Nat
  PROVE  /\ Ripple(v, c) \in Vectors(0 .. B - 1)
         /\ \E q \in Nat : ValueOf(Ripple(v, c)) = ValueOf(v) + 19 * c - Fifth * q
<1> DEFINE x0 == v.l0 + 19 * c  x1 == v.l1 + x0 \div B  x2 == v.l2 + x1 \div B
           x3 == v.l3 + x2 \div B  x4 == v.l4 + x3 \div B
<1>1. x0 \in Nat /\ x0 \div B \in Nat /\ x0 % B \in 0 .. B - 1 /\ x0 = B * (x0 \div B) + (x0 % B)
  <2>1. x0 \in Nat
    BY DEF Vectors
  <2> HIDE DEF x0, x1, x2, x3, x4
  <2> QED BY <2>1, Division
<1>2. x1 \in Nat /\ x1 \div B \in Nat /\ x1 % B \in 0 .. B - 1 /\ x1 = B * (x1 \div B) + (x1 % B)
  <2>1. x1 \in Nat
    BY <1>1 DEF Vectors
  <2> HIDE DEF x0, x1, x2, x3, x4
  <2> QED BY <2>1, Division
<1>3. x2 \in Nat /\ x2 \div B \in Nat /\ x2 % B \in 0 .. B - 1 /\ x2 = B * (x2 \div B) + (x2 % B)
  <2>1. x2 \in Nat
    BY <1>2 DEF Vectors
  <2> HIDE DEF x0, x1, x2, x3, x4
  <2> QED BY <2>1, Division
<1>4. x3 \in Nat /\ x3 \div B \in Nat /\ x3 % B \in 0 .. B - 1 /\ x3 = B * (x3 \div B) + (x3 % B)
  <2>1. x3 \in Nat
    BY <1>3 DEF Vectors
  <2> HIDE DEF x0, x1, x2, x3, x4
  <2> QED BY <2>1, Division
<1>5. x4 \in Nat /\ x4 \div B \in Nat /\ x4 % B \in 0 .. B - 1 /\ x4 = B * (x4 \div B) + (x4 % B)
  <2>1. x4 \in Nat
    BY <1>4 DEF Vectors
  <2> HIDE DEF x0, x1, x2, x3, x4
  <2> QED BY <2>1, Division
<1>6. Ripple(v, c) = [l0 |-> x0 % B, l1 |-> x1 % B, l2 |-> x2 % B, l3 |-> x3 % B, l4 |-> x4 % B]
  BY DEF Ripple, Element
<1> DEFINE q0 == x0 \div B  q1 == x1 \div B  q2 == x2 \div B  q3 == x3 \div B  q4 == x4 \div B
           r0 == x0 % B  r1 == x1 % B  r2 == x2 % B  r3 == x3 % B  r4 == x4 % B
<1>7. /\ v.l0 = B * q0 + r0 - 19 * c /\ v.l1 = B * q1 + r1 - q0 /\ v.l2 = B * q2 + r2 - q1
      /\ v.l3 = B * q3 + r3 - q2 /\ v.l4 = B * q4 + r4 - q3
  <2>1. v.l0 \in Nat /\ v.l1 \in Nat /\ v.l2 \in Nat /\ v.l3 \in Nat /\ v.l4 \in Nat
    BY DEF Vectors
  <2>2. /\ v.l0 + 19 * c = B * q0 + r0 /\ v.l1 + q0 = B * q1 + r1 /\ v.l2 + q1 = B * q2 + r2
        /\ v.l3 + q2 = B * q3 + r3 /\ v.l4 + q3 = B * q4 + r4
    BY <1>1, <1>2, <1>3, <1>4, <1>5
  <2>3. /\ q0 \in Nat /\ r0 \in Nat /\ q1 \in Nat /\ r1 \in Nat /\ q2 \in Nat /\ r2 \in Nat
        /\ q3 \in Nat /\ r3 \in Nat /\ q4 \in Nat /\ r4 \in Nat /\ 19 * c \in Nat
    BY <1>1, <1>2, <1>3, <1>4, <1>5, BaseAssumption
  <2> HIDE DEF x0, x1, x2, x3, x4, q0, q1, q2, q3, q4, r0, r1, r2, r3, r4
  <2> QED BY <2>1, <2>2, <2>3, WithoutCarry
<1>8. /\ q0 \in Nat /\ q1 \in Nat /\ q2 \in Nat /\ q3 \in Nat /\ q4 \in Nat
      /\ r0 \in 0 .. B - 1 /\ r1 \in 0 .. B - 1 /\ r2 \in 0 .. B - 1 /\ r3 \in 0 .. B - 1 /\ r4 \in 0 .. B - 1
  BY <1>1, <1>2, <1>3, <1>4, <1>5
<1>9. Ripple(v, c) = [l0 |-> r0, l1 |-> r1, l2 |-> r2, l3 |-> r3, l4 |-> r4]
  BY <1>6
<1> HIDE DEF x0, x1, x2, x3, x4, q0, q1, q2, q3, q4, r0, r1, r2, r3, r4
<1>10. ValueOf(Ripple(v, c)) = ValueOf(v) + 19 * c - Fifth * q4
  <2>1. ValueOf(Ripple(v, c)) = r0 + B * (r1 + B * (r2 + B * (r3 + B * r4)))
    BY <1>9 DEF ValueOf
  <2>2. ValueOf(v) = (B * q0 + r0 - 19 * c) + B * ((B * q1 + r1 - q0) + B * ((B * q2 + r2 - q1)
                       + B * ((B * q3 + r3 - q2) + B * (B * q4 + r4 - q3))))
    BY <1>7 DEF ValueOf
  <2> QED BY <1>8, <2>1, <2>2, BaseAssumption DEF Fifth
<1> QED BY <1>8, <1>9, <1>10 DEF Vectors

LEMMA DigitsBelow ==
  ASSUME NEW v \in Vectors(0 .. B - 1)
  PROVE  ValueOf(v) \in 0 .. Fifth - 1
<1>1. /\ v.l0 \in 0 .. B - 1 /\ v.l1 \in 0 .. B - 1 /\ v.l2 \in 0 .. B - 1
      /\ v.l3 \in 0 .. B - 1 /\ v.l4 \in 0 .. B - 1
  BY DEF Vectors
<1> DEFINE y3 == v.l3 + B * v.l4  y2 == v.l2 + B * y3  y1 == v.l1 + B * y2  y0 == v.l0 + B * y1
<1>2. y3 \in 0 .. B * B - 1
  <2>1. B * v.l4 <= B * (B - 1) /\ B * v.l4 \in Nat
    BY <1>1, BaseAssumption
  <2> QED BY <1>1, <2>1, BaseAssumption
<1>3. y2 \in 0 .. B * B * B - 1
  <2> HIDE DEF y3
  <2>1. B * y3 <= B * (B * B - 1) /\ B * y3 \in Nat
    BY <1>2, BaseAssumption
  <2> QED BY <1>1, <2>1, BaseAssumption
<1>4. y1 \in 0 .. B * B * B * B - 1
  <2> HIDE DEF y2
  <2>1. B * y2 <= B * (B * B * B - 1) /\ B * y2 \in Nat
    BY <1>3, BaseAssumption
  <2> QED BY <1>1, <2>1, BaseAssumption
<1>5. y0 \in 0 .. B * B * B * B * B - 1
  <2> HIDE DEF y1
  <2>1. B * y1 <= B * (B * B * B * B - 1) /\ B * y1 \in Nat
    BY <1>4, BaseAssumption
  <2> QED BY <1>1, <2>1, BaseAssumption
<1> QED BY <1>5 DEF ValueOf, Fifth

(* The quotient of the chain is TopCarry, and of no other number.          *)
LEMMA TopCarryDivides ==
  ASSUME NEW v \in Vectors(Nat)
  PROVE  /\ TopCarry(v) \in Nat
         /\ Fifth * TopCarry(v) <= ValueOf(v) + 19
         /\ ValueOf(v) + 19 < Fifth * TopCarry(v) + Fifth
<1> DEFINE x0 == v.l0 + 19  x1 == v.l1 + x0 \div B  x2 == v.l2 + x1 \div B
           x3 == v.l3 + x2 \div B  x4 == v.l4 + x3 \div B
<1>1. x0 \in Nat /\ x0 \div B \in Nat /\ x0 % B \in 0 .. B - 1 /\ x0 = B * (x0 \div B) + (x0 % B)
  <2>1. x0 \in Nat
    BY DEF Vectors
  <2> HIDE DEF x0, x1, x2, x3, x4
  <2> QED BY <2>1, Division
<1>2. x1 \in Nat /\ x1 \div B \in Nat /\ x1 % B \in 0 .. B - 1 /\ x1 = B * (x1 \div B) + (x1 % B)
  <2>1. x1 \in Nat
    BY <1>1 DEF Vectors
  <2> HIDE DEF x0, x1, x2, x3, x4
  <2> QED BY <2>1, Division
<1>3. x2 \in Nat /\ x2 \div B \in Nat /\ x2 % B \in 0 .. B - 1 /\ x2 = B * (x2 \div B) + (x2 % B)
  <2>1. x2 \in Nat
    BY <1>2 DEF Vectors
  <2> HIDE DEF x0, x1, x2, x3, x4
  <2> QED BY <2>1, Division
<1>4. x3 \in Nat /\ x3 \div B \in Nat /\ x3 % B \in 0 .. B - 1 /\ x3 = B * (x3 \div B) + (x3 % B)
  <2>1. x3 \in Nat
    BY <1>3 DEF Vectors
  <2> HIDE DEF x0, x1, x2, x3, x4
  <2> QED BY <2>1, Division
<1>5. x4 \in Nat /\ x4 \div B \in Nat /\ x4 % B \in 0 .. B - 1 /\ x4 = B * (x4 \div B) + (x4 % B)
  <2>1. x4 \in Nat
    BY <1>4 DEF Vectors
  <2> HIDE DEF x0, x1, x2, x3, x4
  <2> QED BY <2>1, Division
<1> DEFINE q0 == x0 \div B  q1 == x1 \div B  q2 == x2 \div B  q3 == x3 \div B  q4 == x4 \div B
           r0 == x0 % B  r1 == x1 % B  r2 == x2 % B  r3 == x3 % B  r4 == x4 % B
           w == [l0 |-> r0, l1 |-> r1, l2 |-> r2, l3 |-> r3, l4 |-> r4]
<1>6. TopCarry(v) = q4
  BY DEF TopCarry
<1>7. /\ q0 \in Nat /\ q1 \in Nat /\ q2 \in Nat /\ q3 \in Nat /\ q4 \in Nat
      /\ r0 \in 0 .. B - 1 /\ r1 \in 0 .. B - 1 /\ r2 \in 0 .. B - 1 /\ r3 \in 0 .. B - 1 /\ r4 \in 0 .. B - 1
  BY <1>1, <1>2, <1>3, <1>4, <1>5
<1>8. /\ v.l0 = B * q0 + r0 - 19 /\ v.l1 = B * q1 + r1 - q0 /\ v.l2 = B * q2 + r2 - q1
      /\ v.l3 = B * q3 + r3 - q2 /\ v.l4 = B * q4 + r4 - q3
  <2>1. v.l0 \in Nat /\ v.l1 \in Nat /\ v.l2 \in Nat /\ v.l3 \in Nat /\ v.l4 \in Nat
    BY DEF Vectors
  <2>2. /\ v.l0 + 19 = B * q0 + r0 /\ v.l1 + q0 = B * q1 + r1 /\ v.l2 + q1 = B * q2 + r2
        /\ v.l3 + q2 = B * q3 + r3 /\ v.l4 + q3 = B * q4 + r4
    BY <1>1, <1>2, <1>3, <1>4, <1>5
  <2>3. /\ q0 \in Nat /\ r0 \in Nat /\ q1 \in Nat /\ r1 \in Nat /\ q2 \in Nat /\ r2 \in Nat
        /\ q3 \in Nat /\ r3 \in Nat /\ q4 \in Nat /\ r4 \in Nat
    BY <1>7, BaseAssumption
  <2> HIDE DEF x0, x1, x2, x3, x4, q0, q1, q2, q3, q4, r0, r1, r2, r3, r4, w
  <2>4. v.l0 = B * q0 + r0 - 19
    <3>1. \A p \in Nat : v.l0 + p = B * q0 + r0 => v.l0 = B * q0 + r0 - p
      BY <2>1, <2>3, WithoutCarry
    <3>2. 19 \in Nat
      OBVIOUS
    <3> QED BY <2>2, <3>1, <3>2, Zenon
  <2>5. /\ v.l1 = B * q1 + r1 - q0 /\ v.l2 = B * q2 + r2 - q1
        /\ v.l3 = B * q3 + r3 - q2 /\ v.l4 = B * q4 + r4 - q3
    BY <2>1, <2>2, <2>3, WithoutCarry
  <2> QED BY <2>4, <2>5
<1> HIDE DEF x0, x1, x2, x3, x4, q0, q1, q2, q3, q4, r0, r1, r2, r3, r4
<1>9. w \in Vectors(0 .. B - 1)
  BY <1>7 DEF Vectors
<1>10. ValueOf(v) + 19 = Fifth * q4 + ValueOf(w)
  <2>1. ValueOf(w) = r0 + B * (r1 + B * (r2 + B * (r3 + B * r4)))
    BY DEF ValueOf
  <2>2. ValueOf(v) = (B * q0 + r0 - 19) + B * ((B * q1 + r1 - q0) + B * ((B * q2 + r2 - q1)
                       + B * ((B * q3 + r3 - q2) + B * (B * q4 + r4 - q3))))
    BY <1>8 DEF ValueOf
  <2> QED BY <1>7, <2>1, <2>2, BaseAssumption DEF Fifth
<1>11. ValueOf(w) \in 0 .. Fifth - 1
  BY <1>9, DigitsBelow
<1>12. Fifth \in Nat /\ Fifth * q4 \in Nat /\ ValueOf(v) \in Nat
  BY <1>7, ValueIsInt, BaseAssumption DEF Fifth
<1> HIDE DEF w
<1> QED BY <1>6, <1>7, <1>10, <1>11, <1>12

(* reduce gives the one element below P that stands for the same number    *)
(* mod P, with every limb below B: equal elements have equal encodings     *)
(* (fe.go:54-84).                                                          *)
THEOREM ReduceIsCanonical ==
  ASSUME NEW v, Full(v)
  PROVE  /\ reduce(v) \in Vectors(0 .. B - 1)
         /\ ValueOf(reduce(v)) \in 0 .. P - 1
         /\ Congruent(ValueOf(reduce(v)), ValueOf(v))
<1> DEFINE w == carryPropagate(v)  c == TopCarry(w)  V == ValueOf(w)
<1>1. v \in Vectors(Nat) /\ Below(v, 1, 1)
  BY BaseAssumption DEF Full, Vectors, Below
<1>2. Carried(w, 1, 1)
  BY <1>1, CarryBounds
<1>3. w \in Vectors(Nat) /\ w.l0 <= B + 18 /\ w.l1 <= B /\ w.l2 <= B /\ w.l3 <= B /\ w.l4 <= B
  BY <1>2, BaseAssumption DEF Carried, Vectors
<1>4. Congruent(V, ValueOf(v)) /\ V \in Nat /\ ValueOf(v) \in Nat
  BY <1>1, <1>3, CarryIsCongruent, ValueIsInt
<1>5. c \in Nat /\ Fifth * c <= V + 19 /\ V + 19 < Fifth * c + Fifth
  BY <1>3, TopCarryDivides
<1>6. reduce(v) = Ripple(w, c)
  BY DEF reduce
<1>7. /\ reduce(v) \in Vectors(0 .. B - 1)
      /\ \E q \in Nat : ValueOf(reduce(v)) = V + 19 * c - Fifth * q
  <2> HIDE DEF w, c
  <2>1. /\ Ripple(w, c) \in Vectors(0 .. B - 1)
        /\ \E q \in Nat : ValueOf(Ripple(w, c)) = ValueOf(w) + 19 * c - Fifth * q
    BY <1>3, <1>5, RippleDivides
  <2> QED BY <1>6, <2>1
<1>8. ValueOf(reduce(v)) \in 0 .. Fifth - 1
  BY <1>7, DigitsBelow
<1>9. V < 2 * P /\ P = Fifth - 19 /\ P \in Nat /\ Fifth \in Nat /\ P > 0
  <2>1. /\ w.l0 \in 0 .. B + 18 /\ w.l1 \in 0 .. B /\ w.l2 \in 0 .. B
        /\ w.l3 \in 0 .. B /\ w.l4 \in 0 .. B
    BY <1>3, BaseAssumption DEF Vectors
  <2> DEFINE y3 == w.l3 + B * w.l4  y2 == w.l2 + B * y3  y1 == w.l1 + B * y2
  <2>2. B * w.l4 <= B * B /\ B * w.l4 \in Nat
    BY <2>1, BaseAssumption
  <2>3. y3 \in 0 .. B + B * B
    BY <2>1, <2>2, BaseAssumption
  <2>4. y2 \in 0 .. B + B * B + B * B * B
    <3> HIDE DEF y3
    <3>1. B * y3 <= B * (B + B * B) /\ B * y3 \in Nat
      BY <2>3, BaseAssumption
    <3> QED BY <2>1, <3>1, BaseAssumption
  <2>5. y1 \in 0 .. B + B * B + B * B * B + B * B * B * B
    <3> HIDE DEF y2
    <3>1. B * y2 <= B * (B + B * B + B * B * B) /\ B * y2 \in Nat
      BY <2>4, BaseAssumption
    <3> QED BY <2>1, <3>1, BaseAssumption
  <2>6. V <= B + 18 + B * (B + B * B + B * B * B + B * B * B * B)
    <3>1. V = w.l0 + B * y1
      BY DEF ValueOf
    <3> HIDE DEF y1, V, w
    <3>2. B * y1 <= B * (B + B * B + B * B * B + B * B * B * B) /\ B * y1 \in Nat
      BY <2>5, BaseAssumption
    <3> QED BY <2>1, <3>1, <3>2, BaseAssumption
  <2> DEFINE B2 == B * B  B3 == B * B * B  B4 == B * B * B * B
  <2>7. /\ B2 \in Nat /\ B3 \in Nat /\ B4 \in Nat /\ Fifth \in Nat
        /\ 19 <= B /\ 19 * B <= B2 /\ 19 * B2 <= B3 /\ 19 * B3 <= B4 /\ 19 * B4 <= Fifth
    BY BaseAssumption DEF Fifth
  <2>8. B + 18 + B * (B + B * B + B * B * B + B * B * B * B) = B + 18 + B2 + B3 + B4 + Fifth
    BY BaseAssumption DEF Fifth
  <2>9. P = Fifth - 19
    BY BaseAssumption DEF P, Fifth
  <2> HIDE DEF B2, B3, B4, V
  <2> QED BY <1>4, <2>6, <2>7, <2>8, <2>9, BaseAssumption
<1> HIDE DEF w, c, V
<1>10. c \in {0, 1}
  <2>1. SUFFICES ASSUME c >= 2 PROVE FALSE
    BY <1>5
  <2>2. Fifth * c >= Fifth * 2
    BY <1>5, <1>9, <2>1
  <2> QED BY <1>4, <1>5, <1>9, <2>2
<1>11. PICK q \in Nat : ValueOf(reduce(v)) = V + 19 * c - Fifth * q
  BY <1>7
<1>12. q = c
  <2>1. ValueOf(reduce(v)) \in Nat /\ ValueOf(reduce(v)) < Fifth
    BY <1>8, <1>9
  <2>2. CASE c = 0
    <3>1. V < Fifth /\ Fifth * q <= V
      BY <1>4, <1>5, <1>9, <1>11, <2>1, <2>2
    <3>2. SUFFICES ASSUME q >= 1 PROVE FALSE
      BY <2>2
    <3>3. Fifth * q >= Fifth * 1
      BY <1>9, <3>2
    <3> QED BY <1>4, <1>9, <3>1, <3>3
  <2>3. CASE c = 1
    <3>1. Fifth * q <= V + 19 /\ V + 19 < Fifth * 2 /\ V + 19 >= Fifth
      BY <1>4, <1>5, <1>9, <1>11, <2>1, <2>3
    <3>2. q # 0
      BY <1>4, <1>9, <1>11, <2>1, <2>3, <3>1
    <3>3. SUFFICES ASSUME q >= 2 PROVE FALSE
      BY <2>3, <3>2
    <3>4. Fifth * q >= Fifth * 2
      BY <1>9, <3>3
    <3> QED BY <1>4, <1>9, <3>1, <3>4
  <2> QED BY <1>10, <2>2, <2>3
<1>13. ValueOf(reduce(v)) = V - P * c
  BY <1>4, <1>9, <1>10, <1>11, <1>12
<1>14. ValueOf(reduce(v)) \in 0 .. P - 1
  BY <1>4, <1>5, <1>8, <1>9, <1>10, <1>13
<1>15. Congruent(ValueOf(reduce(v)), V)
  BY <1>10, <1>13 DEF Congruent
<1>16. Congruent(ValueOf(reduce(v)), ValueOf(v))
  BY <1>4, <1>8, <1>9, <1>15, CongruentTransitive
<1> QED BY <1>7, <1>14, <1>16

----------------------------------------------------------------------------
(* The integers mod P.                                                     *)
LEMMA ModulusPIsNatural == P \in Nat /\ P >= 1 /\ P \in Int
<1> DEFINE B2 == B * B  B3 == B * B * B  B4 == B * B * B * B
<1>1. /\ B \in Nat /\ B2 \in Nat /\ B3 \in Nat /\ B4 \in Nat /\ Fifth \in Nat
      /\ 19 <= B /\ 19 * B <= B2 /\ 19 * B2 <= B3 /\ 19 * B3 <= B4 /\ 19 * B4 <= Fifth
  BY BaseAssumption DEF Fifth
<1>2. P = Fifth - 19
  BY DEF P, Fifth
<1> HIDE DEF B2, B3, B4
<1> QED BY <1>1, <1>2

LEMMA CongruentIsSame ==
  ASSUME NEW x \in Int, NEW y \in Int, Congruent(x, y)
  PROVE  Same(x, y, P)
<1>1. PICK k \in Int : x = y - P * k
  BY DEF Congruent
<1>2. x = y + P * (-k) /\ -k \in Int
  BY <1>1, ModulusPIsNatural
<1> QED BY <1>2 DEF Same

(* n times x, taken by eighths so that TLC's integers can hold it.         *)
LEMMA SmallTimesIs ==
  ASSUME NEW n \in Nat, NEW x \in Int
  PROVE  /\ SmallTimes(n, x) \in 0 .. P - 1
         /\ Same(SmallTimes(n, x), n * x, P)
<1> DEFINE q == n \div 8  r == n % 8  y == x * q  z == y % P  s == 8 * z + x * r
<1>0. P \in Nat /\ P >= 1 /\ P \in Int
  BY ModulusPIsNatural
<1>1. q \in Int /\ r \in Int /\ n = 8 * q + r
  OBVIOUS
<1>2. SmallTimes(n, x) = s % P
  BY DEF SmallTimes
<1> HIDE DEF q, r
<1>3. y \in Int
  BY <1>1
<1> HIDE DEF y
<1>4. z \in Int /\ Same(z, y, P)
  BY <1>0, <1>3, Remainder, SameItsRemainder
<1> HIDE DEF z
<1>5. Same(8 * z, 8 * y, P)
  <2>1. 8 \in Int
    OBVIOUS
  <2>2. Same(8, 8, P)
    BY <1>0, <2>1, SameItsRemainder
  <2> QED BY <1>0, <1>3, <1>4, <2>1, <2>2, SameProduct
<1>6. Same(s, 8 * y + x * r, P) /\ s \in Int
  <2> DEFINE e == 8 * z  f == 8 * y  g == x * r
  <2>1. e \in Int /\ f \in Int /\ g \in Int /\ Same(e, f, P)
    BY <1>1, <1>3, <1>4, <1>5
  <2> HIDE DEF e, f, g
  <2>2. Same(g, g, P)
    BY <1>0, <2>1, SameItsRemainder
  <2>3. Same(e + g, f + g, P) /\ e + g \in Int
    BY <1>0, <2>1, <2>2, SameSum
  <2> QED BY <2>3 DEF e, f, g
<1> HIDE DEF s
<1>7. 8 * y + x * r = n * x /\ n * x \in Int
  BY <1>1 DEF y
<1>8. s % P \in 0 .. P - 1 /\ Same(s % P, s, P) /\ s % P \in Int
  BY <1>0, <1>6, Remainder, SameItsRemainder
<1>9. Same(s % P, n * x, P)
  BY <1>0, <1>6, <1>7, <1>8, SameTransitive
<1> QED BY <1>2, <1>8, <1>9

(* One more digit of a product.                                            *)
NextDigit(acc, limb, x) == (SmallTimes(B, acc) + SmallTimes(limb, x)) % P

LEMMA NextDigitIs ==
  ASSUME NEW x \in Int, NEW acc \in Int, NEW limb \in Nat, NEW n \in Int, Same(acc, x * n, P)
  PROVE  /\ NextDigit(acc, limb, x) \in 0 .. P - 1
         /\ Same(NextDigit(acc, limb, x), x * (limb + B * n), P)
<1> DEFINE u == SmallTimes(B, acc)  v == SmallTimes(limb, x)  s == u + v  p == x * n  t == x * (limb + B * n)
<1>0. P \in Nat /\ P >= 1 /\ P \in Int /\ B \in Nat /\ B \in Int
  BY ModulusPIsNatural, BaseAssumption
<1>1. u \in Int /\ v \in Int /\ Same(u, B * acc, P) /\ Same(v, limb * x, P)
  <2>1. u \in 0 .. P - 1 /\ Same(u, B * acc, P)
    BY <1>0, SmallTimesIs
  <2>2. v \in 0 .. P - 1 /\ Same(v, limb * x, P)
    BY <1>0, SmallTimesIs
  <2> HIDE DEF u, v
  <2> QED BY <1>0, <2>1, <2>2
<1>2. NextDigit(acc, limb, x) = s % P
  BY DEF NextDigit
<1> HIDE DEF u, v
<1>3. p \in Int /\ t \in Int /\ B * acc \in Int /\ B * p \in Int /\ limb * x \in Int
  BY <1>0
<1>4. B * p + limb * x = t
  BY <1>0
<1>5. Same(acc, p, P)
  OBVIOUS
<1> HIDE DEF p, t
<1>6. Same(B * acc, B * p, P)
  BY <1>0, <1>3, <1>5, SameItsRemainder, SameProduct
<1>7. Same(u, B * p, P)
  BY <1>0, <1>1, <1>3, <1>6, SameTransitive
<1>8. Same(s, t, P) /\ s \in Int
  <2> DEFINE f == B * p  g == limb * x
  <2>1. f \in Int /\ g \in Int /\ Same(u, f, P) /\ Same(v, g, P) /\ f + g = t
    BY <1>1, <1>3, <1>4, <1>7
  <2> HIDE DEF f, g
  <2>2. Same(u + v, f + g, P) /\ u + v \in Int
    BY <1>0, <1>1, <2>1, SameSum
  <2> QED BY <2>1, <2>2
<1> HIDE DEF s
<1>9. s % P \in 0 .. P - 1 /\ Same(s % P, s, P) /\ s % P \in Int
  BY <1>0, <1>8, Remainder, SameItsRemainder
<1>10. Same(s % P, t, P)
  BY <1>0, <1>3, <1>8, <1>9, SameTransitive
<1> QED BY <1>2, <1>9, <1>10 DEF t

(* The product that TLC takes digit by digit is the product.               *)
LEMMA TimesModPIs ==
  ASSUME NEW x \in Int, NEW v \in Vectors(Nat)
  PROVE  TimesModP(x, v) \in 0 .. P - 1 /\ Same(TimesModP(x, v), x * ValueOf(v), P)
<1> DEFINE a4 == NextDigit(0, v.l4, x)   n4 == v.l4 + B * 0
           a3 == NextDigit(a4, v.l3, x)  n3 == v.l3 + B * n4
           a2 == NextDigit(a3, v.l2, x)  n2 == v.l2 + B * n3
           a1 == NextDigit(a2, v.l1, x)  n1 == v.l1 + B * n2
           a0 == NextDigit(a1, v.l0, x)  n0 == v.l0 + B * n1
<1>0. /\ P \in Nat /\ P >= 1 /\ P \in Int /\ B \in Nat
      /\ v.l0 \in Nat /\ v.l1 \in Nat /\ v.l2 \in Nat /\ v.l3 \in Nat /\ v.l4 \in Nat
  BY ModulusPIsNatural, BaseAssumption DEF Vectors
<1>1. TimesModP(x, v) = a0
  BY DEF TimesModP, NextDigit
<1>2. ValueOf(v) = n0
  <2>1. v.l4 + B * 0 = v.l4
    BY <1>0
  <2> QED BY <2>1 DEF ValueOf
<1>3. n4 \in Int /\ n3 \in Int /\ n2 \in Int /\ n1 \in Int
  BY <1>0
<1> HIDE DEF n3, n2, n1
<1>4. a4 \in Int /\ Same(a4, x * n4, P)
  <2>1. 0 \in Int /\ x * 0 = 0
    OBVIOUS
  <2>2. Same(0, x * 0, P)
    BY <1>0, <2>1, SameItsRemainder
  <2>3. a4 \in 0 .. P - 1 /\ Same(a4, x * n4, P)
    BY <1>0, <2>1, <2>2, NextDigitIs
  <2> HIDE DEF a4
  <2> QED BY <1>0, <2>3
<1> HIDE DEF a4, n4
<1>5. a3 \in Int /\ Same(a3, x * n3, P)
  <2>1. a3 \in 0 .. P - 1 /\ Same(a3, x * (v.l3 + B * n4), P)
    BY <1>0, <1>3, <1>4, NextDigitIs
  <2>2. x * (v.l3 + B * n4) = x * n3
    BY DEF n3
  <2> HIDE DEF a3
  <2> QED BY <1>0, <2>1, <2>2
<1> HIDE DEF a3
<1>6. a2 \in Int /\ Same(a2, x * n2, P)
  <2>1. a2 \in 0 .. P - 1 /\ Same(a2, x * (v.l2 + B * n3), P)
    BY <1>0, <1>3, <1>5, NextDigitIs
  <2>2. x * (v.l2 + B * n3) = x * n2
    BY DEF n2
  <2> HIDE DEF a2
  <2> QED BY <1>0, <2>1, <2>2
<1> HIDE DEF a2
<1>7. a1 \in Int /\ Same(a1, x * n1, P)
  <2>1. a1 \in 0 .. P - 1 /\ Same(a1, x * (v.l1 + B * n2), P)
    BY <1>0, <1>3, <1>6, NextDigitIs
  <2>2. x * (v.l1 + B * n2) = x * n1
    BY DEF n1
  <2> HIDE DEF a1
  <2> QED BY <1>0, <2>1, <2>2
<1> HIDE DEF a1
<1>8. a0 \in 0 .. P - 1 /\ Same(a0, x * n0, P)
  BY <1>0, <1>3, <1>7, NextDigitIs
<1> QED BY <1>1, <1>2, <1>8

(* What an operation returns is equal, mod P, to what it should be.        *)
LEMMA EqualModP ==
  ASSUME NEW z \in Int, NEW y \in Int, NEW w \in Int, Congruent(z, y), Same(w, y, P)
  PROVE  z % P = w % P
<1>0. P \in Nat /\ P >= 1 /\ P \in Int
  BY ModulusPIsNatural
<1>1. Same(z, y, P)
  BY CongruentIsSame
<1>2. Same(y, w, P)
  BY <1>0, SameSymmetric
<1>3. Same(z, w, P)
  BY <1>0, <1>1, <1>2, SameTransitive
<1> QED BY <1>0, <1>3, SameMod

LEMMA ResultsAreNatural ==
  ASSUME NEW a, NEW b, Full(a), Full(b)
  PROVE  /\ feAdd(a, b) \in Vectors(Nat) /\ feSubtract(a, b) \in Vectors(Nat)
         /\ feMul(a, b) \in Vectors(Nat) /\ feSquare(a) \in Vectors(Nat)
<1>1. a \in Vectors(Nat) /\ b \in Vectors(Nat)
  BY DEF Full
<1>2. feAdd(a, b) \in Vectors(Nat)
  <2> DEFINE s == Element(a.l0 + b.l0, a.l1 + b.l1, a.l2 + b.l2, a.l3 + b.l3, a.l4 + b.l4)
  <2>1. s \in Vectors(Nat)
    BY <1>1 DEF Vectors, Element
  <2> HIDE DEF s
  <2>2. carryPropagate(s) \in Vectors(Nat)
    BY <2>1, CarriedIsNatural
  <2> QED BY <2>2 DEF s, feAdd
<1>3. feSubtract(a, b) \in Vectors(Nat)
  <2> DEFINE s == Element((a.l0 + 2 * B - 38) - b.l0, (a.l1 + 2 * B - 2) - b.l1,
                          (a.l2 + 2 * B - 2) - b.l2, (a.l3 + 2 * B - 2) - b.l3,
                          (a.l4 + 2 * B - 2) - b.l4)
  <2>1. s \in Vectors(Nat)
    BY BaseAssumption DEF Full, Vectors, Element
  <2> HIDE DEF s
  <2>2. carryPropagate(s) \in Vectors(Nat)
    BY <2>1, CarriedIsNatural
  <2> QED BY <2>2 DEF s, feSubtract
<1>4. \A x \in {a, b} : feMul(a, x) \in Vectors(Nat)
  <2> SUFFICES ASSUME NEW x \in {a, b} PROVE feMul(a, x) \in Vectors(Nat)
    OBVIOUS
  <2> DEFINE r == MulColumns(a, x)
  <2>1. r \in Vectors(Nat)
    BY <1>1, BaseAssumption DEF MulColumns, Element, Vectors
  <2> HIDE DEF r
  <2>2. carryPropagate(r) \in Vectors(Nat)
    BY <2>1, CarriedIsNatural
  <2>3. carryPropagate(carryPropagate(r)) \in Vectors(Nat)
    BY <2>2, CarriedIsNatural
  <2> QED BY <2>3 DEF r, feMul
<1>5. feSquare(a) = feMul(a, a)
  BY <1>1, SquareIsMul DEF feSquare, feMul
<1> QED BY <1>2, <1>3, <1>4, <1>5

(* A product is what TimesModP computes of it.                             *)
LEMMA ProductModP ==
  ASSUME NEW a \in Vectors(Nat), NEW b \in Vectors(Nat), NEW r \in Vectors(Nat),
         Congruent(ValueOf(r), ValueOf(a) * ValueOf(b))
  PROVE  ModP(r) = TimesModP(ModP(a), b)
<1> DEFINE x == ValueOf(a)  y == ValueOf(b)  z == ValueOf(r)  m == x % P  t == TimesModP(m, b)
<1>0. P \in Nat /\ P >= 1 /\ P \in Int
  BY ModulusPIsNatural
<1>1. x \in Int /\ y \in Int /\ z \in Int /\ Congruent(z, x * y)
  BY ValueIsInt
<1> HIDE DEF x, z
<1>2. m \in Int /\ Same(m, x, P)
  BY <1>0, <1>1, Remainder, SameItsRemainder
<1> HIDE DEF m
<1>3. t \in 0 .. P - 1 /\ Same(t, m * y, P)
  BY <1>2, TimesModPIs
<1> HIDE DEF y, t
<1>4. t \in Int /\ m * y \in Int /\ x * y \in Int
  BY <1>0, <1>1, <1>2, <1>3
<1>5. Same(m * y, x * y, P)
  BY <1>0, <1>1, <1>2, SameItsRemainder, SameProduct
<1>6. Same(t, x * y, P)
  BY <1>0, <1>3, <1>4, <1>5, SameTransitive
<1>7. z % P = t % P
  <2> DEFINE p == x * y
  <2>1. p \in Int /\ Congruent(z, p) /\ Same(t, p, P)
    BY <1>1, <1>4, <1>6
  <2> HIDE DEF p
  <2> QED BY <1>1, <1>4, <2>1, EqualModP
<1>8. t % P = t
  BY <1>0, <1>3, <1>4, SameItsRemainder, SameRemainder
<1> QED BY <1>7, <1>8 DEF ModP, t, m, x, z

(* The operations on elements are those on the integers mod P.             *)
THEOREM ElementsAreExact ==
  ASSUME NEW a, NEW b, Full(a), Full(b)
  PROVE  ElementsAgree(a, b,
           [sum |-> feAdd(a, b), difference |-> feSubtract(a, b), product |-> feMul(a, b),
            square |-> feSquare(a), negated |-> feNegate(a), reduced |-> reduce(a)])
<1> DEFINE sum == feAdd(a, b)  difference == feSubtract(a, b)  product == feMul(a, b)
           square == feSquare(a)  negated == feNegate(a)  reduced == reduce(a)
           r == [sum |-> sum, difference |-> difference, product |-> product,
                 square |-> square, negated |-> negated, reduced |-> reduced]
           x == ValueOf(a)  y == ValueOf(b)
<1>0. P \in Nat /\ P >= 1 /\ P \in Int
  BY ModulusPIsNatural
<1>1. a \in Vectors(Nat) /\ b \in Vectors(Nat)
  BY DEF Full
<1>2. /\ sum \in Vectors(Nat) /\ difference \in Vectors(Nat)
      /\ product \in Vectors(Nat) /\ square \in Vectors(Nat)
  BY ResultsAreNatural
<1>3. x \in Int /\ y \in Int
  BY <1>1, ValueIsInt
<1>4. /\ ModP(a) = x % P /\ x % P \in Int /\ Same(x % P, x, P)
      /\ ModP(b) = y % P /\ y % P \in Int /\ Same(y % P, y, P)
  <2> HIDE DEF x, y
  <2>1. x % P \in Int /\ Same(x % P, x, P)
    BY <1>0, <1>3, Remainder, SameItsRemainder
  <2>2. y % P \in Int /\ Same(y % P, y, P)
    BY <1>0, <1>3, Remainder, SameItsRemainder
  <2> QED BY <2>1, <2>2 DEF ModP, x, y
<1>5. /\ Congruent(ValueOf(sum), x + y) /\ Congruent(ValueOf(difference), x - y)
      /\ Congruent(ValueOf(product), x * y) /\ Congruent(ValueOf(square), x * x)
  BY FieldIsExact
<1>6. ModP(sum) = (ModP(a) + ModP(b)) % P
  <2> DEFINE m == x % P  n == y % P  z == ValueOf(sum)
  <2>1. z \in Int
    BY <1>2, ValueIsInt
  <2> HIDE DEF x, y, z
  <2>2. Same(m + n, x + y, P)
    BY <1>0, <1>3, <1>4, SameSum
  <2>3. m + n \in Int /\ x + y \in Int /\ Congruent(z, x + y)
    BY <1>3, <1>4, <1>5 DEF z
  <2>4. z % P = (m + n) % P
    BY <2>1, <2>2, <2>3, EqualModP
  <2> QED BY <1>4, <2>4 DEF ModP, z
<1>7. ModP(difference) = (ModP(a) - ModP(b)) % P
  <2> DEFINE m == x % P  n == y % P  z == ValueOf(difference)
  <2>1. z \in Int
    BY <1>2, ValueIsInt
  <2> HIDE DEF x, y, z
  <2>2. Same(m - n, x - y, P)
    BY <1>0, <1>3, <1>4, SameSum
  <2>3. m - n \in Int /\ x - y \in Int /\ Congruent(z, x - y)
    BY <1>3, <1>4, <1>5 DEF z
  <2>4. z % P = (m - n) % P
    BY <2>1, <2>2, <2>3, EqualModP
  <2> QED BY <1>4, <2>4 DEF ModP, z
<1>8. negated \in Vectors(Nat) /\ ModP(negated) = (-ModP(a)) % P
  <2> DEFINE m == x % P  z == ValueOf(negated)
  <2>1. Full(feZero) /\ ValueOf(feZero) = 0
    BY BaseAssumption DEF Full, Vectors, feZero, Element, ValueOf
  <2>2. negated = feSubtract(feZero, a)
    BY DEF feNegate
  <2>3. negated \in Vectors(Nat) /\ Congruent(z, ValueOf(feZero) - x)
    BY <2>1, <2>2, ResultsAreNatural, FieldIsExact
  <2>4. z \in Int
    BY <2>3, ValueIsInt
  <2> HIDE DEF x, z, negated
  <2>5. ValueOf(feZero) - x = -x /\ -x \in Int /\ -m \in Int
    BY <1>3, <1>4, <2>1
  <2>6. Same(-m, -x, P)
    <3>1. 0 \in Int
      OBVIOUS
    <3>2. Same(0, 0, P)
      BY <1>0, <3>1, SameItsRemainder
    <3>3. Same(0 - m, 0 - x, P)
      BY <1>0, <1>3, <1>4, <3>1, <3>2, SameSum
    <3>4. 0 - m = -m /\ 0 - x = -x
      BY <1>3, <1>4
    <3> QED BY <3>3, <3>4
  <2>7. z % P = (-m) % P
    BY <2>3, <2>4, <2>5, <2>6, EqualModP
  <2> QED BY <1>4, <2>3, <2>7 DEF ModP, z
<1>9. ModP(product) = TimesModP(ModP(a), b) /\ ModP(square) = TimesModP(ModP(a), a)
  <2> HIDE DEF product, square
  <2> QED BY <1>1, <1>2, <1>5, ProductModP
<1>10. ValueOf(reduced) = ModP(a) /\ reduced \in Vectors(0 .. B - 1)
  <2> DEFINE z == ValueOf(reduced)
  <2>1. reduced \in Vectors(0 .. B - 1) /\ z \in 0 .. P - 1 /\ Congruent(z, x)
    BY ReduceIsCanonical
  <2> HIDE DEF x, z
  <2>2. z \in Int
    BY <1>0, <2>1
  <2>3. Same(x, z, P)
    BY <1>0, <1>3, <2>1, <2>2, CongruentIsSame, SameSymmetric
  <2>4. x % P = z
    BY <1>0, <1>3, <2>1, <2>2, <2>3, SameRemainder
  <2> QED BY <1>4, <2>1, <2>4 DEF z
<1>11. /\ r.sum = sum /\ r.difference = difference /\ r.product = product /\ r.square = square
       /\ r.negated = negated /\ r.reduced = reduced
  OBVIOUS
<1> HIDE DEF sum, difference, product, square, negated, reduced
<1>12. \A v \in {r.sum, r.difference, r.negated, r.product, r.square} : Limbs(v) \subseteq Nat
  BY <1>2, <1>8, <1>11 DEF Limbs, Vectors
<1>13. Limbs(r.reduced) \subseteq 0 .. B - 1
  BY <1>10, <1>11 DEF Limbs, Vectors
<1> HIDE DEF r
<1>14. ElementsAgree(a, b, r)
  BY <1>6, <1>7, <1>8, <1>9, <1>10, <1>11, <1>12, <1>13 DEF ElementsAgree
<1> QED BY <1>14 DEF r, sum, difference, product, square, negated, reduced

----------------------------------------------------------------------------
(* Encodings: which bits of x limb i has.                                  *)
LimbOf(x, i) == {k \in 0 .. 50 : 51 * i + k \in x}

LEMMA LimbsOfBytes ==
  ASSUME NEW x \in SUBSET (0 .. 255)
  PROVE  feSetBytes(x) = <<LimbOf(x, 0), LimbOf(x, 1), LimbOf(x, 2), LimbOf(x, 3), LimbOf(x, 4)>>
<1>1. Limb(x, 0, 0) = LimbOf(x, 0)
  BY DEF Limb, LimbOf
<1>2. Limb(x, 6, 3) = LimbOf(x, 1)
  BY DEF Limb, LimbOf
<1>3. Limb(x, 12, 6) = LimbOf(x, 2)
  BY DEF Limb, LimbOf
<1>4. Limb(x, 19, 1) = LimbOf(x, 3)
  BY DEF Limb, LimbOf
<1>5. Limb(x, 24, 12) = LimbOf(x, 4)
  BY DEF Limb, LimbOf
<1> QED BY <1>1, <1>2, <1>3, <1>4, <1>5 DEF feSetBytes

LEMMA BytesOfLimb ==
  ASSUME NEW x \in SUBSET (0 .. 255), NEW i \in 0 .. 4
  PROVE  LimbBytes(LimbOf(x, i), i) = {n \in x : 51 * i <= n /\ n <= 51 * i + 50}
<1> DEFINE L == LimbOf(x, i)  o == (51 * i) % 8  q == 8 * ((51 * i) \div 8)
           shifted == {k + o : k \in L}  word == shifted \cap (0 .. 63)
           bytes == {q + k : k \in word}
           R == {n \in x : 51 * i <= n /\ n <= 51 * i + 50}
<1>1. o \in 0 .. 7 /\ q \in Int /\ q + o = 51 * i
  OBVIOUS
<1>2. LimbBytes(L, i) = bytes \cap (0 .. 255)
  BY DEF LimbBytes
<1> HIDE DEF o, q
<1>3. ASSUME NEW n \in bytes \cap (0 .. 255) PROVE n \in R
  <2>1. PICK j \in word : n = q + j
    OBVIOUS
  <2>2. PICK k \in L : j = k + o
    OBVIOUS
  <2>3. k \in 0 .. 50 /\ 51 * i + k \in x
    BY DEF LimbOf
  <2>4. n = 51 * i + k
    BY <1>1, <2>1, <2>2, <2>3
  <2> QED BY <2>3, <2>4
<1>4. ASSUME NEW n \in R PROVE n \in bytes \cap (0 .. 255)
  <2> DEFINE k == n - 51 * i
  <2>1. n \in 0 .. 255 /\ k \in 0 .. 50 /\ 51 * i + k = n
    OBVIOUS
  <2>2. k \in L
    BY <2>1 DEF LimbOf
  <2>3. k + o \in 0 .. 63 /\ q + (k + o) = n
    BY <1>1, <2>1
  <2> HIDE DEF k, L
  <2>4. k + o \in word
    BY <2>2, <2>3
  <2> HIDE DEF word
  <2> QED BY <2>1, <2>3, <2>4
<1>5. bytes \cap (0 .. 255) = R
  <2> HIDE DEF bytes, R
  <2> QED BY <1>3, <1>4
<1> QED BY <1>2, <1>5

LEMMA EncodingKeepsBits ==
  ASSUME NEW x \in SUBSET (0 .. 255)
  PROVE  feBytes(feSetBytes(x)) = x \ {255}
<1> DEFINE L == feSetBytes(x)
<1>1. \A i \in 0 .. 4 : L[i + 1] = LimbOf(x, i)
  BY LimbsOfBytes
<1>2. \A i \in 0 .. 4 : LimbBytes(L[i + 1], i) = {n \in x : 51 * i <= n /\ n <= 51 * i + 50}
  BY <1>1, BytesOfLimb
<1>3. feBytes(L) = UNION {{n \in x : 51 * i <= n /\ n <= 51 * i + 50} : i \in 0 .. 4}
  BY <1>2 DEF feBytes
<1>4. \A n \in x \ {255} : \E i \in 0 .. 4 : 51 * i <= n /\ n <= 51 * i + 50
  <2> SUFFICES ASSUME NEW n \in x \ {255} PROVE \E i \in 0 .. 4 : 51 * i <= n /\ n <= 51 * i + 50
    OBVIOUS
  <2>1. n \in 0 .. 254
    OBVIOUS
  <2>2. CASE n <= 50
    BY <2>1, <2>2
  <2>3. CASE n > 50 /\ n <= 101
    BY <2>1, <2>3
  <2>4. CASE n > 101 /\ n <= 152
    BY <2>1, <2>4
  <2>5. CASE n > 152 /\ n <= 203
    BY <2>1, <2>5
  <2>6. CASE n > 203
    BY <2>1, <2>6
  <2> QED BY <2>1, <2>2, <2>3, <2>4, <2>5, <2>6
<1>5. \A i \in 0 .. 4 : 51 * i + 50 < 255
  OBVIOUS
<1> DEFINE part(i) == {n \in x : 51 * i <= n /\ n <= 51 * i + 50}  F == feBytes(L)
<1>6. F = UNION {part(i) : i \in 0 .. 4}
  BY <1>3
<1> HIDE DEF L, F
<1>7. ASSUME NEW n \in F PROVE n \in x \ {255}
  <2>1. PICK i \in 0 .. 4 : n \in part(i)
    BY <1>6
  <2> QED BY <1>5, <2>1
<1>8. ASSUME NEW n \in x \ {255} PROVE n \in F
  <2>1. PICK i \in 0 .. 4 : 51 * i <= n /\ n <= 51 * i + 50
    BY <1>4
  <2>2. n \in part(i)
    BY <2>1
  <2> HIDE DEF part
  <2> QED BY <1>6, <2>2
<1>9. F = x \ {255}
  BY <1>7, <1>8
<1> QED BY <1>9 DEF F, L

LEMMA ScalarBytesKeepBits ==
  ASSUME NEW x \in SUBSET (0 .. 255), NEW ws,
         ws = [i \in 1 .. 4 |-> {k \in 0 .. 63 : 64 * (i - 1) + k \in x}]
  PROVE  /\ \A n \in 0 .. 31 : fiatScalarToBytes(ws)[n] = {b \in 0 .. 7 : 8 * n + b \in x}
         /\ fiatScalarFromBytes(fiatScalarToBytes(ws)) = ws
<1> DEFINE bytes == fiatScalarToBytes(ws)  back == fiatScalarFromBytes(bytes)
<1>1. \A n \in 0 .. 31 : bytes[n] = {b \in 0 .. 7 : 8 * n + b \in x}
  <2> SUFFICES ASSUME NEW n \in 0 .. 31 PROVE bytes[n] = {b \in 0 .. 7 : 8 * n + b \in x}
    OBVIOUS
  <2> DEFINE q == n \div 8  r == n % 8
  <2>1. q \in 0 .. 3 /\ r \in 0 .. 7 /\ n = 8 * q + r
    OBVIOUS
  <2>2. bytes[n] = {b \in 0 .. 7 : 8 * r + b \in ws[q + 1]}
    BY DEF fiatScalarToBytes
  <2> HIDE DEF q, r, bytes
  <2>3. ws[q + 1] = {k \in 0 .. 63 : 64 * q + k \in x}
    BY <2>1
  <2>4. \A b \in 0 .. 7 : 8 * r + b \in 0 .. 63 /\ 64 * q + (8 * r + b) = 8 * n + b
    BY <2>1
  <2>5. \A b \in 0 .. 7 : 8 * r + b \in ws[q + 1] <=> 8 * n + b \in x
    BY <2>3, <2>4
  <2> QED BY <2>2, <2>5
<1>2. \A i \in 1 .. 4 : back[i] = ws[i]
  <2> SUFFICES ASSUME NEW i \in 1 .. 4 PROVE back[i] = ws[i]
    OBVIOUS
  <2> DEFINE part(n) == {b + 8 * n : b \in bytes[8 * (i - 1) + n]}
  <2>1. back[i] = UNION {part(n) : n \in 0 .. 7}
    BY DEF fiatScalarFromBytes
  <2>2. \A n \in 0 .. 7 : bytes[8 * (i - 1) + n] = {b \in 0 .. 7 : 64 * (i - 1) + (8 * n + b) \in x}
    <3> SUFFICES ASSUME NEW n \in 0 .. 7
                 PROVE  bytes[8 * (i - 1) + n] = {b \in 0 .. 7 : 64 * (i - 1) + (8 * n + b) \in x}
      OBVIOUS
    <3> DEFINE m == 8 * (i - 1) + n
    <3>1. m \in 0 .. 31 /\ \A b \in 0 .. 7 : 8 * m + b = 64 * (i - 1) + (8 * n + b)
      OBVIOUS
    <3> HIDE DEF m, bytes
    <3>2. bytes[m] = {b \in 0 .. 7 : 8 * m + b \in x}
      BY <1>1, <3>1
    <3>3. bytes[m] = {b \in 0 .. 7 : 64 * (i - 1) + (8 * n + b) \in x}
      BY <3>1, <3>2
    <3> QED BY <3>3 DEF m
  <2> HIDE DEF back, bytes
  <2>3. ASSUME NEW k \in back[i] PROVE k \in ws[i]
    <3>1. PICK n \in 0 .. 7 : k \in part(n)
      BY <2>1
    <3>2. PICK b \in bytes[8 * (i - 1) + n] : k = b + 8 * n
      BY <3>1
    <3>3. b \in 0 .. 7 /\ 64 * (i - 1) + (8 * n + b) \in x
      BY <2>2
    <3>4. k = 8 * n + b /\ k \in 0 .. 63
      BY <3>2, <3>3
    <3> QED BY <3>3, <3>4
  <2>4. ASSUME NEW k \in ws[i] PROVE k \in back[i]
    <3> DEFINE n == k \div 8  b == k % 8
    <3>1. k \in 0 .. 63 /\ 64 * (i - 1) + k \in x
      OBVIOUS
    <3>2. n \in 0 .. 7 /\ b \in 0 .. 7 /\ k = 8 * n + b /\ k = b + 8 * n
      BY <3>1
    <3> HIDE DEF n, b
    <3>3. b \in bytes[8 * (i - 1) + n]
      BY <2>2, <3>1, <3>2
    <3>4. k \in part(n)
      BY <3>2, <3>3
    <3> QED BY <2>1, <3>2, <3>4
  <2> QED BY <2>3, <2>4
<1>3. back = [i \in 1 .. 4 |-> back[i]] /\ ws = [i \in 1 .. 4 |-> ws[i]]
  BY DEF fiatScalarFromBytes
<1> HIDE DEF back
<1>4. back = ws
  BY <1>2, <1>3
<1> QED BY <1>1, <1>4 DEF back

(* No bit of an encoding but the last is lost or moved.                    *)
THEOREM EncodingsAreExact ==
  ASSUME NEW x \in SUBSET (0 .. 255), NEW ws,
         ws = [i \in 1 .. 4 |-> {k \in 0 .. 63 : 64 * (i - 1) + k \in x}]
  PROVE  EncodingsAgree(x, [limbs |-> feSetBytes(x), bytes |-> feBytes(feSetBytes(x)),
                            scalar |-> fiatScalarToBytes(ws),
                            words |-> fiatScalarFromBytes(fiatScalarToBytes(ws)), given |-> ws])
<1>1. \A i \in 1 .. 5 : feSetBytes(x)[i] = {k \in 0 .. 50 : 51 * (i - 1) + k \in x}
  <2> SUFFICES ASSUME NEW i \in 1 .. 5 PROVE feSetBytes(x)[i] = LimbOf(x, i - 1)
    BY DEF LimbOf
  <2>1. i = 1 \/ i = 2 \/ i = 3 \/ i = 4 \/ i = 5
    OBVIOUS
  <2> QED BY <2>1, LimbsOfBytes
<1> DEFINE limbs == feSetBytes(x)  bytes == feBytes(limbs)  scalar == fiatScalarToBytes(ws)
           words == fiatScalarFromBytes(scalar)
           r == [limbs |-> limbs, bytes |-> bytes, scalar |-> scalar, words |-> words, given |-> ws]
<1>2. r.limbs = limbs /\ r.bytes = bytes /\ r.scalar = scalar /\ r.words = words /\ r.given = ws
  OBVIOUS
<1>3. bytes = x \ {255}
  BY EncodingKeepsBits
<1>4. (\A n \in 0 .. 31 : scalar[n] = {b \in 0 .. 7 : 8 * n + b \in x}) /\ words = ws
  BY ScalarBytesKeepBits
<1> HIDE DEF limbs, bytes, scalar, words
<1>5. \A i \in 1 .. 5 : limbs[i] = {k \in 0 .. 50 : 51 * (i - 1) + k \in x}
  BY <1>1 DEF limbs
<1> HIDE DEF r
<1>6. EncodingsAgree(x, r)
  BY ONLY <1>2, <1>3, <1>4, <1>5 DEF EncodingsAgree
<1> QED BY <1>6 DEF r, limbs, bytes, scalar, words

----------------------------------------------------------------------------
(* Exponents: n ones are 2^n - 1, and squaring k times makes room for k    *)
(* more.                                                                   *)
Ones(e, n) == e = 0 .. n - 1

LEMMA MultipliedIs ==
  ASSUME NEW e, NEW f, NEW g, e \cap f = {}, e \cup f = g
  PROVE  Multiplied(e, f) = g
BY DEF Multiplied

LEMMA RangeSquared ==
  ASSUME NEW m \in Nat, NEW n \in Nat, NEW k \in Nat
  PROVE  Squared(m .. n - 1, k) = m + k .. n + k - 1
<1>1. ASSUME NEW b \in m + k .. n + k - 1 PROVE b \in Squared(m .. n - 1, k)
  <2>1. b - k \in m .. n - 1 /\ b = (b - k) + k
    OBVIOUS
  <2> QED BY <2>1 DEF Squared
<1>2. ASSUME NEW b \in Squared(m .. n - 1, k) PROVE b \in m + k .. n + k - 1
  BY DEF Squared
<1> QED BY <1>1, <1>2

LEMMA OnesSquared ==
  ASSUME NEW e, NEW n \in Nat, NEW k \in Nat, NEW m, m = n + k, Ones(e, n)
  PROVE  Squared(e, k) = k .. m - 1
<1>1. 0 \in Nat /\ 0 + k = k
  OBVIOUS
<1>2. Squared(0 .. n - 1, k) = 0 + k .. n + k - 1
  BY <1>1, RangeSquared
<1> QED BY <1>1, <1>2 DEF Ones

LEMMA OnesMultiplied ==
  ASSUME NEW e, NEW f, NEW n \in Nat, NEW k \in Nat, NEW m, m = n + k, Ones(e, n), Ones(f, k)
  PROVE  Ones(Multiplied(Squared(e, k), f), m)
<1> DEFINE s == Squared(e, k)  low == 0 .. k - 1
<1>1. s = k .. m - 1 /\ f = low
  <2>1. s = k .. m - 1
    BY OnesSquared
  <2> HIDE DEF s
  <2> QED BY <2>1 DEF Ones
<1> HIDE DEF s
<1>2. s \cap f = {}
  BY <1>1
<1>3. s \cup f = 0 .. m - 1
  BY <1>1
<1>4. Multiplied(s, f) = 0 .. m - 1
  BY <1>2, <1>3, MultipliedIs
<1> QED BY <1>4 DEF Ones, s

(* The chains begin alike: the exponents 9, 11 and 31.                     *)
LEMMA ChainBegins ==
  /\ Squared({0}, 1) = {1} /\ Squared({1}, 2) = {3} /\ Squared({0}, 3) = {3}
  /\ Multiplied({3}, {0}) = {0, 3} /\ Multiplied({0}, {3}) = {0, 3}
  /\ Multiplied({0, 3}, {1}) = {0, 1, 3} /\ Multiplied({1}, {0, 3}) = {0, 1, 3}
  /\ Squared({0, 1, 3}, 1) = {1, 2, 4}
  /\ Ones(Multiplied({1, 2, 4}, {0, 3}), 5) /\ Ones(Multiplied({0, 3}, {1, 2, 4}), 5)
<1>1. Squared({0}, 1) = {1}
  BY DEF Squared
<1>2. Squared({1}, 2) = {3}
  BY DEF Squared
<1>3. Squared({0}, 3) = {3}
  BY DEF Squared
<1>4. Multiplied({3}, {0}) = {0, 3} /\ Multiplied({0}, {3}) = {0, 3}
  <2>1. {3} \cap {0} = {} /\ {3} \cup {0} = {0, 3} /\ {0} \cap {3} = {} /\ {0} \cup {3} = {0, 3}
    OBVIOUS
  <2> QED BY <2>1, MultipliedIs
<1>5. Multiplied({0, 3}, {1}) = {0, 1, 3} /\ Multiplied({1}, {0, 3}) = {0, 1, 3}
  <2>1. {0, 3} \cap {1} = {} /\ {0, 3} \cup {1} = {0, 1, 3}
    OBVIOUS
  <2>2. {1} \cap {0, 3} = {} /\ {1} \cup {0, 3} = {0, 1, 3}
    OBVIOUS
  <2> QED BY <2>1, <2>2, MultipliedIs
<1>6. Squared({0, 1, 3}, 1) = {1, 2, 4}
  BY DEF Squared
<1>7. Multiplied({1, 2, 4}, {0, 3}) = 0 .. 4 /\ Multiplied({0, 3}, {1, 2, 4}) = 0 .. 4
  <2>1. {1, 2, 4} \cap {0, 3} = {} /\ {1, 2, 4} \cup {0, 3} = 0 .. 4
    OBVIOUS
  <2>2. {0, 3} \cap {1, 2, 4} = {} /\ {0, 3} \cup {1, 2, 4} = 0 .. 4
    OBVIOUS
  <2> QED BY <2>1, <2>2, MultipliedIs
<1>8. 5 - 1 = 4
  OBVIOUS
<1> QED BY <1>1, <1>2, <1>3, <1>4, <1>5, <1>6, <1>7, <1>8 DEF Ones

(* From 5 ones to 250, as both chains do it.                               *)
LEMMA ChainIsOnes ==
  ASSUME NEW r5, Ones(r5, 5)
  PROVE  Ones(Chain250(r5), 250)
<1> DEFINE r10 == Doubled(r5, 5)  r20 == Doubled(r10, 10)  r40 == Doubled(r20, 20)
           r50 == Multiplied(Squared(r40, 10), r10)
           r100 == Doubled(r50, 50)  r200 == Doubled(r100, 100)
           r250 == Multiplied(Squared(r200, 50), r50)
<1>1. Chain250(r5) = r250
  BY DEF Chain250
<1>2. Ones(r10, 10)
  BY OnesMultiplied DEF Doubled
<1> HIDE DEF r10
<1>3. Ones(r20, 20)
  BY <1>2, OnesMultiplied DEF Doubled
<1> HIDE DEF r20
<1>4. Ones(r40, 40)
  BY <1>3, OnesMultiplied DEF Doubled
<1> HIDE DEF r40
<1>5. Ones(r50, 50)
  <2> DEFINE n == 40  k == 10  m == 50
  <2>1. n \in Nat /\ k \in Nat /\ m = n + k /\ Ones(r40, n) /\ Ones(r10, k)
    BY <1>2, <1>4
  <2>2. r50 = Multiplied(Squared(r40, k), r10)
    OBVIOUS
  <2> HIDE DEF n, k, r50
  <2>3. Ones(Multiplied(Squared(r40, k), r10), m)
    BY <2>1, OnesMultiplied
  <2> QED BY <2>2, <2>3
<1> HIDE DEF r50
<1>6. Ones(r100, 100)
  <2> DEFINE n == 50  m == 100
  <2>1. n \in Nat /\ m = n + n /\ Ones(r50, n)
    BY <1>5
  <2>2. r100 = Multiplied(Squared(r50, n), r50)
    BY DEF Doubled
  <2> HIDE DEF n, r100
  <2>3. Ones(Multiplied(Squared(r50, n), r50), m)
    BY <2>1, OnesMultiplied
  <2> QED BY <2>2, <2>3
<1> HIDE DEF r100
<1>7. Ones(r200, 200)
  BY <1>6, OnesMultiplied DEF Doubled
<1> HIDE DEF r200
<1>8. Ones(r250, 250)
  <2>1. 200 \in Nat /\ 50 \in Nat /\ 250 = 200 + 50
    OBVIOUS
  <2> QED BY <1>7, <1>5, <2>1, OnesMultiplied
<1> QED BY <1>1, <1>8

(* The exponent of Invert is 2^255 - 21, which is p - 2, and that of       *)
(* Pow22523 is 2^252 - 3, which is (p - 5) / 8 (fe.go:120-182, 339-387).   *)
THEOREM ChainsAreExact ==
  Invert = (0 .. 254) \ {2, 4} /\ Pow22523 = (0 .. 251) \ {1}
<1>1. Invert = (0 .. 254) \ {2, 4}
  <2> DEFINE z == {0}  z2 == Squared(z, 1)
             z9 == Multiplied(Squared(z2, 2), z)
             z11 == Multiplied(z9, z2)
             r5 == Multiplied(Squared(z11, 1), z9)
             s == Squared(Chain250(r5), 5)
  <2>1. Invert = Multiplied(s, z11)
    BY DEF Invert
  <2>2. z11 = {0, 1, 3} /\ Ones(r5, 5)
    BY ChainBegins
  <2> HIDE DEF r5, z11
  <2>3. s = 5 .. 254
    <3>1. Ones(Chain250(r5), 250)
      BY <2>2, ChainIsOnes
    <3> HIDE DEF r5
    <3>2. s = 5 .. 255 - 1
      <4> DEFINE c == Chain250(r5)  n == 250  k == 5  m == 255
      <4>1. n \in Nat /\ k \in Nat /\ m = n + k /\ Ones(c, n) /\ s = Squared(c, k)
        BY <3>1
      <4> HIDE DEF c, s, n, k, m
      <4>2. s = k .. m - 1
        BY <4>1, OnesSquared
      <4> QED BY <4>2 DEF k, m
    <3> QED BY <3>2
  <2> HIDE DEF s
  <2>4. s \cap z11 = {}
    BY <2>2, <2>3
  <2>5. s \cup z11 = (0 .. 254) \ {2, 4}
    BY <2>2, <2>3
  <2> QED BY <2>1, <2>4, <2>5, MultipliedIs
<1>2. Pow22523 = (0 .. 251) \ {1}
  <2> DEFINE x == {0}
             x9 == Multiplied(x, Squared(x, 3))
             x11 == Multiplied(Squared(x, 1), x9)
             r5 == Multiplied(x9, Squared(x11, 1))
             s == Squared(Chain250(r5), 2)
  <2>1. Pow22523 = Multiplied(s, x)
    BY DEF Pow22523
  <2>2. Ones(r5, 5)
    BY ChainBegins
  <2> HIDE DEF r5
  <2>3. s = 2 .. 251
    <3>1. Ones(Chain250(r5), 250)
      BY <2>2, ChainIsOnes
    <3>2. s = 2 .. 252 - 1
      <4> DEFINE c == Chain250(r5)  n == 250  k == 2  m == 252
      <4>1. n \in Nat /\ k \in Nat /\ m = n + k /\ Ones(c, n) /\ s = Squared(c, k)
        BY <3>1
      <4> HIDE DEF c, s, n, k, m
      <4>2. s = k .. m - 1
        BY <4>1, OnesSquared
      <4> QED BY <4>2 DEF k, m
    <3> QED BY <3>2
  <2> HIDE DEF s
  <2>4. s \cap x = {}
    BY <2>3
  <2>5. s \cup x = (0 .. 251) \ {1}
    BY <2>3
  <2> QED BY <2>1, <2>4, <2>5, MultipliedIs
<1> QED BY <1>1, <1>2

----------------------------------------------------------------------------
(* Words: a chain of carries is a recursion, and it has values.            *)
LEMMA SetInduction ==
  ASSUME NEW S, 0 \in S, \A n \in Nat : n \in S => n + 1 \in S
  PROVE  Nat \subseteq S
<1> DEFINE R == OpToRel(<, Nat)
           T == Nat \ S
<1>1. \A m, n \in Nat : m < n => <<m, n>> \in R
  BY DEF OpToRel
<1>2. IsWellFoundedOn(R, Nat)
  BY NatLessThanWellFounded
<1> HIDE DEF R
<1>3. ASSUME T # {} PROVE FALSE
  <2>1. PICK n \in T : \A m \in T : ~(<<m, n>> \in R)
    <3>1. T \subseteq Nat
      OBVIOUS
    <3> HIDE DEF T
    <3> QED BY <1>2, <1>3, <3>1, WFMin
  <2>2. n # 0 /\ n - 1 \in Nat
    OBVIOUS
  <2>3. n - 1 \notin T
    <3>1. n \in Nat /\ n - 1 < n
      OBVIOUS
    <3>2. <<n - 1, n>> \in R
      BY <1>1, <2>2, <3>1
    <3> HIDE DEF T
    <3> QED BY <2>1, <3>2
  <2> QED BY <2>2, <2>3
<1> QED BY <1>3

(* What a recursion over 0 .. n defines: it has a value at each step.      *)
Runs(f, S, x, g, n) ==
  /\ f \in [0 .. n -> S]
  /\ f[0] = x
  /\ \A i \in 1 .. n : f[i] = g[<<i, f[i - 1]>>]

LEMMA RecursionRuns ==
  ASSUME NEW n \in Nat, NEW S, NEW x \in S, NEW g \in [(1 .. n) \X S -> S]
  PROVE  \E f : Runs(f, S, x, g, n)
<1> DEFINE T == {m \in Nat : m <= n => \E f : Runs(f, S, x, g, m)}
<1>1. 0 \in T
  <2> DEFINE f == [i \in 0 .. 0 |-> x]
  <2>1. Runs(f, S, x, g, 0)
    BY DEF Runs
  <2> QED BY <2>1
<1>2. ASSUME NEW m \in Nat, m \in T PROVE m + 1 \in T
  <2> SUFFICES ASSUME m + 1 <= n PROVE \E f : Runs(f, S, x, g, m + 1)
    BY <1>2
  <2>1. PICK f : Runs(f, S, x, g, m)
    BY <1>2
  <2> DEFINE y == g[<<m + 1, f[m]>>]
             h == [i \in 0 .. m + 1 |-> IF i = m + 1 THEN y ELSE f[i]]
  <2>2. f[m] \in S /\ m + 1 \in 1 .. n
    BY <2>1 DEF Runs
  <2>3. y \in S
    BY <2>2
  <2>4. \A i \in 0 .. m : h[i] = f[i] /\ f[i] \in S
    BY <2>1 DEF Runs
  <2>5. h[m + 1] = y
    OBVIOUS
  <2>6. h \in [0 .. m + 1 -> S]
    <3>1. ASSUME NEW i \in 0 .. m + 1 PROVE h[i] \in S
      <4> HIDE DEF h, y
      <4>1. i = m + 1 \/ i \in 0 .. m
        OBVIOUS
      <4> QED BY <2>3, <2>4, <2>5, <4>1
    <3> QED BY <3>1
  <2> HIDE DEF h
  <2>7. h[0] = x
    BY <2>1, <2>4 DEF Runs
  <2>8. \A i \in 1 .. m + 1 : h[i] = g[<<i, h[i - 1]>>]
    <3> SUFFICES ASSUME NEW i \in 1 .. m + 1 PROVE h[i] = g[<<i, h[i - 1]>>]
      OBVIOUS
    <3>1. CASE i = m + 1
      BY <3>1, <2>4, <2>5
    <3>2. CASE i # m + 1
      <4>1. i \in 1 .. m /\ i - 1 \in 0 .. m /\ i \in 0 .. m
        BY <3>2
      <4> QED BY <4>1, <2>1, <2>4 DEF Runs
    <3> QED BY <3>1, <3>2
  <2> QED BY <2>6, <2>7, <2>8 DEF Runs
<1> HIDE DEF T
<1>3. Nat \subseteq T
  BY <1>1, <1>2, SetInduction
<1> QED BY <1>3 DEF T

LEMMA WordDivision ==
  ASSUME NEW x \in Int
  PROVE  /\ x \div W \in Int /\ x % W \in 0 .. W - 1
         /\ x = W * (x \div W) + (x % W)
BY WordsAssumption

(* Words given one by one are a sequence of that length.                   *)
LEMMA WordsAreSeq ==
  ASSUME NEW n \in Nat, NEW S, NEW f \in [1 .. n -> S]
  PROVE  f \in Seq(S) /\ Len(f) = n
<1>1. f \in Seq(S)
  BY SeqDef
<1>2. DOMAIN f = 1 .. Len(f) /\ Len(f) \in Nat
  BY <1>1, LenProperties
<1> QED BY <1>1, <1>2

(* The carries of an addition: each is what its place leaves over.         *)
CarryAt(c, u, v, i) == IF i = 0 THEN 0 ELSE (u[i] + v[i] + c[i - 1]) \div W
Carries(c, u, v, n) == c = [i \in 0 .. n |-> CarryAt(c, u, v, i)]

LEMMA CarriesExist ==
  ASSUME NEW n \in Nat, NEW u \in [1 .. n -> Int], NEW v \in [1 .. n -> Int]
  PROVE  \E c \in [0 .. n -> Int] : Carries(c, u, v, n)
<1> DEFINE g == [p \in (1 .. n) \X Int |-> (u[p[1]] + v[p[1]] + p[2]) \div W]
<1>1. \A i \in 1 .. n, x \in Int : g[<<i, x>>] = (u[i] + v[i] + x) \div W
  OBVIOUS
<1>2. g \in [(1 .. n) \X Int -> Int]
  <2>1. \A p \in (1 .. n) \X Int : u[p[1]] + v[p[1]] + p[2] \in Int
    OBVIOUS
  <2> QED BY <2>1, WordDivision
<1> HIDE DEF g
<1>3. PICK c : Runs(c, Int, 0, g, n)
  <2>1. 0 \in Int
    OBVIOUS
  <2> QED BY <1>2, <2>1, RecursionRuns, Zenon
<1>4. c \in [0 .. n -> Int] /\ c[0] = 0
  BY <1>3 DEF Runs
<1>5. \A i \in 1 .. n : c[i] = (u[i] + v[i] + c[i - 1]) \div W
  <2> SUFFICES ASSUME NEW i \in 1 .. n PROVE c[i] = (u[i] + v[i] + c[i - 1]) \div W
    OBVIOUS
  <2>1. c[i - 1] \in Int
    BY <1>4
  <2>2. c[i] = g[<<i, c[i - 1]>>]
    BY <1>3 DEF Runs
  <2> QED BY <1>1, <2>1, <2>2
<1>6. \A i \in 0 .. n : c[i] = CarryAt(c, u, v, i)
  BY <1>4, <1>5 DEF CarryAt
<1>7. Carries(c, u, v, n)
  BY <1>4, <1>6 DEF Carries
<1> QED BY <1>4, <1>7

(* A sum of words is exact at every place.                                 *)
Exact(r, c, u, v, n) ==
  /\ r.words \in [1 .. n -> 0 .. W - 1]
  /\ c \in [0 .. n -> Int] /\ c[0] = 0 /\ c[n] = r.carry
  /\ \A i \in 1 .. n : u[i] + v[i] + c[i - 1] = W * c[i] + r.words[i]

LEMMA CarriesAreInts ==
  ASSUME NEW n \in Nat, NEW u \in [1 .. n -> Int], NEW v \in [1 .. n -> Int], NEW c, Carries(c, u, v, n)
  PROVE  /\ c \in [0 .. n -> Int] /\ c[0] = 0
         /\ \A i \in 1 .. n : c[i] = (u[i] + v[i] + c[i - 1]) \div W
<1>0. \A i \in 0 .. n : c[i] = CarryAt(c, u, v, i)
  BY DEF Carries
<1>1. c[0] = 0 /\ \A i \in 1 .. n : c[i] = (u[i] + v[i] + c[i - 1]) \div W
  BY <1>0 DEF CarryAt
<1> DEFINE T == {m \in Nat : m <= n => c[m] \in Int}
<1>2. 0 \in T
  BY <1>1
<1>3. ASSUME NEW m \in Nat, m \in T PROVE m + 1 \in T
  <2> SUFFICES ASSUME m + 1 <= n PROVE c[m + 1] \in Int
    OBVIOUS
  <2>1. c[m] \in Int /\ m + 1 \in 1 .. n /\ (m + 1) - 1 = m
    BY <1>3
  <2>2. u[m + 1] + v[m + 1] + c[m] \in Int
    BY <2>1
  <2>3. c[m + 1] = (u[m + 1] + v[m + 1] + c[m]) \div W
    BY <1>1, <2>1
  <2> QED BY <2>2, <2>3, WordDivision
<1> HIDE DEF T
<1>4. Nat \subseteq T
  BY <1>2, <1>3, SetInduction
<1>5. \A i \in 0 .. n : c[i] \in Int
  BY <1>4 DEF T
<1>6. c = [i \in 0 .. n |-> c[i]]
  BY DEF Carries
<1> QED BY <1>1, <1>5, <1>6

LEMMA Add64IsExact ==
  ASSUME NEW n \in Nat, NEW u \in [1 .. n -> Int], NEW v \in [1 .. n -> Int]
  PROVE  \E c : Exact(Add64(u, v), c, u, v, n)
<1> DEFINE c == CHOOSE c : Carries(c, u, v, n)
           w == [i \in 1 .. n |-> (u[i] + v[i] + c[i - 1]) % W]
<1>1. Carries(c, u, v, n)
  BY CarriesExist
<1>2. Len(u) = n
  BY WordsAreSeq
<1>3. Add64(u, v) = [words |-> w, carry |-> c[n]]
  BY <1>2 DEF Add64, Carries, CarryAt
<1> HIDE DEF c
<1>4. c \in [0 .. n -> Int] /\ c[0] = 0 /\ \A i \in 1 .. n : c[i] = (u[i] + v[i] + c[i - 1]) \div W
  BY <1>1, CarriesAreInts
<1>5. \A i \in 1 .. n : w[i] = (u[i] + v[i] + c[i - 1]) % W
  OBVIOUS
<1>6. \A i \in 1 .. n : u[i] + v[i] + c[i - 1] \in Int
  BY <1>4
<1>7. \A i \in 1 .. n : w[i] \in 0 .. W - 1 /\ u[i] + v[i] + c[i - 1] = W * c[i] + w[i]
  BY <1>4, <1>5, <1>6, WordDivision
<1>8. w \in [1 .. n -> 0 .. W - 1]
  BY <1>7
<1> HIDE DEF w
<1>9. Exact([words |-> w, carry |-> c[n]], c, u, v, n)
  BY <1>4, <1>7, <1>8 DEF Exact
<1> QED BY <1>3, <1>9

BorrowAt(b, u, v, i) == IF i = 0 THEN 0 ELSE IF u[i] < v[i] + b[i - 1] THEN 1 ELSE 0
Borrows(b, u, v, n) == b = [i \in 0 .. n |-> BorrowAt(b, u, v, i)]

LEMMA BorrowsExist ==
  ASSUME NEW n \in Nat, NEW u \in [1 .. n -> Int], NEW v \in [1 .. n -> Int]
  PROVE  \E b : Borrows(b, u, v, n)
<1> DEFINE g == [p \in (1 .. n) \X {0, 1} |-> IF u[p[1]] < v[p[1]] + p[2] THEN 1 ELSE 0]
<1>1. \A i \in 1 .. n, x \in {0, 1} : g[<<i, x>>] = IF u[i] < v[i] + x THEN 1 ELSE 0
  OBVIOUS
<1>2. g \in [(1 .. n) \X {0, 1} -> {0, 1}]
  OBVIOUS
<1> HIDE DEF g
<1>3. PICK b : Runs(b, {0, 1}, 0, g, n)
  <2>1. 0 \in {0, 1}
    OBVIOUS
  <2> QED BY <1>2, <2>1, RecursionRuns, Zenon
<1>4. b \in [0 .. n -> {0, 1}] /\ b[0] = 0
  BY <1>3 DEF Runs
<1>5. \A i \in 1 .. n : b[i] = IF u[i] < v[i] + b[i - 1] THEN 1 ELSE 0
  <2> SUFFICES ASSUME NEW i \in 1 .. n PROVE b[i] = IF u[i] < v[i] + b[i - 1] THEN 1 ELSE 0
    OBVIOUS
  <2>1. b[i - 1] \in {0, 1}
    BY <1>4
  <2>2. b[i] = g[<<i, b[i - 1]>>]
    BY <1>3 DEF Runs
  <2> QED BY <1>1, <2>1, <2>2
<1>6. \A i \in 0 .. n : b[i] = BorrowAt(b, u, v, i)
  BY <1>4, <1>5 DEF BorrowAt
<1> QED BY <1>4, <1>6 DEF Borrows

(* So is a difference, if it takes words from words.                       *)
Taken(r, b, u, v, n) ==
  /\ r.words \in [1 .. n -> 0 .. W - 1]
  /\ b \in [0 .. n -> {0, 1}] /\ b[0] = 0 /\ b[n] = r.borrow
  /\ \A i \in 1 .. n : u[i] - v[i] - b[i - 1] = r.words[i] - W * b[i]

LEMMA WordDifference ==
  ASSUME NEW x \in 0 .. W - 1, NEW y \in 0 .. W - 1, NEW b \in {0, 1}
  PROVE  /\ (x - y - b) % W \in 0 .. W - 1
         /\ x - y - b = ((x - y - b) % W) - W * (IF x < y + b THEN 1 ELSE 0)
<1>1. W \in Nat /\ W > 0
  BY WordsAssumption
<1>2. x - y - b \in Int /\ -W <= x - y - b /\ x - y - b < W
  BY <1>1
<1> DEFINE d == x - y - b
<1>3. d \div W \in Int /\ d % W \in 0 .. W - 1 /\ d = W * (d \div W) + (d % W)
  BY <1>2, WordDivision
<1>4. d < 0 <=> x < y + b
  BY <1>1
<1> HIDE DEF d
<1>5. CASE d < 0
  <2>1. d \div W = -1
    <3> DEFINE q == d \div W  r == d % W
    <3>1. q \in Int /\ r \in 0 .. W - 1 /\ d = W * q + r
      BY <1>3
    <3> HIDE DEF q, r
    <3>2. ASSUME q >= 0 PROVE FALSE
      BY <1>1, <1>5, <3>1, <3>2
    <3>3. ASSUME q <= -2 PROVE FALSE
      <4>1. W * q <= W * (-2)
        BY <1>1, <3>1, <3>3
      <4> QED BY <1>1, <1>2, <3>1, <4>1 DEF d
    <3>4. q = -1
      BY <3>1, <3>2, <3>3
    <3> QED BY <3>4 DEF q
  <2> QED BY <1>1, <1>3, <1>4, <1>5, <2>1 DEF d
<1>6. CASE d >= 0
  <2>1. d % W = d
    BY <1>1, <1>2, <1>6 DEF d
  <2> QED BY <1>1, <1>3, <1>4, <1>6, <2>1 DEF d
<1> QED BY <1>2, <1>5, <1>6 DEF d

LEMMA Sub64IsExact ==
  ASSUME NEW n \in Nat, NEW u \in [1 .. n -> 0 .. W - 1], NEW v \in [1 .. n -> 0 .. W - 1]
  PROVE  \E b : Taken(Sub64(u, v), b, u, v, n)
<1> DEFINE b == CHOOSE b : Borrows(b, u, v, n)
           w == [i \in 1 .. n |-> (u[i] - v[i] - b[i - 1]) % W]
<1>0. u \in [1 .. n -> Int] /\ v \in [1 .. n -> Int]
  BY WordsAssumption
<1>1. Borrows(b, u, v, n)
  BY <1>0, BorrowsExist
<1>2. Len(u) = n
  BY WordsAreSeq
<1>3. Sub64(u, v) = [words |-> w, borrow |-> b[n]]
  BY <1>2 DEF Sub64, Borrows, BorrowAt
<1> HIDE DEF b
<1>4. \A i \in 0 .. n : b[i] = BorrowAt(b, u, v, i)
  BY <1>1 DEF Borrows
<1>5. b[0] = 0 /\ \A i \in 1 .. n : b[i] = IF u[i] < v[i] + b[i - 1] THEN 1 ELSE 0
  BY <1>4 DEF BorrowAt
<1>6. b \in [0 .. n -> {0, 1}]
  <2>1. \A i \in 0 .. n : b[i] \in {0, 1}
    BY <1>5
  <2>2. b = [i \in 0 .. n |-> b[i]]
    BY <1>1 DEF Borrows
  <2> QED BY <2>1, <2>2
<1>7. \A i \in 1 .. n : w[i] = (u[i] - v[i] - b[i - 1]) % W
  OBVIOUS
<1>8. \A i \in 1 .. n : w[i] \in 0 .. W - 1 /\ u[i] - v[i] - b[i - 1] = w[i] - W * b[i]
  <2> HIDE DEF w
  <2> SUFFICES ASSUME NEW i \in 1 .. n
               PROVE  w[i] \in 0 .. W - 1 /\ u[i] - v[i] - b[i - 1] = w[i] - W * b[i]
    OBVIOUS
  <2>1. u[i] \in 0 .. W - 1 /\ v[i] \in 0 .. W - 1 /\ b[i - 1] \in {0, 1}
    BY <1>6
  <2>2. /\ (u[i] - v[i] - b[i - 1]) % W \in 0 .. W - 1
        /\ u[i] - v[i] - b[i - 1]
             = ((u[i] - v[i] - b[i - 1]) % W) - W * (IF u[i] < v[i] + b[i - 1] THEN 1 ELSE 0)
    BY <2>1, WordDifference
  <2>3. b[i] = (IF u[i] < v[i] + b[i - 1] THEN 1 ELSE 0) /\ w[i] = (u[i] - v[i] - b[i - 1]) % W
    BY <1>5, <1>7
  <2> QED BY <2>2, <2>3
<1>9. w \in [1 .. n -> 0 .. W - 1]
  BY <1>8
<1> HIDE DEF w
<1>10. Taken([words |-> w, borrow |-> b[n]], b, u, v, n)
  BY <1>5, <1>6, <1>8, <1>9 DEF Taken
<1> QED BY <1>3, <1>10

Number5(ws) == ws[1] + W * (ws[2] + W * (ws[3] + W * (ws[4] + W * ws[5])))

LEMMA Digits ==
  ASSUME NEW x1 \in Int, NEW x2 \in Int, NEW x3 \in Int, NEW x4 \in Int, NEW x5 \in Int,
         NEW c1 \in Int, NEW c2 \in Int, NEW c3 \in Int, NEW c4 \in Int, NEW c5 \in Int,
         NEW w1 \in Int, NEW w2 \in Int, NEW w3 \in Int, NEW w4 \in Int, NEW w5 \in Int,
         x1 = W * c1 + w1, x2 + c1 = W * c2 + w2, x3 + c2 = W * c3 + w3,
         x4 + c3 = W * c4 + w4, x5 + c4 = W * c5 + w5
  PROVE  w1 + W * (w2 + W * (w3 + W * (w4 + W * w5))) + W * W * W * W * W * c5
           = x1 + W * (x2 + W * (x3 + W * (x4 + W * x5)))
<1>1. W \in Int
  BY WordsAssumption
<1>2. W * c1 \in Int /\ W * c2 \in Int /\ W * c3 \in Int /\ W * c4 \in Int /\ W * c5 \in Int
  BY <1>1
<1>3. /\ x2 = W * c2 + w2 - c1 /\ x3 = W * c3 + w3 - c2
      /\ x4 = W * c4 + w4 - c3 /\ x5 = W * c5 + w5 - c4
  <2> DEFINE p2 == W * c2  p3 == W * c3  p4 == W * c4  p5 == W * c5
  <2>1. /\ x2 + c1 = p2 + w2 /\ x3 + c2 = p3 + w3 /\ x4 + c3 = p4 + w4 /\ x5 + c4 = p5 + w5
        /\ p2 \in Int /\ p3 \in Int /\ p4 \in Int /\ p5 \in Int
    BY <1>2
  <2> HIDE DEF p2, p3, p4, p5
  <2>2. x2 = p2 + w2 - c1 /\ x3 = p3 + w3 - c2 /\ x4 = p4 + w4 - c3 /\ x5 = p5 + w5 - c4
    BY <2>1
  <2> QED BY <2>2 DEF p2, p3, p4, p5
<1>4. x1 + W * (x2 + W * (x3 + W * (x4 + W * x5)))
        = (W * c1 + w1) + W * ((W * c2 + w2 - c1) + W * ((W * c3 + w3 - c2)
            + W * ((W * c4 + w4 - c3) + W * (W * c5 + w5 - c4))))
  BY <1>3
<1>5. (W * c1 + w1) + W * ((W * c2 + w2 - c1) + W * ((W * c3 + w3 - c2)
            + W * ((W * c4 + w4 - c3) + W * (W * c5 + w5 - c4))))
        = w1 + W * (w2 + W * (w3 + W * (w4 + W * w5))) + W * W * W * W * W * c5
  BY <1>1
<1> QED BY <1>4, <1>5

LEMMA Number5Adds ==
  ASSUME NEW u \in [1 .. 5 -> Int], NEW v \in [1 .. 5 -> Int]
  PROVE  /\ Add64(u, v).words \in [1 .. 5 -> 0 .. W - 1] /\ Add64(u, v).carry \in Int
         /\ Number5(Add64(u, v).words) + W * W * W * W * W * Add64(u, v).carry
              = Number5(u) + Number5(v)
<1> DEFINE r == Add64(u, v)  w == r.words
<1>1. PICK c : Exact(r, c, u, v, 5)
  BY Add64IsExact
<1>2. w \in [1 .. 5 -> 0 .. W - 1] /\ c \in [0 .. 5 -> Int] /\ c[0] = 0 /\ c[5] = r.carry
  BY <1>1 DEF Exact
<1>3. \A i \in 1 .. 5 : u[i] + v[i] + c[i - 1] = W * c[i] + w[i]
  BY <1>1 DEF Exact
<1> HIDE DEF r, w
<1>4. /\ w[1] \in Int /\ w[2] \in Int /\ w[3] \in Int /\ w[4] \in Int /\ w[5] \in Int
      /\ c[1] \in Int /\ c[2] \in Int /\ c[3] \in Int /\ c[4] \in Int /\ c[5] \in Int
      /\ u[1] + v[1] \in Int /\ u[2] + v[2] \in Int /\ u[3] + v[3] \in Int
      /\ u[4] + v[4] \in Int /\ u[5] + v[5] \in Int
  BY <1>2, WordsAssumption
<1>5. /\ u[1] + v[1] = W * c[1] + w[1]
      /\ (u[2] + v[2]) + c[1] = W * c[2] + w[2]
      /\ (u[3] + v[3]) + c[2] = W * c[3] + w[3]
      /\ (u[4] + v[4]) + c[3] = W * c[4] + w[4]
      /\ (u[5] + v[5]) + c[4] = W * c[5] + w[5]
  <2>1. u[1] + v[1] + c[0] = W * c[1] + w[1]
    BY <1>3
  <2> QED BY <1>2, <1>3, <1>4, <2>1
<1>6. Number5(w) + W * W * W * W * W * c[5]
        = (u[1] + v[1]) + W * ((u[2] + v[2]) + W * ((u[3] + v[3]) + W * ((u[4] + v[4]) + W * (u[5] + v[5]))))
  BY <1>4, <1>5, Digits DEF Number5
<1>7. (u[1] + v[1]) + W * ((u[2] + v[2]) + W * ((u[3] + v[3]) + W * ((u[4] + v[4]) + W * (u[5] + v[5]))))
        = Number5(u) + Number5(v)
  <2>1. \A i \in 1 .. 5 : u[i] \in Int /\ v[i] \in Int
    OBVIOUS
  <2> DEFINE u1 == u[1]  u2 == u[2]  u3 == u[3]  u4 == u[4]  u5 == u[5]
             v1 == v[1]  v2 == v[2]  v3 == v[3]  v4 == v[4]  v5 == v[5]
  <2>2. /\ u1 \in Int /\ u2 \in Int /\ u3 \in Int /\ u4 \in Int /\ u5 \in Int
        /\ v1 \in Int /\ v2 \in Int /\ v3 \in Int /\ v4 \in Int /\ v5 \in Int /\ W \in Int
    BY <2>1, WordsAssumption
  <2> HIDE DEF u1, u2, u3, u4, u5, v1, v2, v3, v4, v5
  <2>3. (u1 + v1) + W * ((u2 + v2) + W * ((u3 + v3) + W * ((u4 + v4) + W * (u5 + v5))))
          = (u1 + W * (u2 + W * (u3 + W * (u4 + W * u5)))) + (v1 + W * (v2 + W * (v3 + W * (v4 + W * v5))))
    BY <2>2
  <2> QED BY <2>3 DEF Number5, u1, u2, u3, u4, u5, v1, v2, v3, v4, v5
<1>8. c[5] \in Int /\ c[5] = r.carry
  BY <1>2
<1> QED BY <1>2, <1>6, <1>7, <1>8 DEF r, w

LEMMA NumberAdds ==
  ASSUME NEW u \in [1 .. 4 -> Int], NEW v \in [1 .. 4 -> Int]
  PROVE  /\ Add64(u, v).words \in [1 .. 4 -> 0 .. W - 1] /\ Add64(u, v).carry \in Int
         /\ NumberOf(Add64(u, v).words) + Radix * Add64(u, v).carry = NumberOf(u) + NumberOf(v)
<1> DEFINE r == Add64(u, v)  w == r.words
<1>1. PICK c : Exact(r, c, u, v, 4)
  BY Add64IsExact
<1>2. w \in [1 .. 4 -> 0 .. W - 1] /\ c \in [0 .. 4 -> Int] /\ c[0] = 0 /\ c[4] = r.carry
  BY <1>1 DEF Exact
<1>3. \A i \in 1 .. 4 : u[i] + v[i] + c[i - 1] = W * c[i] + w[i]
  BY <1>1 DEF Exact
<1> HIDE DEF r, w
<1>4. /\ w[1] \in Int /\ w[2] \in Int /\ w[3] \in Int /\ w[4] \in Int
      /\ c[1] \in Int /\ c[2] \in Int /\ c[3] \in Int /\ c[4] \in Int
      /\ u[1] + v[1] \in Int /\ u[2] + v[2] \in Int /\ u[3] + v[3] \in Int /\ u[4] + v[4] \in Int
  BY <1>2, WordsAssumption
<1>5. /\ u[1] + v[1] = W * c[1] + w[1]
      /\ (u[2] + v[2]) + c[1] = W * c[2] + w[2]
      /\ (u[3] + v[3]) + c[2] = W * c[3] + w[3]
      /\ (u[4] + v[4]) + c[3] = W * c[4] + w[4]
  <2>1. u[1] + v[1] + c[0] = W * c[1] + w[1]
    BY <1>3
  <2> QED BY <1>2, <1>3, <1>4, <2>1
<1>6. 0 + c[4] = W * 0 + c[4]
  BY <1>4, WordsAssumption
<1>7. w[1] + W * (w[2] + W * (w[3] + W * (w[4] + W * c[4]))) + W * W * W * W * W * 0
        = (u[1] + v[1]) + W * ((u[2] + v[2]) + W * ((u[3] + v[3]) + W * ((u[4] + v[4]) + W * 0)))
  BY <1>4, <1>5, <1>6, Digits
<1> DEFINE u1 == u[1]  u2 == u[2]  u3 == u[3]  u4 == u[4]
           v1 == v[1]  v2 == v[2]  v3 == v[3]  v4 == v[4]
           w1 == w[1]  w2 == w[2]  w3 == w[3]  w4 == w[4]  d == c[4]
<1>8. /\ u1 \in Int /\ u2 \in Int /\ u3 \in Int /\ u4 \in Int
      /\ v1 \in Int /\ v2 \in Int /\ v3 \in Int /\ v4 \in Int
      /\ w1 \in Int /\ w2 \in Int /\ w3 \in Int /\ w4 \in Int /\ W \in Int /\ d \in Int
  BY <1>4, WordsAssumption
<1> HIDE DEF u1, u2, u3, u4, v1, v2, v3, v4, w1, w2, w3, w4, d
<1>9. (u1 + v1) + W * ((u2 + v2) + W * ((u3 + v3) + W * ((u4 + v4) + W * 0)))
        = (u1 + W * (u2 + W * (u3 + W * u4))) + (v1 + W * (v2 + W * (v3 + W * v4)))
  BY <1>8
<1>10. w1 + W * (w2 + W * (w3 + W * (w4 + W * d))) + W * W * W * W * W * 0
         = (w1 + W * (w2 + W * (w3 + W * w4))) + W * W * W * W * d
  BY <1>8
<1>11. (w1 + W * (w2 + W * (w3 + W * w4))) + W * W * W * W * d
         = (u1 + W * (u2 + W * (u3 + W * u4))) + (v1 + W * (v2 + W * (v3 + W * v4)))
  <2>1. w1 + W * (w2 + W * (w3 + W * (w4 + W * d))) + W * W * W * W * W * 0
          = (u1 + v1) + W * ((u2 + v2) + W * ((u3 + v3) + W * ((u4 + v4) + W * 0)))
    BY <1>7 DEF u1, u2, u3, u4, v1, v2, v3, v4, w1, w2, w3, w4, d
  <2> QED BY <1>9, <1>10, <2>1
<1>12. NumberOf(w) + Radix * d = NumberOf(u) + NumberOf(v)
  BY <1>11 DEF NumberOf, Radix, u1, u2, u3, u4, v1, v2, v3, v4, w1, w2, w3, w4
<1> QED BY <1>2, <1>8, <1>12 DEF r, w, d

LEMMA NumberSubtracts ==
  ASSUME NEW u \in [1 .. 4 -> 0 .. W - 1], NEW v \in [1 .. 4 -> 0 .. W - 1]
  PROVE  /\ Sub64(u, v).words \in [1 .. 4 -> 0 .. W - 1] /\ Sub64(u, v).borrow \in {0, 1}
         /\ NumberOf(Sub64(u, v).words) - Radix * Sub64(u, v).borrow = NumberOf(u) - NumberOf(v)
<1> DEFINE r == Sub64(u, v)  w == r.words
<1>1. PICK b : Taken(r, b, u, v, 4)
  BY Sub64IsExact
<1>2. w \in [1 .. 4 -> 0 .. W - 1] /\ b \in [0 .. 4 -> {0, 1}] /\ b[0] = 0 /\ b[4] = r.borrow
  BY <1>1 DEF Taken
<1>3. \A i \in 1 .. 4 : u[i] - v[i] - b[i - 1] = w[i] - W * b[i]
  BY <1>1 DEF Taken
<1> HIDE DEF r, w
<1> DEFINE u1 == u[1]  u2 == u[2]  u3 == u[3]  u4 == u[4]
           v1 == v[1]  v2 == v[2]  v3 == v[3]  v4 == v[4]
           w1 == w[1]  w2 == w[2]  w3 == w[3]  w4 == w[4]
           b1 == b[1]  b2 == b[2]  b3 == b[3]  b4 == b[4]
<1>4. /\ u1 \in Int /\ u2 \in Int /\ u3 \in Int /\ u4 \in Int
      /\ v1 \in Int /\ v2 \in Int /\ v3 \in Int /\ v4 \in Int
      /\ w1 \in Int /\ w2 \in Int /\ w3 \in Int /\ w4 \in Int
      /\ b1 \in Int /\ b2 \in Int /\ b3 \in Int /\ b4 \in Int
      /\ W \in Int /\ W * b1 \in Int /\ W * b2 \in Int /\ W * b3 \in Int /\ W * b4 \in Int
  BY <1>2, WordsAssumption
<1>5. /\ u1 - v1 = w1 - W * b1
      /\ u2 - v2 - b1 = w2 - W * b2
      /\ u3 - v3 - b2 = w3 - W * b3
      /\ u4 - v4 - b3 = w4 - W * b4
  <2>1. u[1] - v[1] - b[0] = w[1] - W * b[1]
    BY <1>3
  <2>2. u1 - v1 - 0 = w1 - W * b1
    BY <1>2, <2>1
  <2>3. u1 - v1 - 0 = u1 - v1
    BY <1>4
  <2> QED BY <1>3, <2>2, <2>3
<1> HIDE DEF u1, u2, u3, u4, v1, v2, v3, v4, w1, w2, w3, w4, b1, b2, b3, b4
<1>6. /\ w1 = u1 - v1 + W * b1 /\ w2 = u2 - v2 - b1 + W * b2
      /\ w3 = u3 - v3 - b2 + W * b3 /\ w4 = u4 - v4 - b3 + W * b4
  <2> DEFINE p1 == W * b1  p2 == W * b2  p3 == W * b3  p4 == W * b4
  <2>1. /\ p1 \in Int /\ p2 \in Int /\ p3 \in Int /\ p4 \in Int
        /\ u1 - v1 = w1 - p1 /\ u2 - v2 - b1 = w2 - p2 /\ u3 - v3 - b2 = w3 - p3
        /\ u4 - v4 - b3 = w4 - p4
    BY <1>4, <1>5
  <2> HIDE DEF p1, p2, p3, p4
  <2>2. /\ w1 = u1 - v1 + p1 /\ w2 = u2 - v2 - b1 + p2
        /\ w3 = u3 - v3 - b2 + p3 /\ w4 = u4 - v4 - b3 + p4
    BY <1>4, <2>1
  <2> QED BY <2>2 DEF p1, p2, p3, p4
<1>7. (w1 + W * (w2 + W * (w3 + W * w4))) - W * W * W * W * b4
        = (u1 + W * (u2 + W * (u3 + W * u4))) - (v1 + W * (v2 + W * (v3 + W * v4)))
  <2>1. (w1 + W * (w2 + W * (w3 + W * w4)))
          = (u1 - v1 + W * b1) + W * ((u2 - v2 - b1 + W * b2)
              + W * ((u3 - v3 - b2 + W * b3) + W * (u4 - v4 - b3 + W * b4)))
    BY <1>6
  <2>2. ((u1 - v1 + W * b1) + W * ((u2 - v2 - b1 + W * b2)
          + W * ((u3 - v3 - b2 + W * b3) + W * (u4 - v4 - b3 + W * b4)))) - W * W * W * W * b4
          = (u1 + W * (u2 + W * (u3 + W * u4))) - (v1 + W * (v2 + W * (v3 + W * v4)))
    BY <1>4
  <2> QED BY <2>1, <2>2
<1>8. NumberOf(w) - Radix * b4 = NumberOf(u) - NumberOf(v)
  BY <1>7 DEF NumberOf, Radix, u1, u2, u3, u4, v1, v2, v3, v4, w1, w2, w3, w4
<1>9. b4 \in {0, 1} /\ b4 = r.borrow
  BY <1>2 DEF b4
<1> QED BY <1>2, <1>8, <1>9 DEF r, w

LEMMA Number5Subtracts ==
  ASSUME NEW u \in [1 .. 5 -> 0 .. W - 1], NEW v \in [1 .. 5 -> 0 .. W - 1]
  PROVE  /\ Sub64(u, v).words \in [1 .. 5 -> 0 .. W - 1] /\ Sub64(u, v).borrow \in {0, 1}
         /\ Number5(Sub64(u, v).words) - W * W * W * W * W * Sub64(u, v).borrow = Number5(u) - Number5(v)
<1> DEFINE r == Sub64(u, v)  w == r.words
<1>1. PICK b : Taken(r, b, u, v, 5)
  BY Sub64IsExact
<1>2. w \in [1 .. 5 -> 0 .. W - 1] /\ b \in [0 .. 5 -> {0, 1}] /\ b[0] = 0 /\ b[5] = r.borrow
  BY <1>1 DEF Taken
<1>3. \A i \in 1 .. 5 : u[i] - v[i] - b[i - 1] = w[i] - W * b[i]
  BY <1>1 DEF Taken
<1> HIDE DEF r, w
<1> DEFINE u1 == u[1]  u2 == u[2]  u3 == u[3]  u4 == u[4]  u5 == u[5]
           v1 == v[1]  v2 == v[2]  v3 == v[3]  v4 == v[4]  v5 == v[5]
           w1 == w[1]  w2 == w[2]  w3 == w[3]  w4 == w[4]  w5 == w[5]
           b1 == b[1]  b2 == b[2]  b3 == b[3]  b4 == b[4]  b5 == b[5]
<1>4. /\ u1 \in Int /\ u2 \in Int /\ u3 \in Int /\ u4 \in Int /\ u5 \in Int
      /\ v1 \in Int /\ v2 \in Int /\ v3 \in Int /\ v4 \in Int /\ v5 \in Int
      /\ w1 \in Int /\ w2 \in Int /\ w3 \in Int /\ w4 \in Int /\ w5 \in Int
      /\ b1 \in Int /\ b2 \in Int /\ b3 \in Int /\ b4 \in Int /\ b5 \in Int
      /\ W \in Int /\ W * b1 \in Int /\ W * b2 \in Int /\ W * b3 \in Int /\ W * b4 \in Int /\ W * b5 \in Int /\ b5 \in Int
  BY <1>2, WordsAssumption
<1>5. /\ u1 - v1 = w1 - W * b1
      /\ u2 - v2 - b1 = w2 - W * b2
      /\ u3 - v3 - b2 = w3 - W * b3
      /\ u4 - v4 - b3 = w4 - W * b4
      /\ u5 - v5 - b4 = w5 - W * b5
  <2>1. u[1] - v[1] - b[0] = w[1] - W * b[1]
    BY <1>3
  <2>2. u1 - v1 - 0 = w1 - W * b1
    BY <1>2, <2>1
  <2>3. u1 - v1 - 0 = u1 - v1
    BY <1>4
  <2> QED BY <1>3, <2>2, <2>3
<1> HIDE DEF u1, u2, u3, u4, u5, v1, v2, v3, v4, v5, w1, w2, w3, w4, w5, b1, b2, b3, b4, b5
<1>6. /\ w1 = u1 - v1 + W * b1 /\ w2 = u2 - v2 - b1 + W * b2
      /\ w3 = u3 - v3 - b2 + W * b3 /\ w4 = u4 - v4 - b3 + W * b4
      /\ w5 = u5 - v5 - b4 + W * b5
  <2> DEFINE p1 == W * b1  p2 == W * b2  p3 == W * b3  p4 == W * b4  p5 == W * b5
  <2>1. /\ p1 \in Int /\ p2 \in Int /\ p3 \in Int /\ p4 \in Int /\ p5 \in Int
        /\ u1 - v1 = w1 - p1 /\ u2 - v2 - b1 = w2 - p2 /\ u3 - v3 - b2 = w3 - p3
        /\ u4 - v4 - b3 = w4 - p4 /\ u5 - v5 - b4 = w5 - p5
    BY <1>4, <1>5
  <2> HIDE DEF p1, p2, p3, p4, p5
  <2>2. /\ w1 = u1 - v1 + p1 /\ w2 = u2 - v2 - b1 + p2
        /\ w3 = u3 - v3 - b2 + p3 /\ w4 = u4 - v4 - b3 + p4
        /\ w5 = u5 - v5 - b4 + p5
    BY <1>4, <2>1
  <2> QED BY <2>2 DEF p1, p2, p3, p4, p5
<1>7. (w1 + W * (w2 + W * (w3 + W * (w4 + W * w5)))) - W * W * W * W * W * b5
        = (u1 + W * (u2 + W * (u3 + W * (u4 + W * u5)))) - (v1 + W * (v2 + W * (v3 + W * (v4 + W * v5))))
  <2>1. (w1 + W * (w2 + W * (w3 + W * (w4 + W * w5))))
          = (u1 - v1 + W * b1) + W * ((u2 - v2 - b1 + W * b2)
              + W * ((u3 - v3 - b2 + W * b3) + W * ((u4 - v4 - b3 + W * b4) + W * (u5 - v5 - b4 + W * b5))))
    BY <1>6
  <2>2. ((u1 - v1 + W * b1) + W * ((u2 - v2 - b1 + W * b2)
          + W * ((u3 - v3 - b2 + W * b3) + W * ((u4 - v4 - b3 + W * b4) + W * (u5 - v5 - b4 + W * b5))))) - W * W * W * W * W * b5
          = (u1 + W * (u2 + W * (u3 + W * (u4 + W * u5)))) - (v1 + W * (v2 + W * (v3 + W * (v4 + W * v5))))
    BY <1>4
  <2> QED BY <2>1, <2>2
<1>8. Number5(w) - W * W * W * W * W * b5 = Number5(u) - Number5(v)
  BY <1>7 DEF Number5, u1, u2, u3, u4, u5, v1, v2, v3, v4, v5, w1, w2, w3, w4, w5
<1>9. b5 \in {0, 1} /\ b5 = r.borrow
  BY <1>2 DEF b5
<1> QED BY <1>2, <1>8, <1>9 DEF r, w

LEMMA NumberBounds ==
  ASSUME NEW ws \in [1 .. 4 -> 0 .. W - 1]
  PROVE  NumberOf(ws) \in 0 .. Radix - 1
<1>1. /\ ws[1] \in 0 .. W - 1 /\ ws[2] \in 0 .. W - 1 /\ ws[3] \in 0 .. W - 1 /\ ws[4] \in 0 .. W - 1
      /\ W \in Nat /\ W >= 1
  BY WordsAssumption
<1> DEFINE y3 == ws[3] + W * ws[4]  y2 == ws[2] + W * y3  y1 == ws[1] + W * y2
<1>2. y3 \in 0 .. W * W - 1
  <2>1. W * ws[4] <= W * (W - 1) /\ W * ws[4] \in Nat
    BY <1>1
  <2> QED BY <1>1, <2>1
<1>3. y2 \in 0 .. W * W * W - 1
  <2> HIDE DEF y3
  <2>1. W * y3 <= W * (W * W - 1) /\ W * y3 \in Nat
    BY <1>1, <1>2
  <2> QED BY <1>1, <2>1
<1>4. y1 \in 0 .. W * W * W * W - 1
  <2> HIDE DEF y2
  <2>1. W * y2 <= W * (W * W * W - 1) /\ W * y2 \in Nat
    BY <1>1, <1>3
  <2> QED BY <1>1, <2>1
<1> QED BY <1>4 DEF NumberOf, Radix

----------------------------------------------------------------------------

LEMMA ProductWords ==
  ASSUME NEW x \in Int, NEW y \in Int
  PROVE  /\ Low(x, y) \in 0 .. W - 1 /\ High(x, y) \in Int
         /\ x * y = W * High(x, y) + Low(x, y)
<1>1. x * y \in Int
  OBVIOUS
<1> QED BY <1>1, WordDivision DEF Low, High

LEMMA RowIsProduct ==
  ASSUME NEW x \in Int, NEW v \in [1 .. 4 -> Int]
  PROVE  Row(x, v) \in [1 .. 5 -> Int] /\ Number5(Row(x, v)) = x * NumberOf(v)
<1> DEFINE h == [i \in 1 .. 3 |-> High(x, v[i])]
           l == [i \in 1 .. 3 |-> Low(x, v[i + 1])]
           r == Add64(h, l)
           w == r.words
<1>1. \A i \in 1 .. 4 : /\ Low(x, v[i]) \in Int /\ High(x, v[i]) \in Int
                        /\ x * v[i] = W * High(x, v[i]) + Low(x, v[i])
  <2> SUFFICES ASSUME NEW i \in 1 .. 4
               PROVE  /\ Low(x, v[i]) \in Int /\ High(x, v[i]) \in Int
                      /\ x * v[i] = W * High(x, v[i]) + Low(x, v[i])
    OBVIOUS
  <2>1. v[i] \in Int
    OBVIOUS
  <2> DEFINE y == v[i]
  <2>2. Low(x, y) \in 0 .. W - 1 /\ High(x, y) \in Int /\ x * y = W * High(x, y) + Low(x, y)
    <3> HIDE DEF y
    <3>1. y \in Int
      BY <2>1 DEF y
    <3> QED BY <3>1, ProductWords
  <2> QED BY <2>2, WordsAssumption
<1>2. h \in [1 .. 3 -> Int] /\ l \in [1 .. 3 -> Int]
  BY <1>1
<1>3. /\ h[1] = High(x, v[1]) /\ h[2] = High(x, v[2]) /\ h[3] = High(x, v[3])
      /\ l[1] = Low(x, v[2]) /\ l[2] = Low(x, v[3]) /\ l[3] = Low(x, v[4])
  OBVIOUS
<1>4. Row(x, v) = <<Low(x, v[1]), w[1], w[2], w[3], r.carry + High(x, v[4])>>
  BY DEF Row
<1> HIDE DEF h, l, r, w
<1>5. PICK c : Exact(r, c, h, l, 3)
  BY <1>2, Add64IsExact DEF r
<1>6. w \in [1 .. 3 -> 0 .. W - 1] /\ c \in [0 .. 3 -> Int] /\ c[0] = 0 /\ c[3] = r.carry
  BY <1>5 DEF Exact, w
<1>7. \A i \in 1 .. 3 : h[i] + l[i] + c[i - 1] = W * c[i] + w[i]
  BY <1>5 DEF Exact, w
<1> DEFINE h1 == High(x, v[1])  h2 == High(x, v[2])  h3 == High(x, v[3])  h4 == High(x, v[4])
           l1 == Low(x, v[1])  l2 == Low(x, v[2])  l3 == Low(x, v[3])  l4 == Low(x, v[4])
           v1 == v[1]  v2 == v[2]  v3 == v[3]  v4 == v[4]
           w1 == w[1]  w2 == w[2]  w3 == w[3]  c1 == c[1]  c2 == c[2]  c3 == c[3]
<1>8. /\ h1 \in Int /\ h2 \in Int /\ h3 \in Int /\ h4 \in Int
      /\ l1 \in Int /\ l2 \in Int /\ l3 \in Int /\ l4 \in Int
      /\ v1 \in Int /\ v2 \in Int /\ v3 \in Int /\ v4 \in Int
      /\ w1 \in Int /\ w2 \in Int /\ w3 \in Int /\ c1 \in Int /\ c2 \in Int /\ c3 \in Int
      /\ W \in Int /\ W * c1 \in Int /\ W * c2 \in Int /\ W * c3 \in Int
  BY <1>1, <1>6, WordsAssumption
<1>9. /\ x * v1 = W * h1 + l1 /\ x * v2 = W * h2 + l2 /\ x * v3 = W * h3 + l3 /\ x * v4 = W * h4 + l4
  BY <1>1
<1>10. /\ h1 + l2 = W * c1 + w1 /\ h2 + l3 + c1 = W * c2 + w2 /\ h3 + l4 + c2 = W * c3 + w3
  <2>1. h[1] + l[1] + c[0] = W * c[1] + w[1] /\ h[2] + l[2] + c[1] = W * c[2] + w[2] /\ h[3] + l[3] + c[2] = W * c[3] + w[3]
    BY <1>7
  <2>2. h1 + l2 + 0 = W * c1 + w1 /\ h1 + l2 + 0 = h1 + l2
    BY <1>3, <1>6, <1>8, <2>1
  <2> QED BY <1>3, <2>1, <2>2
<1>11. r.carry = c3
  BY <1>6
<1>12. Row(x, v) = <<l1, w1, w2, w3, c3 + h4>>
  BY <1>4, <1>11
<1> HIDE DEF h1, h2, h3, h4, l1, l2, l3, l4, v1, v2, v3, v4, w1, w2, w3, c1, c2, c3
<1>13. w1 = h1 + l2 - W * c1 /\ w2 = h2 + l3 + c1 - W * c2 /\ w3 = h3 + l4 + c2 - W * c3
  <2> DEFINE p1 == W * c1  p2 == W * c2  p3 == W * c3
  <2>1. /\ p1 \in Int /\ p2 \in Int /\ p3 \in Int
        /\ h1 + l2 = p1 + w1 /\ h2 + l3 + c1 = p2 + w2 /\ h3 + l4 + c2 = p3 + w3
    BY <1>8, <1>10
  <2> HIDE DEF p1, p2, p3
  <2>2. w1 = h1 + l2 - p1 /\ w2 = h2 + l3 + c1 - p2 /\ w3 = h3 + l4 + c2 - p3
    BY <1>8, <2>1
  <2> QED BY <2>2 DEF p1, p2, p3
<1>14. Row(x, v) \in [1 .. 5 -> Int]
  BY <1>8, <1>12
<1>15. Number5(Row(x, v)) = l1 + W * (w1 + W * (w2 + W * (w3 + W * (c3 + h4))))
  BY <1>12 DEF Number5
<1>16. l1 + W * (w1 + W * (w2 + W * (w3 + W * (c3 + h4))))
         = (W * h1 + l1) + W * ((W * h2 + l2) + W * ((W * h3 + l3) + W * (W * h4 + l4)))
  <2>1. l1 + W * ((h1 + l2 - W * c1) + W * ((h2 + l3 + c1 - W * c2) + W * ((h3 + l4 + c2 - W * c3) + W * (c3 + h4))))
          = (W * h1 + l1) + W * ((W * h2 + l2) + W * ((W * h3 + l3) + W * (W * h4 + l4)))
    BY <1>8
  <2> QED BY <1>13, <2>1
<1>17. x * (v1 + W * (v2 + W * (v3 + W * v4))) = x * v1 + W * (x * v2 + W * (x * v3 + W * (x * v4)))
  BY <1>8
<1>18. NumberOf(v) = v1 + W * (v2 + W * (v3 + W * v4))
  BY DEF NumberOf, v1, v2, v3, v4
<1> QED BY <1>9, <1>14, <1>15, <1>16, <1>17, <1>18

LEMMA ModulusIsNatural ==
  /\ W \in Nat /\ W >= 2 /\ M0 \in 0 .. W - 1 /\ M1 \in 0 .. W - 1 /\ M3 \in 0 .. W - 1
  /\ MInverse \in 0 .. W - 1
BY WordsAssumption

LEMMA ModulusRowIsProduct ==
  ASSUME NEW k \in Int
  PROVE  /\ ModulusRow(k) \in [1 .. 5 -> Int]
         /\ Number5(ModulusRow(k)) = k * ModulusValue
         /\ ModulusRow(k)[1] = Low(k, M0)
<1> DEFINE f == <<High(k, M0)>>  g == <<Low(k, M1)>>  r == Add64(f, g)
           h0 == High(k, M0)  h1 == High(k, M1)  h3 == High(k, M3)
           l0 == Low(k, M0)  l1 == Low(k, M1)  l3 == Low(k, M3)  w == r.words[1]  c1 == r.carry
<1>0. M0 \in Int /\ M1 \in Int /\ M3 \in Int /\ W \in Int
  BY ModulusIsNatural
<1>1. /\ h0 \in Int /\ l0 \in 0 .. W - 1 /\ k * M0 = W * h0 + l0
      /\ h1 \in Int /\ l1 \in 0 .. W - 1 /\ k * M1 = W * h1 + l1
      /\ h3 \in Int /\ l3 \in 0 .. W - 1 /\ k * M3 = W * h3 + l3
  BY <1>0, ProductWords
<1>2. ModulusRow(k) = <<l0, w, c1 + h1, l3, h3>>
  BY DEF ModulusRow
<1> HIDE DEF h0, h1, h3, l0, l1, l3
<1>3. f \in [1 .. 1 -> Int] /\ g \in [1 .. 1 -> Int] /\ f[1] = h0 /\ g[1] = l1
  BY <1>0, <1>1 DEF h0, l1
<1> HIDE DEF f, g
<1>4. PICK c : Exact(r, c, f, g, 1)
  BY <1>3, Add64IsExact
<1>5. /\ w \in 0 .. W - 1 /\ c[0] = 0 /\ c[1] = c1 /\ c1 \in Int
      /\ f[1] + g[1] + c[0] = W * c[1] + w
  BY <1>4 DEF Exact
<1> HIDE DEF r, w, c1
<1>6. h0 + l1 = W * c1 + w
  <2>1. h0 + l1 + 0 = W * c1 + w /\ h0 + l1 + 0 = h0 + l1
    BY <1>0, <1>1, <1>3, <1>5
  <2> QED BY <2>1
<1>7. /\ h0 \in Int /\ h1 \in Int /\ h3 \in Int /\ l0 \in Int /\ l1 \in Int /\ l3 \in Int
      /\ w \in Int /\ c1 \in Int /\ W * c1 \in Int
  BY <1>0, <1>1, <1>5
<1>8. w = h0 + l1 - W * c1
  <2> DEFINE p == W * c1
  <2>1. p \in Int /\ h0 + l1 = p + w
    BY <1>6, <1>7
  <2> HIDE DEF p
  <2>2. w = h0 + l1 - p
    BY <1>7, <2>1
  <2> QED BY <2>2 DEF p
<1>9. ModulusRow(k) \in [1 .. 5 -> Int]
  BY <1>2, <1>7
<1>10. Number5(ModulusRow(k)) = l0 + W * (w + W * ((c1 + h1) + W * (l3 + W * h3)))
  BY <1>2 DEF Number5
<1>11. l0 + W * (w + W * ((c1 + h1) + W * (l3 + W * h3)))
         = (W * h0 + l0) + W * ((W * h1 + l1) + W * (W * (W * h3 + l3)))
  <2>1. l0 + W * ((h0 + l1 - W * c1) + W * ((c1 + h1) + W * (l3 + W * h3)))
          = (W * h0 + l0) + W * ((W * h1 + l1) + W * (W * (W * h3 + l3)))
    BY <1>0, <1>7
  <2> QED BY <1>8, <2>1
<1>12. k * ModulusValue = k * M0 + W * (k * M1 + W * (W * (k * M3)))
  BY <1>0 DEF ModulusValue
<1>13. ModulusRow(k)[1] = Low(k, M0)
  BY <1>2 DEF l0
<1> QED BY <1>1, <1>9, <1>10, <1>11, <1>12, <1>13

(* The multiple of the modulus that is added ends in the low word that     *)
(* makes a 0 of s.                                                         *)
LEMMA LowWordVanishes ==
  ASSUME NEW s \in 0 .. W - 1, NEW c \in Int, NEW w \in 0 .. W - 1,
         s + Low(Low(s, MInverse), M0) = W * c + w
  PROVE  w = 0
<1> DEFINE k == Low(s, MInverse)  e == (M0 * MInverse + 1) \div W
<1>0. s \in Int /\ MInverse \in Int /\ M0 \in Int /\ W \in Int /\ W >= 2 /\ w \in Int
  BY WordsAssumption
<1>1. k \in Int /\ High(s, MInverse) \in Int /\ s * MInverse = W * High(s, MInverse) + k
  BY <1>0, ProductWords, ModulusIsNatural
<1>2. Low(k, M0) \in Int /\ High(k, M0) \in Int /\ k * M0 = W * High(k, M0) + Low(k, M0)
  <2> HIDE DEF k
  <2>1. Low(k, M0) \in 0 .. W - 1 /\ High(k, M0) \in Int /\ k * M0 = W * High(k, M0) + Low(k, M0)
    BY <1>0, <1>1, ProductWords
  <2> QED BY <1>0, <2>1
<1>3. e \in Int /\ M0 * MInverse + 1 = W * e
  <2>1. M0 * MInverse + 1 \in Int
    BY <1>0
  <2> DEFINE y == M0 * MInverse + 1
  <2>2. y % W = 0
    BY WordsAssumption
  <2> HIDE DEF y
  <2>3. y \div W \in Int /\ y = W * (y \div W) + (y % W)
    BY <2>1, WordDivision DEF y
  <2>4. y = W * (y \div W)
    BY <1>0, <2>2, <2>3
  <2> QED BY <2>3, <2>4 DEF y
<1> DEFINE q == High(s, MInverse)  h == High(k, M0)  l == Low(k, M0)
<1>4. s + l = W * c + w
  OBVIOUS
<1> HIDE DEF k, e, q, h, l
<1>5. k = s * MInverse - W * q
  BY <1>0, <1>1 DEF q
<1>6. l = k * M0 - W * h
  BY <1>0, <1>1, <1>2 DEF h, l
<1>7. q \in Int /\ h \in Int /\ l \in Int
  BY <1>1, <1>2 DEF q, h, l
<1>8. w = W * (s * e - q * M0 - h - c)
  <2>1. w = s + l - W * c
    <3> DEFINE p == W * c
    <3>1. p \in Int /\ s + l = p + w
      BY <1>0, <1>4
    <3> HIDE DEF p
    <3>2. w = s + l - p
      BY <1>0, <1>7, <3>1
    <3> QED BY <3>2 DEF p
  <2>2. l = (s * MInverse - W * q) * M0 - W * h
    BY <1>5, <1>6
  <2>3. s + ((s * MInverse - W * q) * M0 - W * h) - W * c = s * (M0 * MInverse + 1) - W * (q * M0 + h + c)
    BY <1>0, <1>7
  <2>4. s * (W * e) - W * (q * M0 + h + c) = W * (s * e - q * M0 - h - c)
    BY <1>0, <1>3, <1>7
  <2> QED BY <1>3, <2>1, <2>2, <2>3, <2>4
<1> DEFINE z == s * e - q * M0 - h - c
<1>9. z \in Int /\ w = W * z
  BY <1>0, <1>3, <1>7, <1>8
<1> HIDE DEF z
<1>10. ASSUME z >= 1 PROVE FALSE
  <2>1. W * z >= W * 1
    BY <1>0, <1>9, <1>10
  <2> QED BY <1>0, <1>9, <2>1
<1>11. ASSUME z <= -1 PROVE FALSE
  <2>1. W * z <= W * (-1)
    BY <1>0, <1>9, <1>11
  <2> QED BY <1>0, <1>9, <2>1
<1>12. z = 0
  BY <1>9, <1>10, <1>11
<1> QED BY <1>0, <1>9, <1>12

LEMMA LowWordOfSum ==
  ASSUME NEW u \in [1 .. 5 -> Int], NEW v \in [1 .. 5 -> Int]
  PROVE  \E c \in Int : u[1] + v[1] = W * c + Add64(u, v).words[1]
<1> DEFINE r == Add64(u, v)
<1>1. PICK c : Exact(r, c, u, v, 5)
  BY Add64IsExact
<1>2. /\ c[0] = 0 /\ c[1] \in Int /\ r.words[1] \in 0 .. W - 1
      /\ u[1] + v[1] + c[0] = W * c[1] + r.words[1]
  BY <1>1 DEF Exact
<1> HIDE DEF r
<1>3. u[1] + v[1] = u[1] + v[1] + c[0]
  BY <1>2
<1> QED BY <1>2, <1>3 DEF r

(* A step divides by W what it has made a multiple of W.                   *)
LEMMA StepDivides ==
  ASSUME NEW t \in [1 .. 5 -> Int], NEW row \in [1 .. 5 -> Int]
  PROVE  /\ MontgomeryStep(t, row) \in [1 .. 5 -> Int]
         /\ \A i \in 1 .. 4 : MontgomeryStep(t, row)[i] \in 0 .. W - 1
         /\ \E k \in 0 .. W - 1 :
              W * Number5(MontgomeryStep(t, row)) = Number5(t) + Number5(row) + k * ModulusValue
<1> DEFINE sum == Add64(t, row)  a == sum.words  k == Low(a[1], MInverse)
           m == ModulusRow(k)  reduced == Add64(a, m)  w == reduced.words  n == MontgomeryStep(t, row)
<1>0. W \in Int /\ W >= 2 /\ MInverse \in Int /\ M0 \in Int /\ M1 \in Int /\ M3 \in Int
  BY ModulusIsNatural
<1>1. n = <<w[2], w[3], w[4], w[5], reduced.carry + sum.carry>>
  BY DEF MontgomeryStep
<1>2. /\ a \in [1 .. 5 -> 0 .. W - 1] /\ sum.carry \in Int
      /\ Number5(a) + W * W * W * W * W * sum.carry = Number5(t) + Number5(row)
  BY Number5Adds
<1> HIDE DEF sum, a
<1>3. k \in 0 .. W - 1
  <2>1. a[1] \in Int
    BY <1>0, <1>2
  <2> QED BY <1>0, <2>1, ProductWords
<1> HIDE DEF k
<1>4. m \in [1 .. 5 -> Int] /\ Number5(m) = k * ModulusValue /\ m[1] = Low(k, M0)
  <2>1. k \in Int
    BY <1>3
  <2> QED BY <2>1, ModulusRowIsProduct
<1> HIDE DEF m
<1>5. a \in [1 .. 5 -> Int]
  BY <1>0, <1>2
<1>6. /\ w \in [1 .. 5 -> 0 .. W - 1] /\ reduced.carry \in Int
      /\ Number5(w) + W * W * W * W * W * reduced.carry = Number5(a) + Number5(m)
  BY <1>4, <1>5, Number5Adds
<1>7. w[1] = 0
  <2>1. PICK c \in Int : a[1] + m[1] = W * c + w[1]
    BY <1>4, <1>5, LowWordOfSum
  <2>2. a[1] \in 0 .. W - 1 /\ w[1] \in 0 .. W - 1
    BY <1>2, <1>6
  <2>3. a[1] + Low(Low(a[1], MInverse), M0) = W * c + w[1]
    BY <1>4, <2>1 DEF k
  <2> QED BY <2>2, <2>3, LowWordVanishes
<1> HIDE DEF reduced, w, n
<1> DEFINE w2 == w[2]  w3 == w[3]  w4 == w[4]  w5 == w[5]  r == reduced.carry  c == sum.carry
<1>8. /\ w2 \in 0 .. W - 1 /\ w3 \in 0 .. W - 1 /\ w4 \in 0 .. W - 1 /\ w5 \in 0 .. W - 1
      /\ r \in Int /\ c \in Int
  BY <1>2, <1>6
<1>9. n = <<w2, w3, w4, w5, r + c>>
  BY <1>1
<1>10. Number5(w) = 0 + W * (w2 + W * (w3 + W * (w4 + W * w5)))
  BY <1>7 DEF Number5
<1> HIDE DEF w2, w3, w4, w5, r, c
<1>11. n \in [1 .. 5 -> Int] /\ \A i \in 1 .. 4 : n[i] \in 0 .. W - 1
  <2>1. w2 \in Int /\ w3 \in Int /\ w4 \in Int /\ w5 \in Int /\ r + c \in Int
    BY <1>0, <1>8
  <2>2. n \in [1 .. 5 -> Int]
    BY <1>9, <2>1
  <2>3. n[1] = w2 /\ n[2] = w3 /\ n[3] = w4 /\ n[4] = w5
    BY <1>9
  <2> QED BY <1>8, <2>2, <2>3
<1>12. Number5(n) = w2 + W * (w3 + W * (w4 + W * (w5 + W * (r + c))))
  BY <1>9 DEF Number5
<1>13. W * (w2 + W * (w3 + W * (w4 + W * (w5 + W * (r + c)))))
         = (0 + W * (w2 + W * (w3 + W * (w4 + W * w5)))) + W * W * W * W * W * r + W * W * W * W * W * c
  BY <1>0, <1>8
<1>14. W * Number5(n) = Number5(t) + Number5(row) + k * ModulusValue
  <2> DEFINE N == Number5(n)  T == Number5(t)  R == Number5(row)  A == Number5(a)  V == Number5(w)
             pr == W * W * W * W * W * r  pc == W * W * W * W * W * c  K == k * ModulusValue
  <2>1. /\ A + pc = T + R /\ V + pr = A + K /\ W * N = V + pr + pc
    BY <1>2, <1>4, <1>6, <1>10, <1>12, <1>13 DEF r, c
  <2>2. /\ V \in Int /\ pr \in Int /\ pc \in Int
    BY <1>0, <1>8, <1>10
  <2>3. T \in Int /\ R \in Int /\ A \in Int /\ K \in Int
    <3>1. \A f \in [1 .. 5 -> Int] : Number5(f) \in Int
      BY <1>0 DEF Number5
    <3>2. ModulusValue \in Int
      BY <1>0 DEF ModulusValue
    <3> QED BY <1>3, <1>5, <3>1, <3>2
  <2> HIDE DEF N, T, R, A, V, pr, pc, K
  <2>4. V + pr + pc = T + R + K
    BY <2>1, <2>2, <2>3
  <2> QED BY <2>1, <2>4 DEF N, T, R, K
<1> QED BY <1>3, <1>11, <1>14 DEF n

----------------------------------------------------------------------------
LEMMA RadixFacts ==
  /\ W \in Nat /\ W >= 2 /\ Radix \in Nat /\ Radix >= 1 /\ W * W * W * W * W = Radix * W
  /\ ModulusValue \in Nat /\ ModulusValue >= 1 /\ ModulusValue < Radix
<1>1. W \in Nat /\ W >= 2 /\ M0 \in 0 .. W - 1 /\ M1 \in 0 .. W - 1 /\ M3 \in 0 .. W - 1
  BY ModulusIsNatural
<1>2. Radix \in Nat /\ W * W * W * W * W = Radix * W
  BY <1>1 DEF Radix
<1> DEFINE m == [i \in 1 .. 4 |-> Modulus[i]]
<1>3. /\ m \in [1 .. 4 -> 0 .. W - 1]
      /\ m[1] = M0 /\ m[2] = M1 /\ m[3] = 0 /\ m[4] = M3
  <2>1. Modulus[1] = M0 /\ Modulus[2] = M1 /\ Modulus[3] = 0 /\ Modulus[4] = M3
    BY DEF Modulus
  <2>2. \A i \in 1 .. 4 : Modulus[i] \in 0 .. W - 1
    <3> SUFFICES ASSUME NEW i \in 1 .. 4 PROVE Modulus[i] \in 0 .. W - 1
      OBVIOUS
    <3>1. i = 1 \/ i = 2 \/ i = 3 \/ i = 4
      OBVIOUS
    <3> QED BY <1>1, <2>1, <3>1
  <2> QED BY <2>1, <2>2
<1> HIDE DEF m
<1>4. NumberOf(m) = ModulusValue
  <2>1. NumberOf(m) = M0 + W * (M1 + W * (0 + W * M3))
    BY <1>3 DEF NumberOf
  <2>2. M0 + W * (M1 + W * (0 + W * M3)) = M0 + W * (M1 + W * W * M3)
    BY <1>1
  <2> QED BY <2>1, <2>2 DEF ModulusValue
<1>5. NumberOf(m) \in 0 .. Radix - 1
  BY <1>3, NumberBounds
<1>6. ModulusValue # 0
  <2>1. M0 # 0
    <3> SUFFICES ASSUME M0 = 0 PROVE FALSE
      OBVIOUS
    <3>1. M0 * MInverse + 1 = 1
      BY ModulusIsNatural
    <3>2. 1 % W = 1
      BY <1>1
    <3> QED BY <3>1, <3>2, WordsAssumption
  <2> DEFINE h == W * (M1 + W * W * M3)
  <2>2. h \in Nat
    BY <1>1
  <2>3. ModulusValue = M0 + h
    BY DEF ModulusValue
  <2> HIDE DEF h
  <2> QED BY <1>1, <2>1, <2>2, <2>3
<1> QED BY <1>1, <1>2, <1>4, <1>5, <1>6

LEMMA Split5 ==
  ASSUME NEW f \in [1 .. 5 -> Int]
  PROVE  Number5(f) = NumberOf(<<f[1], f[2], f[3], f[4]>>) + Radix * f[5]
<1> DEFINE f1 == f[1]  f2 == f[2]  f3 == f[3]  f4 == f[4]  f5 == f[5]
<1>1. f1 \in Int /\ f2 \in Int /\ f3 \in Int /\ f4 \in Int /\ f5 \in Int /\ W \in Int
  BY ModulusIsNatural
<1>2. /\ Number5(f) = f1 + W * (f2 + W * (f3 + W * (f4 + W * f5)))
      /\ NumberOf(<<f1, f2, f3, f4>>) = f1 + W * (f2 + W * (f3 + W * f4))
  BY DEF Number5, NumberOf
<1> HIDE DEF f1, f2, f3, f4, f5
<1>3. f1 + W * (f2 + W * (f3 + W * (f4 + W * f5))) = (f1 + W * (f2 + W * (f3 + W * f4))) + W * W * W * W * f5
  BY <1>1
<1> QED BY <1>2, <1>3 DEF Radix, f1, f2, f3, f4, f5

LEMMA LowWords ==
  ASSUME NEW f \in [1 .. 5 -> Int], \A i \in 1 .. 4 : f[i] \in 0 .. W - 1
  PROVE  /\ <<f[1], f[2], f[3], f[4]>> \in [1 .. 4 -> 0 .. W - 1]
         /\ NumberOf(<<f[1], f[2], f[3], f[4]>>) \in 0 .. Radix - 1
         /\ Number5(f) = NumberOf(<<f[1], f[2], f[3], f[4]>>) + Radix * f[5]
<1> DEFINE g == <<f[1], f[2], f[3], f[4]>>
<1>1. g \in [1 .. 4 -> 0 .. W - 1]
  OBVIOUS
<1> HIDE DEF g
<1>2. NumberOf(g) \in 0 .. Radix - 1
  BY <1>1, NumberBounds
<1> QED BY <1>1, <1>2, Split5 DEF g

(* A quotient of a number below twice the divisor is 0 or 1.               *)
LEMMA TopWord ==
  ASSUME NEW x \in Int, NEW low \in 0 .. Radix - 1, NEW top \in Int,
         x = low + Radix * top
  PROVE  /\ x >= 0 => top >= 0
         /\ x < 2 * Radix => top <= 1
         /\ x < Radix => top <= 0
<1>1. Radix \in Nat /\ Radix >= 1
  BY RadixFacts
<1> DEFINE p == Radix * top
<1>2. p \in Int /\ x = low + p
  BY <1>1
<1>3. ASSUME top <= -1 PROVE p <= -Radix
  <2>1. Radix * top <= Radix * (-1)
    BY <1>1, <1>3
  <2> QED BY <1>1, <2>1
<1>4. ASSUME top >= 2 PROVE p >= 2 * Radix
  <2>1. Radix * top >= Radix * 2
    BY <1>1, <1>4
  <2> QED BY <1>1, <2>1
<1>5. ASSUME top >= 1 PROVE p >= Radix
  <2>1. Radix * top >= Radix * 1
    BY <1>1, <1>5
  <2> QED BY <1>1, <2>1
<1> HIDE DEF p
<1> QED BY <1>1, <1>2, <1>3, <1>4, <1>5

LEMMA SubtractIsExact ==
  ASSUME NEW t \in [1 .. 5 -> Int], \A i \in 1 .. 4 : t[i] \in 0 .. W - 1,
         Number5(t) >= 0, Number5(t) < 2 * ModulusValue
  PROVE  /\ SubtractModulus(t) \in [1 .. 4 -> 0 .. W - 1]
         /\ NumberOf(SubtractModulus(t))
              = IF Number5(t) < ModulusValue THEN Number5(t) ELSE Number5(t) - ModulusValue
<1> DEFINE m == <<M0, M1, 0, M3, 0>>  d == Sub64(t, m)  w == d.words
           lowT == <<t[1], t[2], t[3], t[4]>>  lowW == <<w[1], w[2], w[3], w[4]>>
           T == Number5(t)  D == Number5(w)  M == ModulusValue
<1>0. /\ W \in Nat /\ W >= 2 /\ Radix \in Nat /\ M \in Nat /\ M >= 1 /\ M < Radix
      /\ W * W * W * W * W = Radix * W
  BY RadixFacts
<1>1. /\ lowT \in [1 .. 4 -> 0 .. W - 1] /\ NumberOf(lowT) \in 0 .. Radix - 1
      /\ T = NumberOf(lowT) + Radix * t[5]
  BY LowWords
<1>2. t[5] \in Int /\ T \in Int
  BY <1>0 DEF Number5
<1>3. t[5] \in {0, 1} /\ (T < Radix => t[5] = 0)
  <2> HIDE DEF lowT, T, M
  <2>1. t[5] >= 0 /\ t[5] <= 1 /\ (T < Radix => t[5] <= 0)
    <3>1. T >= 0 /\ T < 2 * Radix
      BY <1>0, <1>2 DEF T, M
    <3> QED BY <1>1, <1>2, <3>1, TopWord
  <2> QED BY <1>2, <2>1
<1>4. t \in [1 .. 5 -> 0 .. W - 1]
  <2>1. \A i \in 1 .. 5 : t[i] \in 0 .. W - 1
    BY <1>0, <1>3
  <2> QED BY <2>1
<1>5. m \in [1 .. 5 -> 0 .. W - 1]
  BY ModulusIsNatural
<1>6. Number5(m) = M
  <2>1. Number5(m) = M0 + W * (M1 + W * (0 + W * (M3 + W * 0)))
    BY DEF Number5
  <2>2. M0 + W * (M1 + W * (0 + W * (M3 + W * 0))) = M0 + W * (M1 + W * W * M3)
    BY ModulusIsNatural
  <2> QED BY <2>1, <2>2 DEF ModulusValue
<1> HIDE DEF m
<1>7. /\ w \in [1 .. 5 -> 0 .. W - 1] /\ d.borrow \in {0, 1}
      /\ D - W * W * W * W * W * d.borrow = T - M
  BY <1>4, <1>5, <1>6, Number5Subtracts
<1>8. SubtractModulus(t) = IF d.borrow = 1 THEN lowT ELSE lowW
  BY DEF SubtractModulus, m
<1> HIDE DEF d, w, lowT
<1>9. /\ lowW \in [1 .. 4 -> 0 .. W - 1] /\ NumberOf(lowW) \in 0 .. Radix - 1
      /\ D = NumberOf(lowW) + Radix * w[5]
  <2>1. w \in [1 .. 5 -> Int] /\ \A i \in 1 .. 4 : w[i] \in 0 .. W - 1
    BY <1>0, <1>7
  <2> QED BY <2>1, LowWords
<1> HIDE DEF lowW
<1>10. D \in 0 .. Radix * W - 1 /\ w[5] \in 0 .. W - 1
  <2>1. w[5] \in 0 .. W - 1
    BY <1>7
  <2>2. Radix * w[5] <= Radix * (W - 1) /\ Radix * w[5] \in Nat
    BY <1>0, <2>1
  <2>3. Radix * (W - 1) = Radix * W - Radix /\ Radix * W \in Nat
    BY <1>0
  <2> HIDE DEF D
  <2> QED BY <1>0, <1>9, <2>1, <2>2, <2>3
<1>11. T >= 0 /\ T < 2 * M
  OBVIOUS
<1> DEFINE F == Radix * W
<1>12. F \in Nat /\ F >= 2 * Radix
  <2>1. Radix * W >= Radix * 2
    BY <1>0
  <2> QED BY <1>0, <2>1
<1>13. W * W * W * W * W * d.borrow = F * d.borrow
  BY <1>0
<1> HIDE DEF D, T, M, F
<1>14. CASE d.borrow = 1
  <2>1. F * d.borrow = F
    BY <1>12, <1>14
  <2>2. D - F = T - M
    BY <1>7, <1>13, <2>1
  <2>3. D \in Int /\ D < F
    BY <1>0, <1>10, <1>12 DEF F
  <2>4. T < M
    BY <1>0, <1>2, <1>12, <2>2, <2>3
  <2>5. t[5] = 0
    BY <1>0, <1>2, <1>3, <2>4
  <2>6. T = NumberOf(lowT)
    BY <1>0, <1>1, <2>5
  <2>7. SubtractModulus(t) = lowT
    BY <1>8, <1>14
  <2> QED BY <1>1, <2>4, <2>6, <2>7 DEF T, M
<1>15. CASE d.borrow = 0
  <2>1. F * d.borrow = 0
    BY <1>12, <1>15
  <2>2. D = T - M
    <3>1. D - 0 = T - M /\ D \in Int
      BY <1>7, <1>10, <1>13, <2>1
    <3> QED BY <3>1
  <2>3. D >= 0 /\ D < Radix /\ D \in Int
    BY <1>0, <1>2, <1>10, <1>11, <2>2
  <2>4. w[5] <= 0 /\ w[5] = 0
    <3>1. w[5] \in Int
      BY <1>10
    <3>2. w[5] <= 0
      BY <1>9, <2>3, <3>1, TopWord
    <3> QED BY <1>10, <3>2
  <2>5. D = NumberOf(lowW)
    BY <1>0, <1>9, <2>4
  <2>6. SubtractModulus(t) = lowW
    BY <1>8, <1>15
  <2>7. ~(T < M)
    BY <1>0, <1>2, <2>2, <2>3
  <2> QED BY <1>9, <2>2, <2>5, <2>6, <2>7 DEF T, M
<1> QED BY <1>7, <1>14, <1>15

----------------------------------------------------------------------------
(* The rows are x times m, and m is below the modulus, or 1.               *)
RowsOf(rows, x, m) ==
  /\ x \in [1 .. 4 -> 0 .. W - 1] /\ m \in 0 .. ModulusValue
  /\ rows \in [1 .. 4 -> [1 .. 5 -> Int]]
  /\ \A i \in 1 .. 4 : Number5(rows[i]) = x[i] * m

Partial(t, m) ==
  /\ t \in [1 .. 5 -> Int] /\ \A i \in 1 .. 4 : t[i] \in 0 .. W - 1
  /\ Number5(t) \in Nat /\ Number5(t) < ModulusValue + m

Sums(f, rows) ==
  /\ f[0] = <<0, 0, 0, 0, 0>>
  /\ \A i \in 1 .. 4 : f[i] = MontgomeryStep(f[i - 1], rows[i])

LEMMA MontgomerySums ==
  ASSUME NEW rows \in [1 .. 4 -> [1 .. 5 -> Int]]
  PROVE  \E f : Sums(f, rows) /\ Montgomery(rows) = SubtractModulus(f[4])
<1> DEFINE S == [1 .. 5 -> Int]
           At(f, i) == IF i = 0 THEN <<0, 0, 0, 0, 0>> ELSE MontgomeryStep(f[i - 1], rows[i])
           Fits(f) == f = [i \in 0 .. 4 |-> At(f, i)]
           g == [p \in (1 .. 4) \X S |-> MontgomeryStep(p[2], rows[p[1]])]
           F == CHOOSE f : Fits(f)
<1>1. \E f : Fits(f)
  <2>1. g \in [(1 .. 4) \X S -> S]
    <3>1. \A p \in (1 .. 4) \X S : MontgomeryStep(p[2], rows[p[1]]) \in S
      <4> SUFFICES ASSUME NEW i \in 1 .. 4, NEW t \in S PROVE MontgomeryStep(t, rows[i]) \in S
        OBVIOUS
      <4>1. rows[i] \in S
        OBVIOUS
      <4> QED BY <4>1, StepDivides
    <3> QED BY <3>1
  <2>2. \A i \in 1 .. 4, t \in S : g[<<i, t>>] = MontgomeryStep(t, rows[i])
    OBVIOUS
  <2>3. <<0, 0, 0, 0, 0>> \in S /\ 4 \in Nat
    OBVIOUS
  <2> HIDE DEF g, S
  <2>4. PICK f : Runs(f, S, <<0, 0, 0, 0, 0>>, g, 4)
    BY <2>1, <2>3, RecursionRuns
  <2>5. f \in [0 .. 4 -> S] /\ f[0] = <<0, 0, 0, 0, 0>>
    BY <2>4 DEF Runs
  <2>6. \A i \in 1 .. 4 : f[i] = MontgomeryStep(f[i - 1], rows[i])
    <3> SUFFICES ASSUME NEW i \in 1 .. 4 PROVE f[i] = MontgomeryStep(f[i - 1], rows[i])
      OBVIOUS
    <3>1. f[i - 1] \in S
      BY <2>5
    <3>2. f[i] = g[<<i, f[i - 1]>>]
      BY <2>4 DEF Runs
    <3> QED BY <2>2, <3>1, <3>2
  <2>7. \A i \in 0 .. 4 : f[i] = At(f, i)
    BY <2>5, <2>6
  <2> HIDE DEF At
  <2>8. Fits(f)
    BY <2>5, <2>7
  <2> QED BY <2>8
<1>2. Fits(F)
  BY <1>1
<1>3. Montgomery(rows) = SubtractModulus(F[4])
  BY DEF Montgomery
<1> HIDE DEF F
<1>4. \A i \in 0 .. 4 : F[i] = At(F, i)
  <2> HIDE DEF At
  <2> QED BY <1>2
<1>5. Sums(F, rows)
  BY <1>4 DEF Sums
<1> QED BY <1>3, <1>5

Leads(t, n, y) ==
  \E k \in 0 .. W - 1 : W * Number5(n) = Number5(t) + y + k * ModulusValue

LEMMA PartialStep ==
  ASSUME NEW rows, NEW x, NEW m, RowsOf(rows, x, m), NEW i \in 1 .. 4, NEW t, Partial(t, m)
  PROVE  /\ Partial(MontgomeryStep(t, rows[i]), m)
         /\ Leads(t, MontgomeryStep(t, rows[i]), x[i] * m)
<1> DEFINE n == MontgomeryStep(t, rows[i])  N == Number5(n)  T == Number5(t)  M == ModulusValue  y == x[i]
<1>0. W \in Nat /\ W >= 2 /\ M \in Nat /\ M >= 1
  BY RadixFacts
<1>1. t \in [1 .. 5 -> Int] /\ rows[i] \in [1 .. 5 -> Int] /\ Number5(rows[i]) = y * m
      /\ y \in 0 .. W - 1 /\ m \in Nat /\ m <= M /\ T \in Nat /\ T < M + m
  BY <1>0 DEF RowsOf, Partial
<1>2. /\ n \in [1 .. 5 -> Int] /\ \A j \in 1 .. 4 : n[j] \in 0 .. W - 1
      /\ \E k \in 0 .. W - 1 : W * N = T + Number5(rows[i]) + k * M
  BY <1>1, StepDivides
<1>3. PICK k \in 0 .. W - 1 : W * N = T + y * m + k * M
  BY <1>1, <1>2
<1>4. N \in Int
  BY <1>0, <1>2 DEF Number5
<1> HIDE DEF n, N, T, M, y
<1>5. N \in Nat /\ N < M + m
  <2>1. y * m \in Nat /\ y * m <= (W - 1) * m
    BY <1>0, <1>1
  <2>2. k * M \in Nat /\ k * M <= (W - 1) * M
    BY <1>0, <1>3
  <2> DEFINE a == y * m  b == k * M  wm == W * m  wM == W * M  wN == W * N
  <2>3. (W - 1) * m = wm - m /\ (W - 1) * M = wM - M /\ wm \in Nat /\ wM \in Nat /\ wN \in Int
    BY <1>0, <1>1, <1>4
  <2>4. a \in Nat /\ b \in Nat /\ a <= wm - m /\ b <= wM - M /\ wN = T + a + b
    BY <1>3, <2>1, <2>2, <2>3
  <2> HIDE DEF a, b, wm, wM, wN
  <2>5. wN >= 0 /\ wN < wm + wM
    BY <1>0, <1>1, <2>3, <2>4
  <2>6. N >= 0
    <3> SUFFICES ASSUME N <= -1 PROVE FALSE
      BY <1>4
    <3>1. W * N <= W * (-1)
      BY <1>0, <1>4
    <3> QED BY <1>0, <2>3, <2>5, <3>1 DEF wN
  <2>7. N < M + m
    <3> SUFFICES ASSUME N >= M + m PROVE FALSE
      BY <1>0, <1>1, <1>4
    <3>1. W * N >= W * (M + m)
      BY <1>0, <1>1, <1>4
    <3>2. W * (M + m) = wM + wm
      BY <1>0, <1>1 DEF wM, wm
    <3> QED BY <1>0, <2>3, <2>5, <3>1, <3>2 DEF wN
  <2> QED BY <1>4, <2>6, <2>7
<1>6. Partial(n, m)
  BY <1>2, <1>5 DEF Partial, N, M
<1> QED BY <1>3, <1>6 DEF n, N, T, M, y, Leads

(* Four steps divide by W four times.                                      *)
LEMMA MontgomeryReduces ==
  ASSUME NEW rows, NEW x, NEW m, RowsOf(rows, x, m)
  PROVE  /\ IsScalar(Montgomery(rows))
         /\ \E k \in Int : Radix * NumberOf(Montgomery(rows)) = NumberOf(x) * m + k * ModulusValue
<1> DEFINE M == ModulusValue
<1>0. W \in Nat /\ W >= 2 /\ M \in Nat /\ M >= 1 /\ M < Radix /\ Radix \in Nat
  BY RadixFacts
<1>1. rows \in [1 .. 4 -> [1 .. 5 -> Int]] /\ m \in Nat /\ m <= M /\ x \in [1 .. 4 -> 0 .. W - 1]
  BY <1>0 DEF RowsOf
<1>2. PICK f : Sums(f, rows) /\ Montgomery(rows) = SubtractModulus(f[4])
  BY <1>1, MontgomerySums
<1>3. Partial(f[0], m) /\ Number5(f[0]) = 0
  <2> DEFINE z == <<0, 0, 0, 0, 0>>
  <2>1. f[0] = z
    BY <1>2 DEF Sums
  <2>2. z \in [1 .. 5 -> Int] /\ \A i \in 1 .. 4 : z[i] \in 0 .. W - 1
    BY <1>0
  <2>3. Number5(z) = 0
    <3>1. Number5(z) = 0 + W * (0 + W * (0 + W * (0 + W * 0)))
      BY DEF Number5
    <3> QED BY <1>0, <3>1
  <2> HIDE DEF z
  <2>4. 0 < M + m
    BY <1>0, <1>1
  <2> QED BY <2>1, <2>2, <2>3, <2>4 DEF Partial, M
<1> DEFINE Follows(i) ==
      /\ Partial(f[i], m)
      /\ \E k \in 0 .. W - 1 : W * Number5(f[i]) = Number5(f[i - 1]) + x[i] * m + k * M
<1>4. ASSUME NEW i \in 1 .. 4, Partial(f[i - 1], m) PROVE Follows(i)
  <2>1. f[i] = MontgomeryStep(f[i - 1], rows[i])
    BY <1>2 DEF Sums
  <2> DEFINE t == f[i - 1]
  <2>2. Partial(t, m)
    BY <1>4
  <2> HIDE DEF t
  <2>3. Partial(MontgomeryStep(t, rows[i]), m)
    BY <2>2, PartialStep
  <2>4. Leads(t, MontgomeryStep(t, rows[i]), x[i] * m)
    BY <2>2, PartialStep
  <2> QED BY <2>1, <2>3, <2>4 DEF t, Leads
<1>5. Follows(1)
  BY <1>3, <1>4
<1>6. Follows(2)
  BY <1>4, <1>5
<1>7. Follows(3)
  BY <1>4, <1>6
<1>8. Follows(4)
  BY <1>4, <1>7
<1> DEFINE t == f[4]  N1 == Number5(f[1])  N2 == Number5(f[2])  N3 == Number5(f[3])  N4 == Number5(f[4])
           x1 == x[1]  x2 == x[2]  x3 == x[3]  x4 == x[4]
<1>9. PICK k1 \in 0 .. W - 1 : W * N1 = x1 * m + k1 * M
  <2>1. PICK k \in 0 .. W - 1 : W * N1 = 0 + x1 * m + k * M
    BY <1>3, <1>5
  <2>2. x1 * m \in Int
    BY <1>1
  <2> QED BY <2>1, <2>2
<1>10. PICK k2 \in 0 .. W - 1 : W * N2 = N1 + x2 * m + k2 * M
  BY <1>6
<1>11. PICK k3 \in 0 .. W - 1 : W * N3 = N2 + x3 * m + k3 * M
  BY <1>7
<1>12. PICK k4 \in 0 .. W - 1 : W * N4 = N3 + x4 * m + k4 * M
  BY <1>8
<1>13. /\ N1 \in Nat /\ N2 \in Nat /\ N3 \in Nat /\ N4 \in Nat /\ N4 < M + m
       /\ t \in [1 .. 5 -> Int] /\ \A i \in 1 .. 4 : t[i] \in 0 .. W - 1
  BY <1>5, <1>6, <1>7, <1>8 DEF Partial
<1>14. x1 \in Int /\ x2 \in Int /\ x3 \in Int /\ x4 \in Int
  BY <1>1
<1>15. NumberOf(x) = x1 + W * (x2 + W * (x3 + W * x4))
  BY DEF NumberOf
<1> DEFINE K == k1 + W * (k2 + W * (k3 + W * k4))
<1>16. K \in Int
  BY <1>0
<1>17. Radix * N4 = NumberOf(x) * m + K * M
  <2> HIDE DEF N1, N2, N3, N4, x1, x2, x3, x4, M
  <2>1. W * (W * N2) = (x1 * m + k1 * M) + W * (x2 * m + k2 * M)
    BY <1>0, <1>1, <1>9, <1>10, <1>13, <1>14
  <2>2. W * (W * (W * N3)) = (x1 * m + k1 * M) + W * ((x2 * m + k2 * M) + W * (x3 * m + k3 * M))
    <3>1. W * (W * (W * N3)) = W * (W * N2) + W * (W * (x3 * m + k3 * M))
      BY <1>0, <1>1, <1>11, <1>13, <1>14
    <3> QED BY <1>0, <1>1, <1>14, <2>1, <3>1
  <2>3. W * (W * (W * (W * N4)))
          = (x1 * m + k1 * M) + W * ((x2 * m + k2 * M) + W * ((x3 * m + k3 * M) + W * (x4 * m + k4 * M)))
    <3>1. W * (W * (W * (W * N4))) = W * (W * (W * N3)) + W * (W * (W * (x4 * m + k4 * M)))
      BY <1>0, <1>1, <1>12, <1>13, <1>14
    <3> QED BY <1>0, <1>1, <1>14, <2>2, <3>1
  <2>4. (x1 * m + k1 * M) + W * ((x2 * m + k2 * M) + W * ((x3 * m + k3 * M) + W * (x4 * m + k4 * M)))
          = (x1 + W * (x2 + W * (x3 + W * x4))) * m + (k1 + W * (k2 + W * (k3 + W * k4))) * M
    BY <1>0, <1>1, <1>14
  <2>5. Radix * N4 = W * (W * (W * (W * N4)))
    BY <1>0, <1>13 DEF Radix
  <2> QED BY <1>15, <2>3, <2>4, <2>5
<1> HIDE DEF K
<1>18. N4 >= 0 /\ N4 < 2 * M
  BY <1>0, <1>1, <1>13
<1> DEFINE r == SubtractModulus(t)
<1>19. /\ r \in [1 .. 4 -> 0 .. W - 1]
       /\ NumberOf(r) = IF N4 < M THEN N4 ELSE N4 - M
  <2> HIDE DEF t
  <2>1. Number5(t) >= 0 /\ Number5(t) < 2 * ModulusValue
    BY <1>18 DEF t
  <2>2. /\ r \in [1 .. 4 -> 0 .. W - 1]
        /\ NumberOf(r) = IF Number5(t) < ModulusValue THEN Number5(t) ELSE Number5(t) - ModulusValue
    BY <1>13, <2>1, SubtractIsExact
  <2> QED BY <2>2 DEF t
<1>20. Montgomery(rows) = r
  BY <1>2
<1> HIDE DEF r, N4, M
<1>21. NumberOf(r) < M
  BY <1>0, <1>13, <1>18, <1>19
<1>22. \E k \in Int : Radix * NumberOf(r) = NumberOf(x) * m + k * M
  <2>1. CASE N4 < M
    BY <1>16, <1>17, <1>19, <2>1
  <2>2. CASE ~(N4 < M)
    <3>1. Radix * NumberOf(r) = Radix * N4 - Radix * M
      BY <1>0, <1>13, <1>19, <2>2
    <3>2. NumberOf(x) \in Int
      BY <1>0, <1>14, <1>15
    <3>3. (NumberOf(x) * m + K * M) - Radix * M = NumberOf(x) * m + (K - Radix) * M
      BY <1>0, <1>1, <1>16, <3>2
    <3>4. K - Radix \in Int
      BY <1>0, <1>16
    <3> DEFINE a == Radix * NumberOf(r)  b == Radix * N4  c == Radix * M
               d == NumberOf(x) * m + K * M  e == NumberOf(x) * m + (K - Radix) * M
    <3>5. a = e
      <4>1. b = d /\ a = b - c /\ d - c = e
        BY <1>17, <3>1, <3>3
      <4> HIDE DEF a, b, c, d, e
      <4> QED BY <4>1
    <3> QED BY <3>4, <3>5
  <2> QED BY <2>1, <2>2
<1> QED BY <1>19, <1>20, <1>21, <1>22 DEF IsScalar, M

----------------------------------------------------------------------------
(* W, and so Radix, has an inverse mod the modulus.                        *)
LEMMA RadixHasInverse ==
  \E u \in Int : Same(Radix * u, 1, ModulusValue)
<1> DEFINE M == ModulusValue  e == (M0 * MInverse + 1) \div W
<1>0. /\ W \in Nat /\ W >= 2 /\ M \in Int /\ Radix \in Int
      /\ M0 \in Int /\ M1 \in Int /\ M3 \in Int /\ MInverse \in Int
  BY RadixFacts, ModulusIsNatural
<1>1. e \in Int /\ M0 * MInverse + 1 = W * e
  <2> DEFINE y == M0 * MInverse + 1
  <2>1. y \in Int /\ y % W = 0
    BY <1>0, WordsAssumption
  <2> HIDE DEF y
  <2>2. y \div W \in Int /\ y = W * (y \div W) + (y % W)
    BY <2>1, WordDivision
  <2>3. y = W * (y \div W)
    BY <1>0, <2>1, <2>2
  <2> QED BY <2>2, <2>3 DEF y
<1> DEFINE u == e + (M1 + W * W * M3) * MInverse
<1>2. u \in Int
  BY <1>0, <1>1
<1>3. W * u = 1 + M * MInverse
  <2>1. M * MInverse = M0 * MInverse + W * (M1 + W * W * M3) * MInverse
    BY <1>0 DEF ModulusValue
  <2>2. W * u = W * e + W * (M1 + W * W * M3) * MInverse
    BY <1>0, <1>1
  <2> DEFINE h == W * (M1 + W * W * M3) * MInverse  l == M0 * MInverse
  <2>3. h \in Int /\ l \in Int
    BY <1>0
  <2>4. M * MInverse = l + h /\ W * u = (l + 1) + h
    BY <1>1, <2>1, <2>2
  <2> HIDE DEF h, l, u
  <2> QED BY <2>3, <2>4
<1> HIDE DEF u, e, M
<1>4. Same(W * u, 1, M)
  BY <1>0, <1>3 DEF Same
<1> DEFINE v == W * u
<1>5. v \in Int /\ v * v \in Int /\ 1 \in Int
  BY <1>0, <1>2
<1>6. Same(v, 1, M)
  BY <1>4
<1> HIDE DEF v
<1>7. Same(v * v, 1 * 1, M)
  BY <1>0, <1>5, <1>6, SameProduct
<1> DEFINE s == v * v
<1>8. s \in Int /\ Same(s, 1, M)
  BY <1>5, <1>7
<1> HIDE DEF s
<1>9. Same(s * s, 1 * 1, M)
  BY <1>0, <1>5, <1>8, SameProduct
<1>10. s * s = Radix * (u * u * u * u)
  <2>1. (W * u) * (W * u) * ((W * u) * (W * u)) = W * W * W * W * (u * u * u * u)
    BY <1>0, <1>2
  <2> QED BY <2>1 DEF s, v, Radix
<1>11. u * u * u * u \in Int
  BY <1>2
<1> QED BY <1>9, <1>10, <1>11 DEF M

----------------------------------------------------------------------------

LEMMA MontgomeryOfIs ==
  ASSUME NEW n \in Int
  PROVE  /\ MontgomeryOf(n) \in 0 .. ModulusValue - 1
         /\ Same(MontgomeryOf(n), n * Radix, ModulusValue)
<1> DEFINE M == ModulusValue  r == Radix % M  p == n * r
<1>0. M \in Nat /\ M >= 1 /\ M \in Int /\ Radix \in Int
  BY RadixFacts
<1>1. r \in Int /\ Same(r, Radix, M)
  <2>1. r \in 0 .. M - 1
    BY <1>0, Remainder
  <2> QED BY <1>0, <2>1, SameItsRemainder
<1>2. Same(n, n, M)
  BY <1>0, SameItsRemainder
<1> HIDE DEF r, M
<1>3. Same(n * r, n * Radix, M)
  BY <1>0, <1>1, <1>2, SameProduct
<1>4. p \in Int /\ n * Radix \in Int /\ Same(p, n * Radix, M)
  BY <1>0, <1>1, <1>3
<1> HIDE DEF p
<1>5. p % M \in 0 .. M - 1 /\ Same(p % M, p, M)
  BY <1>0, <1>4, Remainder, SameItsRemainder
<1> DEFINE q == p % M
<1>6. q \in Int /\ Same(q, p, M)
  BY <1>5
<1> HIDE DEF q
<1>7. Same(q, n * Radix, M)
  BY <1>0, <1>4, <1>6, SameTransitive
<1> QED BY <1>5, <1>7 DEF MontgomeryOf, M, r, p, q

(* Radix can be cancelled.                                                 *)
LEMMA Cancelled ==
  ASSUME NEW x \in Int, NEW y \in Int, Same(Radix * x, Radix * y, ModulusValue)
  PROVE  Same(x, y, ModulusValue)
<1> DEFINE M == ModulusValue
<1>0. M \in Nat /\ M >= 1 /\ M \in Int /\ Radix \in Int
  BY RadixFacts
<1>1. PICK u \in Int : Same(Radix * u, 1, M)
  BY RadixHasInverse
<1>2. PICK k \in Int : Radix * u = 1 + M * k
  BY <1>1 DEF Same
<1>3. PICK j \in Int : Radix * x = Radix * y + M * j
  BY DEF Same
<1> HIDE DEF M
<1>4. (Radix * u) * x = (Radix * u) * y + M * (u * j)
  <2>1. u * (Radix * x) = u * (Radix * y + M * j)
    BY <1>3
  <2>2. u * (Radix * x) = (Radix * u) * x /\ u * (Radix * y + M * j) = (Radix * u) * y + M * (u * j)
    BY <1>0
  <2> QED BY <2>1, <2>2
<1>5. (1 + M * k) * x = (1 + M * k) * y + M * (u * j)
  BY <1>2, <1>4
<1>6. x = y + M * (u * j + k * y - k * x)
  <2>1. (1 + M * k) * x = x + M * (k * x) /\ (1 + M * k) * y = y + M * (k * y)
    BY <1>0
  <2> DEFINE a == M * (k * x)  b == M * (k * y)  c == M * (u * j)
  <2>2. a \in Int /\ b \in Int /\ c \in Int /\ x + a = (y + b) + c
    BY <1>0, <1>5, <2>1
  <2>3. M * (u * j + k * y - k * x) = (c + b) - a
    BY <1>0
  <2> HIDE DEF a, b, c
  <2>4. x = y + ((c + b) - a)
    BY <2>2
  <2> QED BY <2>3, <2>4
<1>7. u * j + k * y - k * x \in Int
  OBVIOUS
<1> QED BY <1>6, <1>7 DEF Same, M

LEMMA WordsOfNumber ==
  ASSUME NEW n \in 0 .. Radix - 1
  PROVE  WordsOf(n) \in [1 .. 4 -> 0 .. W - 1] /\ NumberOf(WordsOf(n)) = n
<1> DEFINE n2 == n \div W  n3 == n2 \div W  n4 == n3 \div W  n5 == n4 \div W
           r1 == n % W  r2 == n2 % W  r3 == n3 % W  r4 == n4 % W
<1>0. W \in Nat /\ W >= 2 /\ Radix \in Nat /\ n \in Int
  BY RadixFacts
<1>1. WordsOf(n) = <<r1, r2, r3, r4>>
  BY DEF WordsOf
<1>2. n2 \in Int /\ r1 \in 0 .. W - 1 /\ n = W * n2 + r1
  BY <1>0, WordDivision
<1> HIDE DEF n2, r1
<1>3. n3 \in Int /\ r2 \in 0 .. W - 1 /\ n2 = W * n3 + r2
  BY <1>2, WordDivision
<1> HIDE DEF n3, r2
<1>4. n4 \in Int /\ r3 \in 0 .. W - 1 /\ n3 = W * n4 + r3
  BY <1>3, WordDivision
<1> HIDE DEF n4, r3
<1>5. n5 \in Int /\ r4 \in 0 .. W - 1 /\ n4 = W * n5 + r4
  BY <1>4, WordDivision
<1> HIDE DEF n5, r4
<1> DEFINE ws == <<r1, r2, r3, r4>>
<1>6. ws \in [1 .. 4 -> 0 .. W - 1]
  BY <1>2, <1>3, <1>4, <1>5
<1>7. NumberOf(ws) = r1 + W * (r2 + W * (r3 + W * r4))
  BY DEF NumberOf
<1> HIDE DEF ws
<1>8. NumberOf(ws) \in 0 .. Radix - 1
  BY <1>6, NumberBounds
<1>9. n = NumberOf(ws) + Radix * n5
  <2>1. n = W * (W * (W * (W * n5 + r4) + r3) + r2) + r1
    BY <1>2, <1>3, <1>4, <1>5
  <2>2. W * (W * (W * (W * n5 + r4) + r3) + r2) + r1
          = (r1 + W * (r2 + W * (r3 + W * r4))) + W * W * W * W * n5
    BY <1>0, <1>2, <1>3, <1>4, <1>5
  <2> QED BY <1>7, <2>1, <2>2 DEF Radix
<1>10. n5 = 0
  <2> DEFINE d == n - NumberOf(ws)
  <2>1. d \in Int /\ d < Radix /\ d > -Radix
    BY <1>0, <1>8
  <2>2. Radix * n5 \in Int
    BY <1>0, <1>5
  <2>3. d = Radix * n5
    BY <1>0, <1>8, <1>9, <2>2
  <2> HIDE DEF d
  <2> QED BY <1>0, <1>5, <2>1, <2>3, RadixFacts, SmallMultiple
<1>11. NumberOf(ws) = n
  BY <1>0, <1>8, <1>9, <1>10
<1> QED BY <1>1, <1>6, <1>11 DEF ws

----------------------------------------------------------------------------
LEMMA ScalarNumber ==
  ASSUME NEW a, IsScalar(a)
  PROVE  /\ a \in [1 .. 4 -> 0 .. W - 1] /\ a \in [1 .. 4 -> Int]
         /\ NumberOf(a) \in 0 .. ModulusValue - 1 /\ NumberOf(a) \in Int
<1>1. a \in [1 .. 4 -> 0 .. W - 1] /\ NumberOf(a) < ModulusValue
  BY DEF IsScalar
<1>2. NumberOf(a) \in 0 .. Radix - 1
  BY <1>1, NumberBounds
<1>3. a \in [1 .. 4 -> Int]
  BY <1>1, RadixFacts
<1> QED BY <1>1, <1>2, <1>3, RadixFacts

(* Radix * r = x * y, mod the modulus.                                     *)
Reduces(r, x, y) == IsScalar(r) /\ Same(Radix * NumberOf(r), x * y, ModulusValue)

LEMMA RowsReduce ==
  ASSUME NEW rows, NEW x, NEW m, RowsOf(rows, x, m)
  PROVE  Reduces(Montgomery(rows), NumberOf(x), m)
<1>1. IsScalar(Montgomery(rows))
  BY MontgomeryReduces
<1>2. PICK k \in Int : Radix * NumberOf(Montgomery(rows)) = NumberOf(x) * m + k * ModulusValue
  BY MontgomeryReduces
<1>3. k * ModulusValue = ModulusValue * k
  BY RadixFacts
<1> QED BY <1>1, <1>2, <1>3 DEF Reduces, Same

LEMMA RowsOfProduct ==
  ASSUME NEW x \in [1 .. 4 -> 0 .. W - 1], NEW b, IsScalar(b)
  PROVE  Reduces(Montgomery([i \in 1 .. 4 |-> Row(x[i], b)]), NumberOf(x), NumberOf(b))
<1> DEFINE rows == [i \in 1 .. 4 |-> Row(x[i], b)]
<1>1. b \in [1 .. 4 -> Int] /\ NumberOf(b) \in 0 .. ModulusValue
  BY ScalarNumber, RadixFacts
<1>2. \A i \in 1 .. 4 : Row(x[i], b) \in [1 .. 5 -> Int] /\ Number5(Row(x[i], b)) = x[i] * NumberOf(b)
  <2> SUFFICES ASSUME NEW i \in 1 .. 4
               PROVE  Row(x[i], b) \in [1 .. 5 -> Int] /\ Number5(Row(x[i], b)) = x[i] * NumberOf(b)
    OBVIOUS
  <2> DEFINE y == x[i]
  <2>1. y \in Int
    BY RadixFacts
  <2> HIDE DEF y
  <2>2. Row(y, b) \in [1 .. 5 -> Int] /\ Number5(Row(y, b)) = y * NumberOf(b)
    BY <1>1, <2>1, RowIsProduct
  <2> QED BY <2>2 DEF y
<1>3. rows \in [1 .. 4 -> [1 .. 5 -> Int]] /\ \A i \in 1 .. 4 : Number5(rows[i]) = x[i] * NumberOf(b)
  BY <1>2
<1> HIDE DEF rows
<1>4. RowsOf(rows, x, NumberOf(b))
  BY <1>1, <1>3 DEF RowsOf
<1>5. Reduces(Montgomery(rows), NumberOf(x), NumberOf(b))
  BY <1>4, RowsReduce
<1> QED BY <1>5 DEF rows

LEMMA MulReduces ==
  ASSUME NEW a, NEW b, IsScalar(a), IsScalar(b)
  PROVE  Reduces(fiatScalarMul(a, b), NumberOf(a), NumberOf(b))
<1>1. a \in [1 .. 4 -> 0 .. W - 1]
  BY ScalarNumber
<1> QED BY <1>1, RowsOfProduct DEF fiatScalarMul

LEMMA FromReduces ==
  ASSUME NEW a, IsScalar(a)
  PROVE  Reduces(fiatScalarFromMontgomery(a), NumberOf(a), 1)
<1> DEFINE rows == [i \in 1 .. 4 |-> <<a[i], 0, 0, 0, 0>>]
<1>1. a \in [1 .. 4 -> 0 .. W - 1] /\ W \in Nat
  BY ScalarNumber, RadixFacts
<1>2. \A i \in 1 .. 4 : /\ <<a[i], 0, 0, 0, 0>> \in [1 .. 5 -> Int]
                        /\ Number5(<<a[i], 0, 0, 0, 0>>) = a[i] * 1
  <2> SUFFICES ASSUME NEW y \in Int
               PROVE  <<y, 0, 0, 0, 0>> \in [1 .. 5 -> Int] /\ Number5(<<y, 0, 0, 0, 0>>) = y * 1
    BY <1>1
  <2>1. Number5(<<y, 0, 0, 0, 0>>) = y + W * (0 + W * (0 + W * (0 + W * 0)))
    BY DEF Number5
  <2> QED BY <1>1, <2>1
<1>3. rows \in [1 .. 4 -> [1 .. 5 -> Int]] /\ \A i \in 1 .. 4 : Number5(rows[i]) = a[i] * 1
  BY <1>2
<1> HIDE DEF rows
<1>4. RowsOf(rows, a, 1)
  BY <1>1, <1>3, RadixFacts DEF RowsOf
<1>5. Reduces(Montgomery(rows), NumberOf(a), 1)
  BY <1>4, RowsReduce
<1> QED BY <1>5 DEF rows, fiatScalarFromMontgomery

LEMMA RSquaredIs ==
  IsScalar(RSquared) /\ Same(NumberOf(RSquared), Radix * Radix, ModulusValue)
<1> DEFINE M == ModulusValue  r == Radix % M  p == r * r  q == p % M
<1>0. M \in Nat /\ M >= 1 /\ M < Radix /\ M \in Int /\ Radix \in Int
  BY RadixFacts
<1>1. r \in Int /\ Same(r, Radix, M)
  <2>1. r \in 0 .. M - 1
    BY <1>0, Remainder
  <2> QED BY <1>0, <2>1, SameItsRemainder
<1>2. RSquared = WordsOf(q)
  BY DEF RSquared
<1> HIDE DEF r, M
<1>3. p \in Int /\ Same(p, Radix * Radix, M)
  BY <1>0, <1>1, SameProduct
<1> HIDE DEF p
<1>4. q \in 0 .. M - 1 /\ Same(q, p, M)
  BY <1>0, <1>3, Remainder, SameItsRemainder
<1> HIDE DEF q
<1>5. q \in Int /\ q \in 0 .. Radix - 1 /\ Radix * Radix \in Int
  BY <1>0, <1>4
<1>6. Same(q, Radix * Radix, M)
  BY <1>0, <1>3, <1>4, <1>5, SameTransitive
<1>7. WordsOf(q) \in [1 .. 4 -> 0 .. W - 1] /\ NumberOf(WordsOf(q)) = q
  BY <1>5, WordsOfNumber
<1> QED BY <1>0, <1>2, <1>4, <1>6, <1>7 DEF IsScalar, M

(* Reduced from words of any number: they stand for it times Radix.        *)
LEMMA ToMontgomeryIs ==
  ASSUME NEW a \in [1 .. 4 -> 0 .. W - 1]
  PROVE  /\ IsScalar(fiatScalarToMontgomery(a))
         /\ Same(NumberOf(fiatScalarToMontgomery(a)), NumberOf(a) * Radix, ModulusValue)
<1> DEFINE M == ModulusValue  t == fiatScalarToMontgomery(a)  n == NumberOf(t)  x == NumberOf(a)
           q == NumberOf(RSquared)
<1>0. M \in Nat /\ M >= 1 /\ M \in Int /\ Radix \in Int
  BY RadixFacts
<1>1. IsScalar(RSquared) /\ Same(q, Radix * Radix, M)
  BY RSquaredIs
<1>2. Reduces(t, x, q)
  BY <1>1, RowsOfProduct DEF fiatScalarToMontgomery
<1> HIDE DEF t
<1>3. IsScalar(t) /\ Same(Radix * n, x * q, M)
  BY <1>2 DEF Reduces
<1>4. n \in Int /\ q \in Int /\ x \in Int
  <2>1. x \in 0 .. Radix - 1
    BY NumberBounds
  <2> QED BY <1>0, <1>1, <1>3, <2>1, ScalarNumber
<1> HIDE DEF n, x, q, M
<1>5. Same(x * q, x * (Radix * Radix), M)
  <2>1. Same(x, x, M) /\ Radix * Radix \in Int
    BY <1>0, <1>4, SameItsRemainder
  <2> QED BY <1>0, <1>1, <1>4, <2>1, SameProduct
<1>6. x * (Radix * Radix) = Radix * (x * Radix)
  BY <1>0, <1>4
<1>7. Same(Radix * n, Radix * (x * Radix), M)
  <2>1. Radix * n \in Int /\ x * q \in Int /\ x * (Radix * Radix) \in Int
    BY <1>0, <1>4
  <2> QED BY <1>0, <1>3, <1>5, <1>6, <2>1, SameTransitive
<1>8. Same(n, x * Radix, M)
  <2>1. x * Radix \in Int
    BY <1>0, <1>4
  <2> QED BY <1>4, <1>7, <2>1, Cancelled DEF M
<1> QED BY <1>3, <1>8 DEF n, x, t, M

----------------------------------------------------------------------------
(* A number less than twice m is reduced by taking m away once.            *)
LEMMA OnceReduced ==
  ASSUME NEW m \in Nat, m >= 1, NEW x \in Int, x >= 0, x < 2 * m
  PROVE  x % m = IF x < m THEN x ELSE x - m
<1>1. CASE x < m
  <2>1. x \in 0 .. m - 1 /\ Same(x, x, m)
    BY <1>1, SameItsRemainder
  <2> QED BY <1>1, <2>1, SameRemainder
<1>2. CASE ~(x < m)
  <2>1. x - m \in 0 .. m - 1
    BY <1>2
  <2>2. Same(x, x - m, m)
    <3>1. x = (x - m) + m * 1
      OBVIOUS
    <3> QED BY <3>1 DEF Same
  <2> QED BY <1>2, <2>1, <2>2, SameRemainder
<1> QED BY <1>1, <1>2

(* The same for a difference, to which m is added.                         *)
LEMMA DifferenceReduced ==
  ASSUME NEW m \in Nat, m >= 1, NEW x \in Int, x < m, x > -m
  PROVE  x % m = IF x < 0 THEN x + m ELSE x
<1>1. CASE x < 0
  <2>1. x + m \in 0 .. m - 1
    BY <1>1
  <2>2. Same(x, x + m, m)
    <3>1. x = (x + m) + m * (-1)
      OBVIOUS
    <3> QED BY <3>1 DEF Same
  <2> QED BY <1>1, <2>1, <2>2, SameRemainder
<1>2. CASE ~(x < 0)
  <2>1. x \in 0 .. m - 1 /\ Same(x, x, m)
    BY <1>2, SameItsRemainder
  <2> QED BY <1>2, <2>1, SameRemainder
<1> QED BY <1>1, <1>2

LEMMA AddIsExact ==
  ASSUME NEW a, NEW b, IsScalar(a), IsScalar(b)
  PROVE  /\ IsScalar(fiatScalarAdd(a, b))
         /\ NumberOf(fiatScalarAdd(a, b)) = (NumberOf(a) + NumberOf(b)) % ModulusValue
<1> DEFINE M == ModulusValue  s == Add64(a, b)  w == s.words  c == s.carry
           t == <<w[1], w[2], w[3], w[4], c>>  x == NumberOf(a)  y == NumberOf(b)
<1>0. M \in Nat /\ M >= 1 /\ Radix \in Nat
  BY RadixFacts
<1>1. /\ a \in [1 .. 4 -> Int] /\ b \in [1 .. 4 -> Int]
      /\ x \in 0 .. M - 1 /\ y \in 0 .. M - 1
  BY ScalarNumber
<1>2. w \in [1 .. 4 -> 0 .. W - 1] /\ c \in Int /\ NumberOf(w) + Radix * c = x + y
  BY <1>1, NumberAdds
<1>3. fiatScalarAdd(a, b) = SubtractModulus(t)
  BY DEF fiatScalarAdd
<1> HIDE DEF s
<1>4. t \in [1 .. 5 -> Int] /\ \A i \in 1 .. 4 : t[i] \in 0 .. W - 1
  <2>1. t \in [1 .. 5 -> Int]
    BY <1>2, RadixFacts
  <2>2. t[1] = w[1] /\ t[2] = w[2] /\ t[3] = w[3] /\ t[4] = w[4]
    OBVIOUS
  <2> HIDE DEF t
  <2> QED BY <1>2, <2>1, <2>2
<1>5. Number5(t) = NumberOf(w) + Radix * c
  <2>1. Number5(t) = NumberOf(<<t[1], t[2], t[3], t[4]>>) + Radix * t[5]
    BY <1>4, Split5
  <2>2. NumberOf(<<t[1], t[2], t[3], t[4]>>) = NumberOf(w)
    BY DEF NumberOf
  <2> QED BY <2>1, <2>2
<1> HIDE DEF t, x, y, M
<1>6. Number5(t) >= 0 /\ Number5(t) < 2 * M
  BY <1>0, <1>1, <1>2, <1>5
<1>7. /\ SubtractModulus(t) \in [1 .. 4 -> 0 .. W - 1]
      /\ NumberOf(SubtractModulus(t)) = IF x + y < M THEN x + y ELSE (x + y) - M
  <2>1. Number5(t) = x + y
    BY <1>2, <1>5
  <2>2. /\ SubtractModulus(t) \in [1 .. 4 -> 0 .. W - 1]
        /\ NumberOf(SubtractModulus(t)) = IF Number5(t) < M THEN Number5(t) ELSE Number5(t) - M
    BY <1>4, <1>6, SubtractIsExact DEF M
  <2> QED BY <2>1, <2>2
<1>8. (x + y) % M = IF x + y < M THEN x + y ELSE (x + y) - M
  <2> DEFINE z == x + y
  <2>1. z \in Int /\ z >= 0 /\ z < 2 * M
    BY <1>0, <1>1
  <2> HIDE DEF z
  <2>2. z % M = IF z < M THEN z ELSE z - M
    BY <1>0, <2>1, OnceReduced
  <2> QED BY <2>2 DEF z
<1>9. NumberOf(SubtractModulus(t)) < M
  <2> DEFINE z == x + y
  <2>1. z \in Int /\ z < 2 * M
    BY <1>0, <1>1
  <2>2. NumberOf(SubtractModulus(t)) = IF z < M THEN z ELSE z - M
    BY <1>7
  <2> HIDE DEF z
  <2> QED BY <1>0, <2>1, <2>2
<1> QED BY <1>3, <1>7, <1>8, <1>9 DEF IsScalar, M, x, y

LEMMA ModulusIsWords ==
  /\ Modulus \in [1 .. 4 -> 0 .. W - 1] /\ NumberOf(Modulus) = ModulusValue
  /\ IsScalar(Zero) /\ NumberOf(Zero) = 0
<1>1. W \in Nat /\ W >= 2 /\ M0 \in 0 .. W - 1 /\ M1 \in 0 .. W - 1 /\ M3 \in 0 .. W - 1
  BY ModulusIsNatural
<1>2. Modulus \in [1 .. 4 -> 0 .. W - 1]
  BY <1>1 DEF Modulus
<1>3. NumberOf(Modulus) = ModulusValue
  <2>1. NumberOf(Modulus) = M0 + W * (M1 + W * (0 + W * M3))
    BY DEF NumberOf, Modulus
  <2>2. M0 + W * (M1 + W * (0 + W * M3)) = M0 + W * (M1 + W * W * M3)
    BY <1>1
  <2> QED BY <2>1, <2>2 DEF ModulusValue
<1>4. NumberOf(Zero) = 0
  <2>1. NumberOf(Zero) = 0 + W * (0 + W * (0 + W * 0))
    BY DEF NumberOf, Zero
  <2> QED BY <1>1, <2>1
<1>5. Zero \in [1 .. 4 -> 0 .. W - 1]
  BY <1>1 DEF Zero
<1> QED BY <1>2, <1>3, <1>4, <1>5, RadixFacts DEF IsScalar

LEMMA SubIsExact ==
  ASSUME NEW a, NEW b, IsScalar(a), IsScalar(b)
  PROVE  /\ IsScalar(fiatScalarSub(a, b))
         /\ NumberOf(fiatScalarSub(a, b)) = (NumberOf(a) - NumberOf(b)) % ModulusValue
<1> DEFINE M == ModulusValue  d == Sub64(a, b)  w == d.words  e == d.borrow
           k == IF e = 1 THEN Modulus ELSE Zero
           s == Add64(w, k)  r == s.words  c == s.carry  x == NumberOf(a)  y == NumberOf(b)
<1>0. M \in Nat /\ M >= 1 /\ Radix \in Nat /\ M < Radix /\ W \in Nat
  BY RadixFacts
<1>1. /\ a \in [1 .. 4 -> 0 .. W - 1] /\ b \in [1 .. 4 -> 0 .. W - 1]
      /\ x \in 0 .. M - 1 /\ y \in 0 .. M - 1
  BY ScalarNumber
<1>2. w \in [1 .. 4 -> 0 .. W - 1] /\ e \in {0, 1} /\ NumberOf(w) - Radix * e = x - y
  BY <1>1, NumberSubtracts
<1>3. fiatScalarSub(a, b) = r
  BY DEF fiatScalarSub
<1> HIDE DEF d
<1>4. k \in [1 .. 4 -> Int] /\ w \in [1 .. 4 -> Int]
  BY <1>0, <1>2, ModulusIsWords DEF IsScalar
<1>5. NumberOf(k) = IF e = 1 THEN M ELSE 0
  BY ModulusIsWords
<1> HIDE DEF k
<1>6. r \in [1 .. 4 -> 0 .. W - 1] /\ c \in Int /\ NumberOf(r) + Radix * c = NumberOf(w) + NumberOf(k)
  BY <1>4, NumberAdds
<1> HIDE DEF s
<1>7. NumberOf(w) \in 0 .. Radix - 1 /\ NumberOf(r) \in 0 .. Radix - 1
  BY <1>2, <1>6, NumberBounds
<1> HIDE DEF x, y, M
<1> DEFINE z == x - y
<1>8. z \in Int /\ z < M /\ z > -M
  BY <1>0, <1>1
<1>9. NumberOf(w) - Radix * e = z
  BY <1>2
<1> HIDE DEF z
<1>10. NumberOf(r) = IF z < 0 THEN z + M ELSE z
  <2> DEFINE n == NumberOf(r)  p == NumberOf(w)
  <2>0. n \in Int /\ p \in Int /\ Radix \in Int
    BY <1>0, <1>7
  <2>1. CASE e = 1
    <3>1. p = z + Radix
      BY <1>0, <1>8, <1>9, <2>0, <2>1
    <3>2. n + Radix * c = p + M
      BY <1>5, <1>6, <2>1
    <3>3. z < 0
      BY <1>0, <1>7, <1>8, <3>1
    <3>4. c = 1
      <4> DEFINE v == (z + M) + Radix  f == c
      <4>1. v = n + Radix * f
        BY <1>0, <1>6, <1>8, <2>0, <3>1, <3>2
      <4>2. v \in Int /\ v >= Radix /\ v < 2 * Radix
        BY <1>0, <1>8, <3>3
      <4> HIDE DEF v
      <4>3. f \in Int /\ f <= 1
        BY <1>0, <1>6, <1>7, <4>1, <4>2, TopWord
      <4>4. f >= 1
        <5> SUFFICES ASSUME f <= 0 PROVE FALSE
          BY <4>3
        <5>1. Radix * f <= 0
          BY <1>0, <4>3
        <5> QED BY <1>0, <1>7, <2>0, <4>1, <4>2, <4>3, <5>1
      <4> QED BY <4>3, <4>4
    <3>5. Radix * c = Radix
      BY <1>0, <3>4
    <3>6. n + Radix = (z + Radix) + M
      BY <3>1, <3>2, <3>5
    <3> HIDE DEF n, p
    <3>7. n = z + M
      BY <1>0, <1>8, <2>0, <3>6
    <3> QED BY <3>3, <3>7 DEF n
  <2>2. CASE e = 0
    <3>1. p = z
      <4>1. Radix * e = 0
        BY <1>0, <2>2
      <4> QED BY <1>8, <1>9, <2>0, <4>1
    <3>2. n + Radix * c = p + 0
      BY <1>5, <1>6, <2>2
    <3>3. z >= 0
      BY <1>7, <3>1
    <3>4. c = 0
      <4> DEFINE f == c
      <4>1. z = n + Radix * f
        BY <1>0, <1>6, <1>8, <2>0, <3>1, <3>2
      <4>2. f \in Int /\ f <= 0
        BY <1>0, <1>6, <1>7, <1>8, <4>1, TopWord
      <4>3. f >= 0
        BY <1>0, <1>6, <1>7, <1>8, <3>3, <4>1, TopWord
      <4> QED BY <4>2, <4>3
    <3>5. Radix * c = 0
      BY <1>0, <3>4
    <3>6. n + 0 = z + 0
      BY <3>1, <3>2, <3>5
    <3> HIDE DEF n, p
    <3>7. n = z
      BY <1>8, <2>0, <3>6
    <3> QED BY <1>8, <3>3, <3>7 DEF n
  <2> QED BY <1>2, <2>1, <2>2
<1>11. z % M = IF z < 0 THEN z + M ELSE z
  BY <1>0, <1>8, DifferenceReduced
<1>12. NumberOf(r) < M
  BY <1>0, <1>8, <1>10
<1> QED BY <1>3, <1>6, <1>10, <1>11, <1>12 DEF IsScalar, M, x, y, z

----------------------------------------------------------------------------
(* A scalar that is a number times Radix is its Montgomery form.           *)
LEMMA FormOf ==
  ASSUME NEW r, IsScalar(r), NEW n \in Int, Same(NumberOf(r), n * Radix, ModulusValue)
  PROVE  NumberOf(r) = MontgomeryOf(n)
<1> DEFINE M == ModulusValue  x == NumberOf(r)  y == MontgomeryOf(n)  z == n * Radix
<1>0. M \in Nat /\ M >= 1 /\ M \in Int /\ z \in Int
  BY RadixFacts
<1>1. x \in 0 .. M - 1 /\ y \in 0 .. M - 1 /\ Same(y, z, M) /\ Same(x, z, M)
  BY ScalarNumber, MontgomeryOfIs
<1> HIDE DEF x, y, z, M
<1>2. x \in Int /\ y \in Int
  BY <1>0, <1>1
<1>3. Same(z, y, M)
  BY <1>0, <1>1, <1>2, SameSymmetric
<1>4. Same(x, y, M)
  BY <1>0, <1>1, <1>2, <1>3, SameTransitive
<1>5. x % M = y /\ Same(x, x, M)
  BY <1>0, <1>1, <1>2, <1>4, SameRemainder, SameItsRemainder
<1>6. x % M = x
  BY <1>0, <1>1, <1>2, <1>5, SameRemainder
<1> QED BY <1>5, <1>6 DEF x, y

(* What the Montgomery form of a reduced number is.                        *)
LEMMA ReducesForm ==
  ASSUME NEW r, NEW x \in Int, NEW y \in Int, Reduces(r, x, y)
  PROVE  MontgomeryOf(NumberOf(r)) = (x * y) % ModulusValue
<1> DEFINE M == ModulusValue  n == NumberOf(r)  p == x * y  f == MontgomeryOf(n)
<1>0. M \in Nat /\ M >= 1 /\ M \in Int /\ Radix \in Int /\ p \in Int
  BY RadixFacts
<1>1. n \in Int /\ Same(Radix * n, p, M)
  BY ScalarNumber DEF Reduces
<1>2. f \in 0 .. M - 1 /\ Same(f, n * Radix, M)
  BY <1>1, MontgomeryOfIs
<1>3. n * Radix = Radix * n /\ Radix * n \in Int
  BY <1>0, <1>1
<1> HIDE DEF M, n, p, f
<1>4. f \in Int /\ Same(f, p, M)
  <2>1. f \in Int /\ Same(f, Radix * n, M)
    BY <1>0, <1>2, <1>3
  <2> QED BY <1>0, <1>1, <1>3, <2>1, SameTransitive
<1>5. Same(p, f, M)
  BY <1>0, <1>4, SameSymmetric
<1>6. p % M = f
  BY <1>0, <1>2, <1>5, SameRemainder
<1> QED BY <1>6 DEF f, n, p, M

(* The operations on scalars are those on the integers mod the order.      *)
THEOREM ScalarsAreExact ==
  ASSUME NEW a, NEW b, IsScalar(a), IsScalar(b)
  PROVE  ScalarsAgree(NumberOf(a), NumberOf(b),
           [sum |-> fiatScalarAdd(a, b), difference |-> fiatScalarSub(a, b), product |-> fiatScalarMul(a, b),
            opposite |-> fiatScalarOpp(a),
            from |-> fiatScalarFromMontgomery(a), to |-> fiatScalarToMontgomery(a)])
<1> DEFINE M == ModulusValue  x == NumberOf(a)  y == NumberOf(b)
           sum == fiatScalarAdd(a, b)  difference == fiatScalarSub(a, b)  product == fiatScalarMul(a, b)
           opposite == fiatScalarOpp(a)
           from == fiatScalarFromMontgomery(a)  to == fiatScalarToMontgomery(a)
           r == [sum |-> sum, difference |-> difference, product |-> product,
                 opposite |-> opposite, from |-> from, to |-> to]
<1>0. M \in Nat /\ M >= 1 /\ Radix \in Nat /\ x \in Int /\ y \in Int /\ x \in 0 .. M - 1
  BY RadixFacts, ScalarNumber
<1>1. IsScalar(sum) /\ NumberOf(sum) = (x + y) % M
  BY AddIsExact
<1>2. IsScalar(difference) /\ NumberOf(difference) = (x - y) % M
  BY SubIsExact
<1>3. IsScalar(opposite) /\ NumberOf(opposite) = (-x) % M
  <2>1. IsScalar(Zero) /\ NumberOf(Zero) = 0
    BY ModulusIsWords
  <2>2. IsScalar(fiatScalarSub(Zero, a)) /\ NumberOf(fiatScalarSub(Zero, a)) = (NumberOf(Zero) - NumberOf(a)) % M
    BY <2>1, SubIsExact
  <2>3. 0 - x = -x
    BY <1>0
  <2> QED BY <2>1, <2>2, <2>3 DEF fiatScalarOpp
<1>4. IsScalar(product) /\ MontgomeryOf(NumberOf(product)) = (x * y) % M
  <2>1. Reduces(product, x, y)
    BY MulReduces
  <2> QED BY <1>0, <2>1, ReducesForm DEF Reduces
<1>5. IsScalar(from) /\ MontgomeryOf(NumberOf(from)) = x
  <2>1. Reduces(from, x, 1)
    BY FromReduces
  <2>2. MontgomeryOf(NumberOf(from)) = (x * 1) % M
    <3> HIDE DEF x, from
    <3> QED BY <1>0, <2>1, ReducesForm
  <2>3. x * 1 = x
    BY <1>0
  <2>4. x % M = x
    <3> HIDE DEF x, M
    <3>1. Same(x, x, M)
      BY <1>0, SameItsRemainder
    <3> QED BY <1>0, <3>1, SameRemainder
  <2> QED BY <2>1, <2>2, <2>3, <2>4 DEF Reduces
<1>6. IsScalar(to) /\ NumberOf(to) = MontgomeryOf(x)
  <2>1. a \in [1 .. 4 -> 0 .. W - 1]
    BY DEF IsScalar
  <2>2. IsScalar(to) /\ Same(NumberOf(to), x * Radix, M)
    BY <2>1, ToMontgomeryIs
  <2> HIDE DEF x, to
  <2> QED BY <1>0, <2>2, FormOf
<1>7. r.sum = sum /\ r.difference = difference /\ r.product = product /\ r.opposite = opposite
      /\ r.from = from /\ r.to = to
  OBVIOUS
<1>8. \A k \in DOMAIN r : IsScalar(r[k])
  <2> HIDE DEF sum, difference, product, opposite, from, to
  <2>1. DOMAIN r = {"sum", "difference", "product", "opposite", "from", "to"}
    OBVIOUS
  <2> HIDE DEF r
  <2> SUFFICES ASSUME NEW k \in DOMAIN r PROVE IsScalar(r[k])
    OBVIOUS
  <2>2. CASE k = "sum"
    BY <1>1, <1>7, <2>2
  <2>3. CASE k = "difference"
    BY <1>2, <1>7, <2>3
  <2>4. CASE k = "product"
    BY <1>4, <1>7, <2>4
  <2>5. CASE k = "opposite"
    BY <1>3, <1>7, <2>5
  <2>6. CASE k = "from"
    BY <1>5, <1>7, <2>6
  <2>7. CASE k = "to"
    BY <1>6, <1>7, <2>7
  <2> QED BY <2>1, <2>2, <2>3, <2>4, <2>5, <2>6, <2>7
<1> HIDE DEF sum, difference, product, opposite, from, to
<1>9. ScalarsAgree(x, y, r)
  <2> HIDE DEF r, x, y
  <2> QED BY <1>1, <1>2, <1>3, <1>4, <1>5, <1>6, <1>7, <1>8 DEF ScalarsAgree
<1> QED BY <1>9 DEF sum, difference, product, opposite, from, to

----------------------------------------------------------------------------
LEMMA ShortSizeIsNatural == ShortSize \in Nat
BY WordsAssumption

(* A scalar stands for n: it is n times Radix.                             *)
Stands(r, n) == IsScalar(r) /\ n \in Int /\ Same(NumberOf(r), n * Radix, ModulusValue)

LEMMA SumStands ==
  ASSUME NEW a, NEW b, NEW x, NEW y, Stands(a, x), Stands(b, y)
  PROVE  Stands(fiatScalarAdd(a, b), x + y)
<1> DEFINE M == ModulusValue  n == NumberOf(a)  m == NumberOf(b)  s == fiatScalarAdd(a, b)  p == x * Radix
           q == y * Radix
<1>0. M \in Nat /\ M >= 1 /\ M \in Int /\ Radix \in Int /\ x \in Int /\ y \in Int
  BY RadixFacts DEF Stands
<1>1. n \in Int /\ m \in Int /\ Same(n, p, M) /\ Same(m, q, M)
  BY ScalarNumber DEF Stands
<1>2. IsScalar(s) /\ NumberOf(s) = (n + m) % M
  BY AddIsExact DEF Stands
<1> HIDE DEF n, m, s, M
<1>3. p \in Int /\ q \in Int /\ p + q = (x + y) * Radix
  BY <1>0
<1> HIDE DEF p, q
<1>4. Same(n + m, p + q, M)
  BY <1>0, <1>1, <1>3, SameSum
<1> DEFINE u == n + m  v == p + q
<1>5. u \in Int /\ v \in Int
  BY <1>1, <1>3
<1>6. Same(u, v, M) /\ NumberOf(s) = u % M
  BY <1>2, <1>4
<1> HIDE DEF u, v
<1>7. Same(u % M, v, M)
  <2>1. Same(u % M, u, M) /\ u % M \in Int
    BY <1>0, <1>5, SameItsRemainder, Remainder
  <2> QED BY <1>0, <1>5, <1>6, <2>1, SameTransitive
<1>8. v = (x + y) * Radix /\ x + y \in Int
  BY <1>0, <1>3 DEF v
<1> QED BY <1>2, <1>6, <1>7, <1>8 DEF Stands, s, M

LEMMA ProductStands ==
  ASSUME NEW a, NEW b, NEW x, NEW y, Stands(a, x), Stands(b, y)
  PROVE  Stands(fiatScalarMul(a, b), x * y)
<1> DEFINE M == ModulusValue  n == NumberOf(a)  m == NumberOf(b)  s == fiatScalarMul(a, b)  r == NumberOf(s)
           p == x * Radix  q == y * Radix  z == x * y
<1>0. M \in Nat /\ M >= 1 /\ M \in Int /\ Radix \in Int /\ x \in Int /\ y \in Int
  BY RadixFacts DEF Stands
<1>1. n \in Int /\ m \in Int /\ Same(n, p, M) /\ Same(m, q, M)
  BY ScalarNumber DEF Stands
<1>2. Reduces(s, n, m)
  BY MulReduces DEF Stands
<1>3. IsScalar(s) /\ r \in Int /\ Same(Radix * r, n * m, M)
  BY <1>2, ScalarNumber DEF Reduces
<1>4. p \in Int /\ q \in Int /\ z \in Int /\ p * q = Radix * (z * Radix) /\ z * Radix \in Int
  BY <1>0
<1> HIDE DEF n, m, r, M, z
<1>5. Same(n * m, p * q, M)
  <2> HIDE DEF p, q
  <2> QED BY <1>0, <1>1, <1>4, SameProduct
<1>6. Same(Radix * r, p * q, M)
  <2>1. Radix * r \in Int /\ n * m \in Int /\ p * q \in Int
    BY <1>0, <1>1, <1>3, <1>4
  <2> HIDE DEF p, q
  <2> QED BY <1>0, <1>3, <1>5, <2>1, SameTransitive
<1>7. Same(Radix * r, Radix * (z * Radix), M)
  BY <1>4, <1>6
<1>8. Same(r, z * Radix, M)
  BY <1>3, <1>4, <1>7, Cancelled DEF M
<1> QED BY <1>3, <1>4, <1>8 DEF Stands, r, z, M

LEMMA ShortStands ==
  ASSUME NEW n \in 0 .. Radix - 1
  PROVE  Stands(setShortBytes(n), n)
<1>1. WordsOf(n) \in [1 .. 4 -> 0 .. W - 1] /\ NumberOf(WordsOf(n)) = n
  BY WordsOfNumber
<1>2. /\ IsScalar(fiatScalarToMontgomery(WordsOf(n)))
      /\ Same(NumberOf(fiatScalarToMontgomery(WordsOf(n))), NumberOf(WordsOf(n)) * Radix, ModulusValue)
  BY <1>1, ToMontgomeryIs
<1> QED BY <1>1, <1>2 DEF Stands, setShortBytes

(* The words of a number mod the order.                                    *)
LEMMA ReducedStands ==
  ASSUME NEW n \in Int, NEW x \in Int, Same(n, x * Radix, ModulusValue)
  PROVE  Stands(WordsOf(n % ModulusValue), x)
<1> DEFINE M == ModulusValue  r == n % M  z == x * Radix
<1>0. M \in Nat /\ M >= 1 /\ M \in Int /\ M < Radix /\ Radix \in Int /\ z \in Int
  BY RadixFacts
<1>1. Same(n, z, M)
  OBVIOUS
<1> HIDE DEF M, z
<1>2. r \in 0 .. M - 1 /\ Same(r, n, M)
  BY <1>0, Remainder, SameItsRemainder
<1> HIDE DEF r
<1>3. r \in Int /\ r \in 0 .. Radix - 1 /\ r < M
  BY <1>0, <1>2
<1>4. Same(r, z, M)
  BY <1>0, <1>1, <1>2, <1>3, SameTransitive
<1>5. WordsOf(r) \in [1 .. 4 -> 0 .. W - 1] /\ NumberOf(WordsOf(r)) = r
  BY <1>3, WordsOfNumber
<1>6. Stands(WordsOf(r), x)
  BY <1>3, <1>4, <1>5 DEF Stands, IsScalar, M, z
<1> QED BY <1>6 DEF r, M

LEMMA ConstantsStand ==
  Stands(scalarTwo168, ShortSize) /\ Stands(scalarTwo336, ShortSize * ShortSize)
<1> DEFINE M == ModulusValue  r == Radix % M  n == ShortSize * r  k == NumberOf(scalarTwo168)  m == ShortSize * k
<1>0. M \in Nat /\ M >= 1 /\ M \in Int /\ Radix \in Int /\ ShortSize \in Int
  BY RadixFacts, ShortSizeIsNatural
<1>1. r \in Int /\ Same(r, Radix, M)
  <2> HIDE DEF M
  <2> QED BY <1>0, Remainder, SameItsRemainder
<1>2. scalarTwo168 = WordsOf(n % M)
  BY DEF scalarTwo168
<1>3. scalarTwo336 = WordsOf(m % M)
  BY DEF scalarTwo336
<1>4. Same(ShortSize, ShortSize, M)
  BY <1>0, SameItsRemainder
<1> HIDE DEF r, M
<1>5. n \in Int /\ Same(n, ShortSize * Radix, M)
  BY <1>0, <1>1, <1>4, SameProduct
<1> HIDE DEF n
<1>6. Stands(scalarTwo168, ShortSize)
  BY <1>0, <1>2, <1>5, ReducedStands DEF M
<1>7. k \in Int /\ Same(k, ShortSize * Radix, M)
  BY <1>6, ScalarNumber DEF Stands, M
<1> HIDE DEF k
<1>8. m \in Int /\ Same(m, (ShortSize * ShortSize) * Radix, M)
  <2>1. ShortSize * Radix \in Int /\ ShortSize * (ShortSize * Radix) = (ShortSize * ShortSize) * Radix
    BY <1>0
  <2>2. m \in Int
    BY <1>0, <1>7
  <2>3. Same(m, ShortSize * (ShortSize * Radix), M)
    BY <1>0, <1>4, <1>7, <2>1, SameProduct
  <2> QED BY <2>1, <2>2, <2>3
<1> HIDE DEF m
<1>9. Stands(scalarTwo336, ShortSize * ShortSize)
  <2>1. ShortSize * ShortSize \in Int
    BY <1>0
  <2> DEFINE z == ShortSize * ShortSize
  <2>2. z \in Int /\ Same(m, z * Radix, M)
    BY <1>8, <2>1
  <2> HIDE DEF z
  <2>3. Stands(scalarTwo336, z)
    BY <1>3, <1>8, <2>2, ReducedStands DEF M
  <2> QED BY <2>3 DEF z
<1> QED BY <1>6, <1>9

(* Three thirds are reduced to the scalar of the integer they make up.     *)
THEOREM UniformIsReduced ==
  ASSUME NEW a \in 0 .. Radix - 1, NEW b \in 0 .. Radix - 1, NEW c \in 0 .. Radix - 1
  PROVE  /\ IsScalar(SetUniformBytes(a, b, c))
         /\ NumberOf(SetUniformBytes(a, b, c))
              = MontgomeryOf((a + ShortSize * (b + ShortSize * c)) % ModulusValue)
<1> DEFINE M == ModulusValue  s == SetUniformBytes(a, b, c)  z == a + ShortSize * (b + ShortSize * c)
           second == fiatScalarMul(setShortBytes(b), scalarTwo168)
           third == fiatScalarMul(setShortBytes(c), scalarTwo336)
           low == fiatScalarAdd(setShortBytes(a), second)
<1>0. /\ M \in Nat /\ M >= 1 /\ M \in Int /\ Radix \in Int /\ ShortSize \in Int
      /\ a \in Int /\ b \in Int /\ c \in Int
  BY RadixFacts, ShortSizeIsNatural
<1>1. Stands(setShortBytes(a), a) /\ Stands(setShortBytes(b), b) /\ Stands(setShortBytes(c), c)
  BY ShortStands
<1>2. Stands(second, b * ShortSize) /\ Stands(third, c * (ShortSize * ShortSize))
  BY <1>1, ConstantsStand, ProductStands
<1>3. s = fiatScalarAdd(low, third)
  BY DEF SetUniformBytes
<1> HIDE DEF second, third
<1>4. Stands(low, a + b * ShortSize)
  BY <1>1, <1>2, SumStands
<1> HIDE DEF low, s
<1>5. Stands(s, (a + b * ShortSize) + c * (ShortSize * ShortSize))
  BY <1>2, <1>3, <1>4, SumStands
<1>6. (a + b * ShortSize) + c * (ShortSize * ShortSize) = z /\ z \in Int
  BY <1>0
<1> HIDE DEF z
<1> DEFINE m == z % M
<1>7. IsScalar(s) /\ Same(NumberOf(s), z * Radix, M) /\ NumberOf(s) \in Int
  BY <1>5, <1>6, ScalarNumber DEF Stands
<1> HIDE DEF M
<1>8. m \in Int /\ Same(z, m, M)
  BY <1>0, <1>6, Remainder, SameItsRemainder
<1> HIDE DEF m
<1>9. Same(z * Radix, m * Radix, M)
  BY <1>0, <1>6, <1>8, SameItsRemainder, SameProduct
<1>10. Same(NumberOf(s), m * Radix, M)
  <2>1. z * Radix \in Int /\ m * Radix \in Int
    BY <1>0, <1>6, <1>8
  <2> QED BY <1>0, <1>7, <1>9, <2>1, SameTransitive
<1>11. NumberOf(s) = MontgomeryOf(m)
  BY <1>7, <1>8, <1>10, FormOf DEF M
<1> QED BY <1>7, <1>11 DEF s, m, z, M
=============================================================================
