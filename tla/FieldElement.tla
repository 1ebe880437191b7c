---------------------------- MODULE FieldElement ----------------------------
(***************************************************************************)
(* The field arithmetic (internal/edwards25519/field): an element is five  *)
(* limbs in base B, which stand for an integer mod P.  B is 2^51 in the    *)
(* code.  No operation takes the modulus of a word: FieldBounds shows that *)
(* nothing exceeds a uint64, or 128 bits in a product.                     *)
(***************************************************************************)
EXTENDS Integers

CONSTANT B              \* 2^51; every limb is written in base B

ASSUME BaseAssumption == B \in Nat /\ B >= 19

P == B * B * B * B * B - 19

Element(l0, l1, l2, l3, l4) == [l0 |-> l0, l1 |-> l1, l2 |-> l2, l3 |-> l3, l4 |-> l4]

(* The integer that an element stands for.                                 *)
ValueOf(v) == v.l0 + B * (v.l1 + B * (v.l2 + B * (v.l3 + B * v.l4)))

(* What an operation may be given: limbs below 2^52, as the code expects,  *)
(* and small enough for feSubtract to take them from 2 * P one by one.     *)
Vectors(S) == [l0 : S, l1 : S, l2 : S, l3 : S, l4 : S]
Full(v) ==
  /\ v \in Vectors(Nat) /\ v.l0 <= 2 * B - 38
  /\ v.l1 <= 2 * B - 2 /\ v.l2 <= 2 * B - 2 /\ v.l3 <= 2 * B - 2 /\ v.l4 <= 2 * B - 2

feZero == Element(0, 0, 0, 0, 0)

carryPropagate(v) ==
  Element((v.l0 % B) + (v.l4 \div B) * 19,
          (v.l1 % B) + (v.l0 \div B),
          (v.l2 % B) + (v.l1 \div B),
          (v.l3 % B) + (v.l2 \div B),
          (v.l4 % B) + (v.l3 \div B))

(* The carry out of v + 19, which is 1 exactly if v >= P.                  *)
TopCarry(v) ==
  (v.l4 + (v.l3 + (v.l2 + (v.l1 + (v.l0 + 19) \div B) \div B) \div B) \div B) \div B

Ripple(v, c) ==
  LET l0 == v.l0 + 19 * c
      l1 == v.l1 + l0 \div B
      l2 == v.l2 + l1 \div B
      l3 == v.l3 + l2 \div B
      l4 == v.l4 + l3 \div B
  IN Element(l0 % B, l1 % B, l2 % B, l3 % B, l4 % B)

reduce(v) == LET w == carryPropagate(v) IN Ripple(w, TopCarry(w))

feAdd(a, b) ==
  carryPropagate(Element(a.l0 + b.l0, a.l1 + b.l1, a.l2 + b.l2, a.l3 + b.l3, a.l4 + b.l4))

(* 2 * P is added first, limb by limb.                                     *)
feSubtract(a, b) ==
  carryPropagate(Element((a.l0 + 2 * B - 38) - b.l0, (a.l1 + 2 * B - 2) - b.l1,
                         (a.l2 + 2 * B - 2) - b.l2, (a.l3 + 2 * B - 2) - b.l3,
                         (a.l4 + 2 * B - 2) - b.l4))

feNegate(a) == feSubtract(feZero, a)

----------------------------------------------------------------------------
(* Multiplication: the wide columns r0 .. r4, with what would be at B^5    *)
(* and above brought down as 19 times as much; then the carries from       *)
(* column to column, and from limb to limb.                                *)

MulColumns(a, b) ==
  Element(a.l0 * b.l0 + (a.l1 * 19) * b.l4 + (a.l2 * 19) * b.l3 + (a.l3 * 19) * b.l2 + (a.l4 * 19) * b.l1,
          a.l0 * b.l1 + a.l1 * b.l0 + (a.l2 * 19) * b.l4 + (a.l3 * 19) * b.l3 + (a.l4 * 19) * b.l2,
          a.l0 * b.l2 + a.l1 * b.l1 + a.l2 * b.l0 + (a.l3 * 19) * b.l4 + (a.l4 * 19) * b.l3,
          a.l0 * b.l3 + a.l1 * b.l2 + a.l2 * b.l1 + a.l3 * b.l0 + (a.l4 * 19) * b.l4,
          a.l0 * b.l4 + a.l1 * b.l3 + a.l2 * b.l2 + a.l3 * b.l1 + a.l4 * b.l0)

(* Faulty: the term of l3 twice is not brought down.                       *)
SquareColumnsWithout19(a) ==
  Element(a.l0 * a.l0 + (a.l1 * 38) * a.l4 + (a.l2 * 38) * a.l3,
          (a.l0 * 2) * a.l1 + (a.l2 * 38) * a.l4 + a.l3 * a.l3,
          (a.l0 * 2) * a.l2 + a.l1 * a.l1 + (a.l3 * 38) * a.l4,
          (a.l0 * 2) * a.l3 + (a.l1 * 2) * a.l2 + (a.l4 * 19) * a.l4,
          (a.l0 * 2) * a.l4 + (a.l1 * 2) * a.l3 + a.l2 * a.l2)

SquareColumns(a) ==
  Element(a.l0 * a.l0 + (a.l1 * 38) * a.l4 + (a.l2 * 38) * a.l3,
          (a.l0 * 2) * a.l1 + (a.l2 * 38) * a.l4 + (a.l3 * 19) * a.l3,
          (a.l0 * 2) * a.l2 + a.l1 * a.l1 + (a.l3 * 38) * a.l4,
          (a.l0 * 2) * a.l3 + (a.l1 * 2) * a.l2 + (a.l4 * 19) * a.l4,
          (a.l0 * 2) * a.l4 + (a.l1 * 2) * a.l3 + a.l2 * a.l2)

feMul(a, b) == carryPropagate(carryPropagate(MulColumns(a, b)))
feSquare(a) == carryPropagate(carryPropagate(SquareColumns(a)))
=============================================================================
