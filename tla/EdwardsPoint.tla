---------------------------- MODULE EdwardsPoint ----------------------------
(***************************************************************************)
(* Points of the curve - x^2 + y^2 = 1 + d x^2 y^2 over a prime field, as  *)
(* SPAKE2 uses them (internal/edwards25519/edwards25519.go): additions in  *)
(* extended coordinates, and the encoding of a point as y and the sign of  *)
(* x.  FieldElement is about the field; here its elements are integers.    *)
(***************************************************************************)
EXTENDS Integers

CONSTANTS
  Prime,                \* 2^255 - 19; it is 5 mod 8
  CurveD,               \* d, which is no square
  SignBit               \* the weight of the bit above a field element: 2^255

ASSUME CurveAssumption ==
  /\ Prime \in Nat /\ Prime % 8 = 5 /\ SignBit \in Nat /\ SignBit >= Prime
  /\ CurveD \in 0 .. Prime - 1 /\ ~ \E r \in 0 .. Prime - 1 : (r * r) % Prime = CurveD

Multiply(a, b) == (a * b) % Prime
Negate(a) == (-a) % Prime
Power(a, n) ==
  LET power[k \in 0 .. n] ==
        IF k = 0 THEN 1
        ELSE LET half == power[k \div 2]  square == Multiply(half, half)
             IN IF k % 2 = 0 THEN square ELSE Multiply(a, square)
  IN power[n]

InverseOf(a) == Power(a, Prime - 2)
IsNegative(a) == a % 2 = 1
sqrtM1 == Power(2, (Prime - 1) \div 4)

(* All but 0 have inverses, which makes Prime one; and sqrtM1 is a square  *)
(* root of -1, as Euler's criterion says (fe.go:389).                      *)
ASSUME FieldAssumption ==
  /\ \A a \in 1 .. Prime - 1 : Multiply(a, InverseOf(a)) = 1
  /\ Multiply(sqrtM1, sqrtM1) = Prime - 1

(* The square root of u / v that is not negative; isSquare says if it is.  *)
SqrtRatio(u, v) ==
  LET v2 == Multiply(v, v)
      uv3 == Multiply(u, Multiply(v2, v))
      uv7 == Multiply(uv3, Multiply(v2, v2))
      rr == Multiply(uv3, Power(uv7, (Prime - 5) \div 8))
      check == Multiply(v, Multiply(rr, rr))
      correct == check = u
      flipped == check = Negate(u)
      flippedI == check = Multiply(Negate(u), sqrtM1)
      r == IF flipped \/ flippedI THEN Multiply(sqrtM1, rr) ELSE rr
  IN [root |-> IF IsNegative(r) THEN Negate(r) ELSE r, isSquare |-> correct \/ flipped]

----------------------------------------------------------------------------
Point(x, y, z, t) == [x |-> x, y |-> y, z |-> z, t |-> t]
Identity == Point(0, 1, 1, 0)

fromP1xP1(p) ==
  Point(Multiply(p.x, p.t), Multiply(p.y, p.z), Multiply(p.z, p.t), Multiply(p.x, p.y))

(* projCached.FromP3                                                       *)
Cached(p) ==
  [YplusX |-> (p.y + p.x) % Prime, YminusX |-> (p.y - p.x) % Prime,
   Z |-> p.z, T2d |-> Multiply(p.t, 2 * CurveD)]

(* projP1xP1.Add; with the cached point negated it is projP1xP1.Sub.       *)
AddCached(p, q) ==
  LET PP == Multiply(p.y + p.x, q.YplusX)
      MM == Multiply((p.y - p.x) % Prime, q.YminusX)
      TT2d == Multiply(p.t, q.T2d)
      ZZ2 == 2 * Multiply(p.z, q.Z)
  IN Point((PP - MM) % Prime, (PP + MM) % Prime, (ZZ2 + TT2d) % Prime, (ZZ2 - TT2d) % Prime)

SubCached(p, q) ==
  AddCached(p, [q EXCEPT !.YplusX = q.YminusX, !.YminusX = q.YplusX, !.T2d = Negate(q.T2d)])

AddPoints(p, q) == fromP1xP1(AddCached(p, Cached(q)))
SubtractPoints(p, q) == fromP1xP1(SubCached(p, Cached(q)))

----------------------------------------------------------------------------
PointBytes(p) ==
  LET zInv == InverseOf(p.z)
      x == Multiply(p.x, zInv)
  IN Multiply(p.y, zInv) + (IF IsNegative(x) THEN SignBit ELSE 0)

NotAPoint == [z |-> 0]          \* the error

SetPointBytes(bytes) ==
  LET y == (bytes % SignBit) % Prime
      y2 == Multiply(y, y)
      u == (y2 - 1) % Prime
      vv == (Multiply(y2, CurveD) + 1) % Prime
      xx == SqrtRatio(u, vv)
      x == IF bytes >= SignBit THEN Negate(xx.root) ELSE xx.root
  IN IF ~xx.isSquare THEN NotAPoint ELSE Point(x, y, 1, Multiply(x, y))
=============================================================================
