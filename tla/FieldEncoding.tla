---------------------------- MODULE FieldEncoding ----------------------------
(***************************************************************************)
(* What of the field is about bits, at the size it has: the 32 bytes of an *)
(* element, and the exponents of its two chains of squarings.  A number is *)
(* the set of its bits that are 1; byte n of an encoding has the bits      *)
(* 8 * n .. 8 * n + 7.                                                     *)
(***************************************************************************)
EXTENDS Integers

(* The 64 bits read from a byte on, shifted right, and masked to 51.       *)
Limb(x, byte, shift) ==
  {k \in 0 .. 50 : k + shift < 64 /\ 8 * byte + shift + k \in x}

feSetBytes(x) ==
  <<Limb(x, 0, 0), Limb(x, 6, 3), Limb(x, 12, 6), Limb(x, 19, 1), Limb(x, 24, 12)>>

(* The 64 bits of a limb, shifted left, from the byte it starts in on.     *)
LimbBytes(limb, i) ==
  LET bitsOffset == 51 * i
      word == {k + (bitsOffset % 8) : k \in limb} \cap (0 .. 63)
  IN {8 * (bitsOffset \div 8) + k : k \in word} \cap (0 .. 255)

(* The encoding of limbs that reduce has brought below 2^51.               *)
feBytes(limbs) == UNION {LimbBytes(limbs[i + 1], i) : i \in 0 .. 4}

----------------------------------------------------------------------------
(* z to the power of an exponent: squaring shifts it, multiplying adds.    *)
(* No sum of these chains has a carry: {} would show one.                  *)

Squared(e, n) == {b + n : b \in e}
Multiplied(e, f) == IF e \cap f = {} THEN e \cup f ELSE {}

(* The steps from z^31 to z^(2^250 - 1) are the same in both chains.       *)
Doubled(e, n) == Multiplied(Squared(e, n), e)
Chain250(z2_5_0) ==
  LET z2_10_0 == Doubled(z2_5_0, 5)
      z2_20_0 == Doubled(z2_10_0, 10)
      z2_40_0 == Doubled(z2_20_0, 20)
      z2_50_0 == Multiplied(Squared(z2_40_0, 10), z2_10_0)
      z2_100_0 == Doubled(z2_50_0, 50)
      z2_200_0 == Doubled(z2_100_0, 100)
  IN Multiplied(Squared(z2_200_0, 50), z2_50_0)

Invert ==
  LET z == {0}
      z2 == Squared(z, 1)
      z9 == Multiplied(Squared(z2, 2), z)
      z11 == Multiplied(z9, z2)
      z2_5_0 == Multiplied(Squared(z11, 1), z9)
  IN Multiplied(Squared(Chain250(z2_5_0), 5), z11)

Pow22523 ==
  LET x == {0}
      x9 == Multiplied(x, Squared(x, 3))
      x11 == Multiplied(Squared(x, 1), x9)
      x31 == Multiplied(x9, Squared(x11, 1))
  IN Multiplied(Squared(Chain250(x31), 2), x)
=============================================================================
