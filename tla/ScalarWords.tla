----------------------------- MODULE ScalarWords -----------------------------
(***************************************************************************)
(* The scalars of SPAKE2 (internal/edwards25519/scalar.go and its          *)
(* scalar_fiat.go): integers mod the order of the group, in Montgomery's   *)
(* form.  A number is four words, the lowest first; the code's words have  *)
(* 64 bits and its modulus is <<m0, m1, 0, 2^60>>, of which words of four  *)
(* bits keep the shape.                                                    *)
(***************************************************************************)
EXTENDS Integers, Sequences

CONSTANTS
  W,                    \* how many values a word has: 2^64
  M0, M1, M3,           \* the modulus
  MInverse,             \* - 1 / M0 mod W: 0xd2b51da312547e1b
  ShortSize             \* what a third of a uniform string can be: 2^168

ModulusValue == M0 + W * (M1 + W * W * M3)

ASSUME WordsAssumption ==
  /\ W \in Nat \ {0, 1} /\ {M0, M1, M3, MInverse} \subseteq 0 .. W - 1
  /\ (M0 * MInverse + 1) % W = 0
  /\ ShortSize \in Nat /\ 2 * ShortSize <= ModulusValue

Modulus == <<M0, M1, 0, M3>>
NumberOf(ws) == ws[1] + W * (ws[2] + W * (ws[3] + W * ws[4]))
WordsOf(n) ==
  LET n2 == n \div W  n3 == n2 \div W  n4 == n3 \div W
  IN <<n % W, n2 % W, n3 % W, n4 % W>>
Radix == W * W * W * W                          \* Montgomery's: 2^256
Zero == <<0, 0, 0, 0>>

(* bits.Mul64                                                              *)
Low(x, y) == (x * y) % W
High(x, y) == (x * y) \div W

(* Chains of bits.Add64 and bits.Sub64: the words and the last carry.      *)
Add64(u, v) ==
  LET carry[i \in 0 .. Len(u)] ==
        IF i = 0 THEN 0 ELSE (u[i] + v[i] + carry[i - 1]) \div W
  IN [words |-> [i \in 1 .. Len(u) |-> (u[i] + v[i] + carry[i - 1]) % W], carry |-> carry[Len(u)]]

Sub64(u, v) ==
  LET borrow[i \in 0 .. Len(u)] ==
        IF i = 0 THEN 0 ELSE IF u[i] < v[i] + borrow[i - 1] THEN 1 ELSE 0
  IN [words |-> [i \in 1 .. Len(u) |-> (u[i] - v[i] - borrow[i - 1]) % W], borrow |-> borrow[Len(u)]]

----------------------------------------------------------------------------
(* Word by word: a row x * v of five words.                                *)
Row(x, v) ==
  LET middle == Add64([i \in 1 .. 3 |-> High(x, v[i])], [i \in 1 .. 3 |-> Low(x, v[i + 1])])
      w == middle.words
  IN <<Low(x, v[1]), w[1], w[2], w[3], middle.carry + High(x, v[4])>>

(* k * Modulus, of which a word is 0.                                      *)
ModulusRow(k) ==
  LET second == Add64(<<High(k, M0)>>, <<Low(k, M1)>>)
  IN <<Low(k, M0), second.words[1], second.carry + High(k, M1), Low(k, M3), High(k, M3)>>

(* Adds a row, then the multiple of the modulus that makes the low word 0, *)
(* and drops that word.                                                    *)
MontgomeryStep(t, row) ==
  LET sum == Add64(t, row)
      reduced == Add64(sum.words, ModulusRow(Low(sum.words[1], MInverse)))
      w == reduced.words
  IN <<w[2], w[3], w[4], w[5], reduced.carry + sum.carry>>

(* Less the modulus, unless that borrows.                                  *)
SubtractModulus(t) ==
  LET d == Sub64(t, <<M0, M1, 0, M3, 0>>)
      w == IF d.borrow = 1 THEN t ELSE d.words
  IN <<w[1], w[2], w[3], w[4]>>

Montgomery(rows) ==
  LET t[i \in 0 .. 4] == IF i = 0 THEN <<0, 0, 0, 0, 0>> ELSE MontgomeryStep(t[i - 1], rows[i])
  IN SubtractModulus(t[4])

fiatScalarMul(a, b) == Montgomery([i \in 1 .. 4 |-> Row(a[i], b)])
fiatScalarFromMontgomery(a) == Montgomery([i \in 1 .. 4 |-> <<a[i], 0, 0, 0, 0>>])

(* The code's constant is 2^512 mod the order.                             *)
RSquared == WordsOf(((Radix % ModulusValue) * (Radix % ModulusValue)) % ModulusValue)
fiatScalarToMontgomery(a) == Montgomery([i \in 1 .. 4 |-> Row(a[i], RSquared)])

fiatScalarAdd(a, b) ==
  LET s == Add64(a, b)
      w == s.words
  IN SubtractModulus(<<w[1], w[2], w[3], w[4], s.carry>>)

fiatScalarSub(a, b) ==
  LET d == Sub64(a, b) IN Add64(d.words, IF d.borrow = 1 THEN Modulus ELSE Zero).words

fiatScalarOpp(a) == fiatScalarSub(Zero, a)

----------------------------------------------------------------------------
(* Scalars.                                                                *)

setShortBytes(n) == fiatScalarToMontgomery(WordsOf(n))

(* The code has the Montgomery forms of ShortSize and its square as        *)
(* constants, scalarTwo168 and scalarTwo336.                               *)
scalarTwo168 == WordsOf((ShortSize * (Radix % ModulusValue)) % ModulusValue)
scalarTwo336 == WordsOf((ShortSize * NumberOf(scalarTwo168)) % ModulusValue)

(* x is a + b * ShortSize + c * ShortSize^2.                               *)
SetUniformBytes(a, b, c) ==
  fiatScalarAdd(fiatScalarAdd(setShortBytes(a), fiatScalarMul(setShortBytes(b), scalarTwo168)),
                fiatScalarMul(setShortBytes(c), scalarTwo336))

(* Words of 64 bits and 32 bytes, each the set of its bits that are 1.     *)
fiatScalarToBytes(ws) ==
  [n \in 0 .. 31 |-> {b \in 0 .. 7 : 8 * (n % 8) + b \in ws[(n \div 8) + 1]}]
fiatScalarFromBytes(bytes) ==
  [i \in 1 .. 4 |-> UNION {{b + 8 * n : b \in bytes[8 * (i - 1) + n]} : n \in 0 .. 7}]
=============================================================================
