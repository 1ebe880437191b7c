------------------------------ MODULE QrReader ------------------------------
(***************************************************************************)
(* What a camera makes of a symbol, written from the structure of a QR     *)
(* code of version 5 and not from the encoder: the fixed patterns row by   *)
(* row, the modules that are left in the order of the standard, the        *)
(* syndromes of the code and the byte-mode segment.  A matrix is a         *)
(* function from <<x, y>> to "is dark", a byte the set of its bits.        *)
(***************************************************************************)
EXTENDS Integers, Sequences, FiniteSets

LOCAL Edge == 36

----------------------------------------------------------------------------
(* Fixed patterns, as the dark columns of each row.                        *)

FinderRows ==
  <<0 .. 6, {0, 6}, {0, 2, 3, 4, 6}, {0, 2, 3, 4, 6}, {0, 2, 3, 4, 6}, {0, 6}, 0 .. 6>>
AlignmentRows == <<0 .. 4, {0, 4}, {0, 2, 4}, {0, 4}, 0 .. 4>>

Shows(m, rows, x0, y0) ==
  \A dy \in 0 .. Len(rows) - 1, dx \in 0 .. Len(rows) - 1 :
    m[<<x0 + dx, y0 + dy>>] <=> dx \in rows[dy + 1]

Separators ==
  {<<7, k>> : k \in 0 .. 7} \cup {<<k, 7>> : k \in 0 .. 7}
    \cup {<<Edge - 7, k>> : k \in 0 .. 7} \cup {<<Edge - k, 7>> : k \in 0 .. 7}
    \cup {<<7, Edge - k>> : k \in 0 .. 7} \cup {<<k, Edge - 7>> : k \in 0 .. 7}

HasPatterns(m) ==
  /\ DOMAIN m = (0 .. Edge) \X (0 .. Edge)
  /\ Shows(m, FinderRows, 0, 0) /\ Shows(m, FinderRows, 30, 0) /\ Shows(m, FinderRows, 0, 30)
  /\ Shows(m, AlignmentRows, 28, 28)
  /\ \A p \in Separators : ~m[p]
  /\ \A k \in 8 .. 28 : (m[<<k, 6>>] <=> (k % 2 = 0)) /\ (m[<<6, k>>] <=> (k % 2 = 0))
  /\ m[<<8, 29>>]

(* Level L with mask 0 is 111011111000100, most significant bit first, in  *)
(* both places.                                                            *)
FormatPlaces ==
  <<<<0, 8>>, <<1, 8>>, <<2, 8>>, <<3, 8>>, <<4, 8>>, <<5, 8>>, <<7, 8>>, <<8, 8>>, <<8, 7>>,
    <<8, 5>>, <<8, 4>>, <<8, 3>>, <<8, 2>>, <<8, 1>>, <<8, 0>>>>
SecondPlaces ==
  [i \in 1 .. 15 |-> IF i <= 7 THEN <<8, Edge + 1 - i>> ELSE <<Edge - 15 + i, 8>>]

HasFormat(m) ==
  \A i \in 1 .. 15 : /\ m[FormatPlaces[i]] <=> i \in {1, 2, 3, 5, 6, 7, 8, 9, 13}
                     /\ m[SecondPlaces[i]] <=> m[FormatPlaces[i]]

----------------------------------------------------------------------------
(* The other modules, in pairs of columns from the right.                  *)

IsFixed(x, y) ==
  \/ (x <= 8 /\ y <= 8) \/ (x >= 29 /\ y <= 8) \/ (x <= 8 /\ y >= 29)
  \/ x = 6 \/ y = 6
  \/ x \in 28 .. 32 /\ y \in 28 .. 32

Pair(k) == IF k < 15 THEN Edge - 2 * k ELSE Edge - 2 * k - 1
PairUp(k) == k % 2 = 0
Visited(n) ==                            \* of the 18 * 74 places, the nth
  LET k == n \div 74
      row == (n % 74) \div 2
  IN <<Pair(k) - (n % 2), IF PairUp(k) THEN Edge - row ELSE row>>

Places == SelectSeq([n \in 1 .. 18 * 74 |-> Visited(n - 1)], LAMBDA p : ~IsFixed(p[1], p[2]))

(* A bit is 1 if its module differs from the checkerboard of mask 0.       *)
IsOne(m, p) == ~(m[p] <=> ((p[1] + p[2]) % 2 = 0))
CodewordsIn(m) ==
  [i \in 1 .. 134 |-> {k \in 0 .. 7 : IsOne(m, Places[8 * i - k])}]

----------------------------------------------------------------------------
(* GF(256): the powers of x up to 14, then x^n by halves.                  *)

PowersOfX ==
  <<{0}, {1}, {2}, {3}, {4}, {5}, {6}, {7}, {0, 2, 3, 4}, {1, 3, 4, 5}, {2, 4, 5, 6}, {3, 5, 6, 7},
    {0, 2, 3, 6, 7}, {0, 1, 2, 7}, {0, 1, 4}>>
Product(a, b) ==
  {t \in 0 .. 7 : Cardinality({ij \in a \X b : t \in PowersOfX[ij[1] + ij[2] + 1]}) % 2 = 1}
PowerOfX[n \in 0 .. 254] ==
  IF n < 8 THEN {n} ELSE Product(PowerOfX[n \div 2], PowerOfX[n - n \div 2])
Alpha == [n \in 0 .. 254 |-> PowerOfX[n]]

(* All 26 syndromes of the 134 codewords are 0.                            *)
NoSyndrome(codewords) ==
  LET ones == {ib \in (1 .. 134) \X (0 .. 7) : ib[2] \in codewords[ib[1]]}
  IN \A j \in 0 .. 25 : \A t \in 0 .. 7 :
       Cardinality({ib \in ones : t \in Alpha[(ib[2] + j * (134 - ib[1])) % 255]}) % 2 = 0

----------------------------------------------------------------------------
(* The segment: mode 0100, a count of 8 bits, the bytes, a terminator, and *)
(* 236 and 17 in turn.                                                     *)

IsSegment(codewords, data) ==
  LET bit(n) == (7 - (n % 8)) \in codewords[(n \div 8) + 1]
      number(from, width) ==
        LET n[k \in 0 .. width] == IF k = 0 THEN 0 ELSE 2 * n[k - 1] + IF bit(from + k - 1) THEN 1 ELSE 0
        IN n[width]
  IN /\ number(0, 4) = 4 /\ number(4, 8) = Len(data)
     /\ \A i \in 1 .. Len(data) : number(4 + 8 * i, 8) = data[i]
     /\ number(12 + 8 * Len(data), 4) = 0
     /\ \A i \in Len(data) + 3 .. 108 :
          number(8 * (i - 1), 8) = IF (i - Len(data)) % 2 = 1 THEN 236 ELSE 17

Reads(m, data) ==
  LET codewords == CodewordsIn(m)
  IN /\ HasPatterns(m) /\ HasFormat(m)
     /\ NoSyndrome(codewords) /\ IsSegment(codewords, data)
     /\ \A i \in 1073 .. Len(Places) : ~IsOne(m, Places[i])
=============================================================================
