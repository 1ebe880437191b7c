------------------------------- MODULE QrCode -------------------------------
(***************************************************************************)
(* The pairing code on the screen (qr.go): the random name and password,   *)
(* the QR encoder (version 5, level L, byte mode, mask 0) and where PNG    *)
(* and SVG draw it.  A byte is the set of its bits that are 1, a module of the    *)
(* symbol is <<x, y>>, and a matrix is a function to "is dark".            *)
(***************************************************************************)
EXTENDS Integers, Sequences, SequencesExt

QrSize == 37
DataCodewords == 108
EccCodewords == 26

Xor(a, b) == (a \ b) \cup (b \ a)
BitAt(i, n) == (n \div 2^i) % 2 = 1
Abs(n) == IF n < 0 THEN -n ELSE n

(* The alphabets of NewQRSession have 62 and 86 letters; a byte at or over *)
(* limit is thrown away.                                                   *)
randomText(alphabet, bytes) ==
  LET limit == 256 - (256 % alphabet)
      kept == SelectSeq(bytes, LAMBDA v : v < limit)
  IN [k \in 1 .. Len(kept) |-> kept[k] % alphabet]

----------------------------------------------------------------------------
(* Reed-Solomon over GF(256).                                              *)

Twice(z) == LET s == {i + 1 : i \in z} IN IF 8 \in s THEN Xor(s, {0, 2, 3, 4, 8}) ELSE s

qrGFMultiply(x, y) ==
  LET z[i \in 0 .. 8] == IF i = 0 THEN {}
                         ELSE LET d == Twice(z[i - 1]) IN IF 8 - i \in y THEN Xor(d, x) ELSE d
  IN z[8]

qrRSDivisor(degree) ==
  LET Step(s, i) ==
        [root |-> qrGFMultiply(s.root, {1}),
         res |-> [j \in 1 .. degree |->
                    Xor(qrGFMultiply(s.res[j], s.root), IF j < degree THEN s.res[j + 1] ELSE {})]]
      start == [root |-> {0}, res |-> [j \in 1 .. degree |-> IF j = degree THEN {0} ELSE {}]]
  IN FoldLeft(Step, start, [i \in 1 .. degree |-> i]).res

(* The loop of qrRSRemainder over data, one byte at a time.                 *)
NoRemainder == [i \in 1 .. EccCodewords |-> {}]
qrRSRemainder(res, b, divisor) ==
  LET n == Len(divisor)
      factor == Xor(b, res[1])
  IN [i \in 1 .. n |-> Xor(IF i < n THEN res[i + 1] ELSE {}, qrGFMultiply(divisor[i], factor))]

Divisor == qrRSDivisor(EccCodewords)

----------------------------------------------------------------------------
(* From the payload to codewords.                                          *)

appendBits(v, n) == [i \in 1 .. n |-> BitAt(n - i, v)]
Falses(n) == [i \in 1 .. n |-> FALSE]

Segment(data) ==
  LET bits == appendBits(4, 4) \o appendBits(Len(data), 8)
                \o [i \in 1 .. 8 * Len(data) |-> BitAt((-i) % 8, data[((i - 1) \div 8) + 1])]
      room == DataCodewords * 8 - Len(bits)
      ended == bits \o Falses(IF room < 4 THEN room ELSE 4)
  IN ended \o Falses((-Len(ended)) % 8)

dataCodewords(data) ==
  LET bits == Segment(data)
      n == Len(bits) \div 8
  IN [i \in 1 .. DataCodewords |->
        IF i <= n THEN {k \in 0 .. 7 : bits[8 * i - k]}
        ELSE IF (i - n) % 2 = 1 THEN {2, 3, 5, 6, 7} ELSE {0, 4}]

----------------------------------------------------------------------------
(* Function patterns.                                                      *)

Square(cx, cy, r) == ((cx - r) .. (cx + r)) \X ((cy - r) .. (cy + r))
Ring(m, cx, cy) ==
  LET dx == Abs(m[1] - cx)  dy == Abs(m[2] - cy) IN IF dx > dy THEN dx ELSE dy
Symbol == (0 .. QrSize - 1) \X (0 .. QrSize - 1)

Finder(cx, cy) ==
  [m \in Square(cx, cy, 4) \cap Symbol |-> Ring(m, cx, cy) \notin {2, 4}]

Timing ==
  [m \in ({6} \X (8 .. QrSize - 9)) \cup ((8 .. QrSize - 9) \X {6}) |-> (m[1] + m[2]) % 2 = 0]

Alignment == [m \in Square(30, 30, 2) |-> Ring(m, 30, 30) # 1]

(* The remainder of the division by 0x537, and the mask 0x5412.            *)
qrFormatBits(ecl, mask) ==
  LET data == {i \in 0 .. 4 : BitAt(i, 8 * ecl + mask)}
      rem[i \in 0 .. 10] ==
        IF i = 0 THEN data
        ELSE LET s == {b + 1 : b \in rem[i - 1]}
             IN IF 9 \in rem[i - 1] THEN Xor(s, {0, 1, 2, 4, 5, 8, 10}) ELSE s
  IN Xor({b + 10 : b \in data} \cup rem[10], {1, 4, 10, 12, 14})

Format ==
  LET bits == qrFormatBits(1, 0)
      First(i) == IF i <= 5 THEN <<8, i>> ELSE IF i <= 7 THEN <<8, i + 1>>
                  ELSE IF i = 8 THEN <<7, 8>> ELSE <<14 - i, 8>>
      Second(i) == IF i < 8 THEN <<QrSize - 1 - i, 8>> ELSE <<8, QrSize - 15 + i>>
  IN [m \in {First(i) : i \in 0 .. 14} |-> \E i \in bits : First(i) = m]
       @@ [m \in {Second(i) : i \in 0 .. 14} |-> \E i \in bits : Second(i) = m]

FunctionModules ==
  (<<8, QrSize - 8>> :> TRUE) @@ Format @@ Alignment @@ Timing
    @@ Finder(3, QrSize - 4) @@ Finder(QrSize - 4, 3) @@ Finder(3, 3)

----------------------------------------------------------------------------
(* The zigzag: pairs of columns from the right, without column 6, up and   *)
(* down in turn.                                                           *)

Right[k \in 0 .. 17] ==
  IF k = 0 THEN QrSize - 1
  ELSE LET right == Right[k - 1] - 2 IN IF right = 6 THEN 5 ELSE right

Zigzag(n) ==                                    \* n counts from 0
  LET right == Right[n \div (2 * QrSize)]
      vert == (n % (2 * QrSize)) \div 2
  IN <<right - (n % 2), IF ~BitAt(1, right + 1) THEN QrSize - 1 - vert ELSE vert>>

DataModules ==
  SelectSeq([n \in 1 .. 36 * QrSize |-> Zigzag(n - 1)],
            LAMBDA m : m \notin DOMAIN FunctionModules)

ModuleIndex ==
  [m \in ToSet(DataModules) |-> CHOOSE i \in DOMAIN DataModules : DataModules[i] = m]

(* Faulty: the bits of a codeword are placed from the lowest.              *)
getLowBit(codewords, i) ==
  i < Len(codewords) * 8 /\ i % 8 \in codewords[(i \div 8) + 1]

(* The modules that are left over after the last codeword are light.       *)
getBit(codewords, i) ==
  i < Len(codewords) * 8 /\ 7 - (i % 8) \in codewords[(i \div 8) + 1]

TooLong(data) == Len(data) > 106                \* an error: no matrix

Matrix(codewords) ==
  FunctionModules @@
    [m \in DOMAIN ModuleIndex |->
       getBit(codewords, ModuleIndex[m] - 1) # ((m[1] + m[2]) % 2 = 0)]

----------------------------------------------------------------------------
(* PNG and SVG: the pixel <<px, py>> of an image of this size, and the     *)
(* upper left corner of a module in units of SVG.                          *)

Quiet == 4
ImageSize(size) == LET s == IF size <= 0 THEN 512 ELSE size IN IF s < 45 THEN 45 ELSE s
Scale(size) == LET s == size \div (QrSize + 2 * Quiet) IN IF s < 1 THEN 1 ELSE s
Offset(size) ==
  (size - (QrSize + 2 * Quiet) * Scale(size)) \div 2 + Quiet * Scale(size)

(* Where the rectangle of a module starts in an image of size pixels.      *)
Drawn(size, m) == <<Offset(size) + m[1] * Scale(size), Offset(size) + m[2] * Scale(size)>>

SVG(moduleSize, m) ==
  LET s == IF moduleSize <= 0 THEN 8 ELSE moduleSize
  IN <<(m[1] + Quiet) * s, (m[2] + Quiet) * s, s, (QrSize + 2 * Quiet) * s>>
=============================================================================
