-------------------------- MODULE AlgorithmProofs ---------------------------
(***************************************************************************)
(* The curve of internal/edwards25519, over every prime field: that it is  *)
(* a group, that the operations on points are those of the group, and that *)
(* two ends of spake2.go meet.  Then the names of mdns.go: what a decoder  *)
(* finds in any bytes, and that it gives back what an encoder took.  Last, *)
(* that every result of Algorithms' runs is right.                         *)
(***************************************************************************)
EXTENDS ArithmeticProofs

----------------------------------------------------------------------------
(* The integer that passwordScalarHack multiplies a mask by is a multiple  *)
(* of 8, so that nothing of the mask's small-order part is left, equals    *)
(* the password's hash modulo the order, and fits in 256 bits, for every   *)
(* odd order (spake2.go:143-155).                                          *)
THEOREM PasswordIsScaled ==
  ASSUME NEW n \in 0 .. curveOrder - 1
  PROVE  /\ passwordScalarHack(n) \in 0 .. 8 * curveOrder - 1
         /\ passwordScalarHack(n) % 8 = 0 /\ passwordScalarHack(n) % curveOrder = n
<1> DEFINE L == curveOrder
           a == IF n % 2 = 1 THEN n + L ELSE n
           b == IF (a \div 2) % 2 = 1 THEN a + 2 * L ELSE a
           c == IF (b \div 4) % 2 = 1 THEN b + 4 * L ELSE b
<1>1. L \in Nat /\ L % 2 = 1 /\ n \in Nat /\ n < L
  BY SpakeAssumption
<1>2. passwordScalarHack(n) = c
  BY DEF passwordScalarHack
<1> HIDE DEF L
<1>3. \E i \in 0 .. 1 : a = n + L * i
  <2>1. a = n + L * 1 \/ a = n + L * 0
    BY <1>1
  <2> QED BY <2>1
<1>4. a \in Nat /\ a % 2 = 0
  BY <1>1
<1> HIDE DEF a
<1>5. \E i \in 0 .. 3 : b = n + L * i
  <2>1. PICK i \in 0 .. 1 : a = n + L * i
    BY <1>3
  <2>2. b = n + L * i \/ b = n + L * (i + 2)
    BY <1>1, <2>1
  <2> QED BY <2>2
<1>6. b \in Nat /\ b % 4 = 0
  BY <1>1, <1>4
<1> HIDE DEF b
<1>7. \E i \in 0 .. 7 : c = n + L * i
  <2>1. PICK i \in 0 .. 3 : b = n + L * i
    BY <1>5
  <2>2. c = n + L * i \/ c = n + L * (i + 4)
    BY <1>1, <2>1
  <2> QED BY <2>2
<1>8. c \in Nat /\ c % 8 = 0
  BY <1>1, <1>6
<1> HIDE DEF c
<1>9. PICK i \in 0 .. 7 : c = n + L * i
  BY <1>7
<1>10. L * i <= L * 7
  BY <1>1
<1>11. c < 8 * L
  BY <1>1, <1>9, <1>10
<1>12. c % L = n
  <2>1. Same(c, n, L)
    BY <1>9 DEF Same
  <2>2. L >= 1 /\ c \in Int /\ n \in 0 .. L - 1
    BY <1>1, <1>8
  <2> QED BY <1>1, <2>1, <2>2, SameRemainder
<1>13. c \in 0 .. 8 * L - 1
  BY <1>1, <1>8, <1>11
<1> QED BY <1>2, <1>8, <1>12, <1>13 DEF L

(* Of whatever size an image is asked for, the symbol has modules of one   *)
(* size, lies inside the image and keeps its quiet zone (qr.go:48-105).    *)
THEOREM QuietZoneIsKept ==
  ASSUME NEW n \in Int
  PROVE  HasQuietZone([size |-> ImageSize(n), png |-> [c \in Corners |-> Drawn(ImageSize(n), c)],
                       svg |-> [c \in Corners |-> SVG(n, c)]])
<1> DEFINE size == ImageSize(n)  scale == Scale(size)  o == Offset(size)
           t == IF n <= 0 THEN 8 ELSE n
           image == [size |-> size, png |-> [c \in Corners |-> Drawn(size, c)],
                     svg |-> [c \in Corners |-> SVG(n, c)]]
<1>1. size \in Nat /\ size >= 45 /\ t \in Nat
  BY DEF ImageSize
<1>2. /\ image.png[<<0, 0>>] = <<o, o>>
      /\ image.png[<<QrSize, QrSize>>] = <<o + 37 * scale, o + 37 * scale>>
  <2>1. size \in Int /\ scale \in Int /\ o \in Int
    BY <1>1 DEF Scale, Offset, QrSize, Quiet
  <2> HIDE DEF size, scale, o
  <2>2. <<0, 0>> \in Corners /\ <<QrSize, QrSize>> \in Corners
    BY DEF Corners
  <2> QED BY <2>1, <2>2 DEF Drawn, QrSize, scale, o
<1>3. /\ image.svg[<<0, 0>>] = <<4 * t, 4 * t, t, 45 * t>>
      /\ image.svg[<<QrSize, QrSize>>] = <<41 * t, 41 * t, t, 45 * t>>
  <2> HIDE DEF size, scale, o
  <2> QED BY <1>1 DEF SVG, Quiet, QrSize, Corners
<1>4. image.size = size
  OBVIOUS
<1>5. /\ scale >= 1 /\ scale \in Nat /\ o \in Int
      /\ o >= 4 * scale /\ o + 41 * scale <= size
  <2>1. size \div 45 >= 1 /\ 45 * (size \div 45) <= size /\ size \div 45 \in Nat
    BY <1>1
  <2>2. scale = size \div 45
    BY <2>1 DEF Scale, QrSize, Quiet
  <2> HIDE DEF size
  <2>3. o = ((size - 45 * scale) \div 2) + 4 * scale
    BY DEF Offset, QrSize, Quiet
  <2> HIDE DEF scale, o
  <2>4. size - 45 * scale \in Nat
    BY <1>1, <2>1, <2>2
  <2>5. (size - 45 * scale) \div 2 >= 0 /\ (size - 45 * scale) \div 2 <= size - 45 * scale
        /\ (size - 45 * scale) \div 2 \in Int
    BY <2>4
  <2> QED BY <1>1, <2>1, <2>2, <2>3, <2>5
<1> HIDE DEF size, scale, o, t, image
<1>6. ((o + 37 * scale) - o) \div QrSize = scale
  BY <1>5 DEF QrSize
<1>7. \A i \in 1 .. 2 : /\ <<o, o>>[i] = o
                        /\ <<o + 37 * scale, o + 37 * scale>>[i] = o + 37 * scale
  OBVIOUS
<1>8. HasQuietZone(image)
  BY <1>1, <1>2, <1>3, <1>4, <1>5, <1>6, <1>7 DEF HasQuietZone, QrSize
<1> QED BY <1>8 DEF image, size

----------------------------------------------------------------------------
(* The field of the curve: integers that are equal modulo Prime.           *)
a \cong b == Same(a, b, Prime)
Field == 0 .. Prime - 1

(* Two and its like are in the field.                                      *)
LEMMA PrimeIsLarge == Prime \in Nat /\ Prime >= 5 /\ Prime % 2 = 1 /\ Field \subseteq Int /\ {0, 1} \subseteq Field
BY CurveAssumption DEF Field

(* A congruence of integers is one of their remainders, and sums,          *)
(* differences and products keep it.                                       *)
LEMMA CongMod ==
  ASSUME NEW x \in Int
  PROVE  x % Prime \in Field /\ (x % Prime) \cong x /\ x \cong x
<1>1. Prime \in Nat /\ Prime >= 1
  BY PrimeIsLarge
<1> QED BY <1>1, Remainder, SameItsRemainder DEF \cong, Field

LEMMA CongSymmetric ==
  ASSUME NEW x \in Int, NEW y \in Int, x \cong y
  PROVE  y \cong x
BY PrimeIsLarge, SameSymmetric DEF \cong

LEMMA CongTransitive ==
  ASSUME NEW x \in Int, NEW y \in Int, NEW z \in Int, x \cong y, y \cong z
  PROVE  x \cong z
BY PrimeIsLarge, SameTransitive DEF \cong

LEMMA CongSum ==
  ASSUME NEW x \in Int, NEW y \in Int, NEW u \in Int, NEW v \in Int, x \cong y, u \cong v
  PROVE  (x + u) \cong (y + v) /\ (x - u) \cong (y - v) /\ (x * u) \cong (y * v)
BY PrimeIsLarge, SameSum, SameProduct DEF \cong

LEMMA CongEqual ==
  ASSUME NEW x \in Field, NEW y \in Field, x \cong y
  PROVE  x = y
<1>1. Prime \in Nat /\ Prime >= 1 /\ x \in Int /\ y \in Int
  BY PrimeIsLarge
<1>2. x % Prime = y
  BY <1>1, SameRemainder DEF \cong, Field
<1>3. x % Prime = x
  BY <1>1 DEF Field
<1> QED BY <1>2, <1>3

LEMMA CongRemainder ==
  ASSUME NEW x \in Int, NEW y \in Int
  PROVE  x \cong y <=> x % Prime = y % Prime
<1>1. ASSUME x \cong y PROVE x % Prime = y % Prime
  <2>1. Prime \in Nat /\ Prime >= 1 /\ Same(x, y, Prime)
    BY <1>1, PrimeIsLarge DEF \cong
  <2> QED BY <2>1, SameMod, Zenon
<1>2. ASSUME x % Prime = y % Prime PROVE x \cong y
  <2>1. x % Prime \in Int /\ (x % Prime) \cong x /\ (x % Prime) \cong y
    BY <1>2, CongMod, PrimeIsLarge
  <2> QED BY <2>1, CongSymmetric, CongTransitive
<1> QED BY <1>1, <1>2

LEMMA Vanish ==
  ASSUME NEW x \in Int, NEW y \in Int, NEW a \in Int, NEW b \in Int, x \cong 0, y \cong 0
  PROVE  (a * x) \cong 0 /\ (a * x + b * y) \cong 0
<1>1. PICK j \in Int : x = 0 + Prime * j
  BY DEF \cong, Same
<1>2. PICK k \in Int : y = 0 + Prime * k
  BY DEF \cong, Same
<1>3. a * x = 0 + Prime * (a * j) /\ a * j \in Int
  BY <1>1, PrimeIsLarge
<1>4. a * x + b * y = 0 + Prime * (a * j + b * k) /\ a * j + b * k \in Int
  BY <1>1, <1>2, PrimeIsLarge
<1> QED BY <1>3, <1>4 DEF \cong, Same

LEMMA CongDifference ==
  ASSUME NEW x \in Int, NEW y \in Int
  PROVE  x \cong y <=> (x - y) \cong 0
<1>1. ASSUME NEW k \in Int PROVE x = y + Prime * k <=> x - y = 0 + Prime * k
  BY PrimeIsLarge
<1> QED BY <1>1 DEF \cong, Same

LEMMA MultiplyIs ==
  ASSUME NEW x \in Int, NEW y \in Int
  PROVE  Multiply(x, y) \in Field /\ Multiply(x, y) \cong (x * y)
BY CongMod DEF Multiply

LEMMA NegateIs ==
  ASSUME NEW x \in Int
  PROVE  Negate(x) \in Field /\ Negate(x) \cong (-x)
BY CongMod DEF Negate

(* A function applied n times: it has a value for every n.                 *)
Iterates(h, x, n) == CHOOSE f : f = [i \in 0 .. n |-> IF i = 0 THEN x ELSE h[f[i - 1]]]
Iterated(h, x, n) == Iterates(h, x, n)[n]

Stepwise(f, S, x, h, n) ==
  f \in [0 .. n -> S] /\ f[0] = x /\ \A i \in 1 .. n : f[i] = h[f[i - 1]]

LEMMA IteratesRun ==
  ASSUME NEW S, NEW x \in S, NEW h \in [S -> S], NEW n \in Nat
  PROVE  Stepwise(Iterates(h, x, n), S, x, h, n)
<1> DEFINE At(f, i) == IF i = 0 THEN x ELSE h[f[i - 1]]
           Fits(f) == f = [i \in 0 .. n |-> At(f, i)]
           g == [p \in (1 .. n) \X S |-> h[p[2]]]
           F == CHOOSE f : Fits(f)
<1>1. \E f : Fits(f)
  <2>1. g \in [(1 .. n) \X S -> S] /\ \A i \in 1 .. n, s \in S : g[<<i, s>>] = h[s]
    OBVIOUS
  <2> HIDE DEF g
  <2>2. PICK f : Runs(f, S, x, g, n)
    BY <2>1, RecursionRuns
  <2>3. f \in [0 .. n -> S] /\ f[0] = x
    BY <2>2 DEF Runs
  <2>4. \A i \in 1 .. n : f[i] = h[f[i - 1]]
    <3> SUFFICES ASSUME NEW i \in 1 .. n PROVE f[i] = h[f[i - 1]]
      OBVIOUS
    <3>1. f[i - 1] \in S /\ f[i] = g[<<i, f[i - 1]>>]
      BY <2>2, <2>3 DEF Runs
    <3> QED BY <2>1, <3>1
  <2>5. \A i \in 0 .. n : f[i] = At(f, i)
    BY <2>3, <2>4
  <2> HIDE DEF At
  <2>6. Fits(f)
    BY <2>3, <2>5
  <2> QED BY <2>6
<1>2. Fits(F)
  BY <1>1
<1>3. Iterates(h, x, n) = F
  BY DEF Iterates
<1> HIDE DEF F
<1>4. \A i \in 0 .. n : F[i] = At(F, i)
  <2> HIDE DEF At
  <2> QED BY <1>2
<1>5. F[0] = x /\ \A i \in 1 .. n : F[i] = h[F[i - 1]]
  BY <1>4
<1> DEFINE T == {m \in Nat : m <= n => F[m] \in S}
<1>6. 0 \in T
  BY <1>5
<1>7. ASSUME NEW m \in Nat, m \in T PROVE m + 1 \in T
  <2> SUFFICES ASSUME m + 1 <= n PROVE F[m + 1] \in S
    OBVIOUS
  <2>1. F[m] \in S /\ m + 1 \in 1 .. n /\ (m + 1) - 1 = m
    BY <1>7
  <2> QED BY <1>5, <2>1
<1> HIDE DEF T
<1>8. Nat \subseteq T
  BY <1>6, <1>7, SetInduction
<1>9. \A i \in 0 .. n : F[i] \in S
  BY <1>8 DEF T
<1>10. F = [i \in 0 .. n |-> F[i]]
  <2> HIDE DEF At
  <2> QED BY <1>2
<1>11. F \in [0 .. n -> S]
  BY <1>9, <1>10
<1> QED BY <1>3, <1>5, <1>11 DEF Stepwise

LEMMA IteratedNext ==
  ASSUME NEW S, NEW x \in S, NEW h \in [S -> S], NEW n \in Nat
  PROVE  /\ Iterated(h, x, n) \in S
         /\ Iterated(h, x, 0) = x
         /\ Iterated(h, x, n + 1) = h[Iterated(h, x, n)]
<1> DEFINE f == Iterates(h, x, n)  e == Iterates(h, x, n + 1)  z == Iterates(h, x, 0)
           T == {m \in Nat : m <= n => e[m] = f[m]}
<1>1. f \in [0 .. n -> S] /\ f[0] = x /\ \A i \in 1 .. n : f[i] = h[f[i - 1]]
  <2>1. Stepwise(f, S, x, h, n)
    BY IteratesRun, Zenon
  <2> QED BY <2>1, Zenon DEF Stepwise
<1>2. e \in [0 .. n + 1 -> S] /\ e[0] = x /\ \A i \in 1 .. n + 1 : e[i] = h[e[i - 1]]
  <2>1. n + 1 \in Nat
    OBVIOUS
  <2>2. Stepwise(e, S, x, h, n + 1)
    BY <2>1, IteratesRun, Zenon
  <2> QED BY <2>2, Zenon DEF Stepwise
<1>3. z[0] = x
  <2>1. 0 \in Nat
    OBVIOUS
  <2>2. Stepwise(z, S, x, h, 0)
    BY <2>1, IteratesRun, Zenon
  <2> QED BY <2>2, Zenon DEF Stepwise
<1> HIDE DEF f, e, z
<1>4. 0 \in T
  BY <1>1, <1>2
<1>5. ASSUME NEW m \in Nat, m \in T PROVE m + 1 \in T
  <2> SUFFICES ASSUME m + 1 <= n PROVE e[m + 1] = f[m + 1]
    OBVIOUS
  <2>1. e[m] = f[m] /\ m + 1 \in 1 .. n /\ m + 1 \in 1 .. n + 1 /\ (m + 1) - 1 = m
    BY <1>5
  <2>2. e[m + 1] = h[e[m]] /\ f[m + 1] = h[f[m]]
    BY <1>1, <1>2, <2>1
  <2> QED BY <2>1, <2>2
<1> HIDE DEF T
<1>6. Nat \subseteq T
  BY <1>4, <1>5, SetInduction
<1>7. e[n] = f[n]
  BY <1>6 DEF T
<1>8. e[n + 1] = h[e[n]]
  <2>1. n + 1 \in 1 .. n + 1 /\ (n + 1) - 1 = n
    OBVIOUS
  <2> QED BY <1>2, <2>1
<1>9. f[n] \in S
  BY <1>1
<1> QED BY <1>3, <1>7, <1>8, <1>9 DEF Iterated, f, e, z

(* Powers in the field, one factor at a time.                              *)
Times(a) == [x \in Field |-> Multiply(a, x)]
Pow(a, n) == Iterated(Times(a), 1, n)

LEMMA PowNext ==
  ASSUME NEW a \in Field, NEW n \in Nat
  PROVE  Pow(a, n) \in Field /\ Pow(a, 0) = 1 /\ Pow(a, n + 1) = Multiply(a, Pow(a, n))
<1>1. Times(a) \in [Field -> Field] /\ 1 \in Field
  BY MultiplyIs, PrimeIsLarge DEF Times
<1>2. /\ Pow(a, n) \in Field /\ Pow(a, 0) = 1
      /\ Pow(a, n + 1) = Times(a)[Pow(a, n)]
  BY <1>1, IteratedNext DEF Pow
<1> QED BY <1>2 DEF Times

(* a ^ (m + n) = a ^ m * a ^ n, and (a * a) ^ n = a ^ (2 * n).             *)
LEMMA PowSum ==
  ASSUME NEW a \in Field, NEW m \in Nat, NEW n \in Nat
  PROVE  Pow(a, m + n) \cong (Pow(a, m) * Pow(a, n))
<1> DEFINE T == {k \in Nat : Pow(a, k + n) \cong (Pow(a, k) * Pow(a, n))}
<1>1. \A k \in Nat : Pow(a, k) \in Int
  BY PowNext, PrimeIsLarge
<1>2. 0 \in T
  <2>1. Pow(a, 0) * Pow(a, n) = Pow(a, 0 + n)
    BY <1>1, PowNext
  <2> QED BY <1>1, <2>1, CongMod
<1>3. ASSUME NEW k \in Nat, k \in T PROVE k + 1 \in T
  <2> DEFINE p == Pow(a, k + n)  q == Pow(a, k)  r == Pow(a, n)
             p1 == Pow(a, (k + n) + 1)  q1 == Pow(a, k + 1)
  <2>1. p1 = Multiply(a, p) /\ q1 = Multiply(a, q)
    BY PowNext
  <2>2. p \in Int /\ q \in Int /\ r \in Int /\ p1 \in Int /\ q1 \in Int /\ a \in Int /\ p \cong (q * r)
    BY <1>1, <1>3, PrimeIsLarge
  <2> HIDE DEF p, q, r, p1, q1
  <2>3. p1 \cong (a * p) /\ q1 \cong (a * q)
    BY <2>1, <2>2, MultiplyIs
  <2>4. (a * p) \cong (a * (q * r)) /\ (q1 * r) \cong ((a * q) * r)
    <3> DEFINE qr == q * r  aq == a * q
    <3>1. qr \in Int /\ aq \in Int /\ p \cong qr /\ q1 \cong aq
      BY <2>2, <2>3
    <3> HIDE DEF qr, aq
    <3>2. a \cong a /\ r \cong r
      BY <2>2, CongMod
    <3>3. (a * p) \cong (a * qr)
      BY <2>2, <3>1, <3>2, CongSum
    <3>4. (q1 * r) \cong (aq * r)
      BY <2>2, <3>1, <3>2, CongSum
    <3> QED BY <3>3, <3>4 DEF qr, aq
  <2>5. (a * q) * r = a * (q * r)
    BY <2>2
  <2>6. p1 \cong (q1 * r)
    <3> DEFINE s == a * (q * r)  t == q1 * r  u == a * p
    <3>1. s \in Int /\ t \in Int /\ u \in Int
      BY <2>2
    <3>2. p1 \cong u /\ u \cong s /\ t \cong s
      BY <2>3, <2>4, <2>5
    <3> HIDE DEF s, t, u
    <3>3. p1 \cong t
      BY <2>2, <3>1, <3>2, CongSymmetric, CongTransitive
    <3> QED BY <3>3 DEF t
  <2>7. (k + 1) + n = (k + n) + 1
    OBVIOUS
  <2> QED BY <2>6, <2>7 DEF p1, q1, r
<1> HIDE DEF T
<1>4. Nat \subseteq T
  BY <1>2, <1>3, SetInduction
<1> QED BY <1>4 DEF T

LEMMA PowSquare ==
  ASSUME NEW a \in Field, NEW b \in Field, b \cong (a * a), NEW n \in Nat
  PROVE  Pow(b, n) \cong Pow(a, 2 * n)
<1> DEFINE T == {k \in Nat : Pow(b, k) \cong Pow(a, 2 * k)}
<1>1. \A k \in Nat : Pow(a, k) \in Int /\ Pow(b, k) \in Int
  BY PowNext, PrimeIsLarge
<1>2. 0 \in T
  <2>1. Pow(b, 0) = Pow(a, 2 * 0)
    BY PowNext
  <2> QED BY <1>1, <2>1, CongMod
<1>3. ASSUME NEW k \in Nat, k \in T PROVE k + 1 \in T
  <2> DEFINE p == Pow(b, k)  q == Pow(a, 2 * k)  q1 == Pow(a, (2 * k) + 1)  q2 == Pow(a, ((2 * k) + 1) + 1)
             p1 == Pow(b, k + 1)
  <2>1. p1 = Multiply(b, p) /\ q1 = Multiply(a, q) /\ q2 = Multiply(a, q1)
    BY PowNext
  <2>2. /\ p \in Int /\ q \in Int /\ q1 \in Int /\ q2 \in Int /\ p1 \in Int /\ a \in Int /\ b \in Int
        /\ p \cong q
    BY <1>1, <1>3, PrimeIsLarge
  <2> HIDE DEF p, q, q1, q2, p1
  <2>3. p1 \cong (b * p) /\ q1 \cong (a * q) /\ q2 \cong (a * q1)
    BY <2>1, <2>2, MultiplyIs
  <2>4. (b * p) \cong ((a * a) * q) /\ (a * q1) \cong (a * (a * q))
    BY <2>2, <2>3, CongMod, CongSum
  <2>5. p1 \cong q2
    <3> DEFINE s == a * (a * q)  t == a * q1  u == b * p
    <3>1. s \in Int /\ t \in Int /\ u \in Int /\ (a * a) * q = s
      BY <2>2
    <3>2. p1 \cong u /\ u \cong s /\ t \cong s /\ q2 \cong t
      BY <2>3, <2>4, <3>1
    <3> HIDE DEF s, t, u
    <3>3. p1 \cong s /\ q2 \cong s
      BY <2>2, <3>1, <3>2, CongTransitive
    <3> QED BY <2>2, <3>1, <3>3, CongSymmetric, CongTransitive
  <2>6. ((2 * k) + 1) + 1 = 2 * (k + 1)
    OBVIOUS
  <2> QED BY <2>5, <2>6 DEF p1, q2
<1> HIDE DEF T
<1>4. Nat \subseteq T
  BY <1>2, <1>3, SetInduction
<1> QED BY <1>4 DEF T

LEMMA FieldEqual ==
  ASSUME NEW x \in Field, NEW y \in Field, NEW z \in Int, x \cong z, y \cong z
  PROVE  x = y
<1>1. x \in Int /\ y \in Int
  BY PrimeIsLarge
<1>2. x \cong y
  BY <1>1, CongSymmetric, CongTransitive
<1> QED BY <1>2, CongEqual

(* A power from the half of its exponent.                                  *)
LEMMA PowHalves ==
  ASSUME NEW a \in Field, NEW k \in Nat, k # 0
  PROVE  LET half == Pow(a, k \div 2)  square == Multiply(half, half)
         IN Pow(a, k) = IF k % 2 = 0 THEN square ELSE Multiply(a, square)
<1> DEFINE h == k \div 2  half == Pow(a, h)  square == Multiply(half, half)
<1>1. h \in Nat /\ (k % 2 = 0 => k = h + h) /\ (k % 2 # 0 => k = (h + h) + 1)
  OBVIOUS
<1> HIDE DEF h
<1>2. half \in Field /\ half \in Int /\ Pow(a, h + h) \in Field
  <2>1. h + h \in Nat
    BY <1>1
  <2> QED BY <1>1, <2>1, PowNext, PrimeIsLarge
<1>3. Pow(a, h + h) \cong (half * half)
  BY <1>1, PowSum
<1>4. square \in Field /\ square \cong (half * half)
  BY <1>2, MultiplyIs
<1>5. Pow(a, h + h) = square
  <2> DEFINE hh == half * half  p == Pow(a, h + h)
  <2>1. hh \in Int /\ p \in Field /\ square \in Field /\ p \cong hh /\ square \cong hh
    BY <1>2, <1>3, <1>4
  <2> HIDE DEF hh, p, square
  <2>2. p = square
    BY <2>1, FieldEqual
  <2> QED BY <2>2 DEF p
<1>6. Pow(a, (h + h) + 1) = Multiply(a, square)
  <2>1. h + h \in Nat
    BY <1>1
  <2> QED BY <1>5, <2>1, PowNext
<1>7. Pow(a, k) = IF k % 2 = 0 THEN square ELSE Multiply(a, square)
  <2> HIDE DEF square
  <2> QED BY <1>1, <1>5, <1>6
<1> QED BY <1>7 DEF h

(* Power, which halves its exponent, computes powers.                      *)
LEMMA PowerIsPow ==
  ASSUME NEW a \in Field, NEW n \in Nat
  PROVE  Power(a, n) = Pow(a, n)
<1> DEFINE At(f, k) == IF k = 0 THEN 1
                       ELSE LET half == f[k \div 2]  square == Multiply(half, half)
                            IN IF k % 2 = 0 THEN square ELSE Multiply(a, square)
           Fits(f) == f = [k \in 0 .. n |-> At(f, k)]
           F == CHOOSE f : Fits(f)
           g == [k \in 0 .. n |-> Pow(a, k)]
<1>1. Fits(g)
  <2>1. ASSUME NEW k \in 0 .. n PROVE g[k] = At(g, k)
    <3>1. CASE k = 0
      BY <3>1, PowNext
    <3>2. CASE k # 0
      <4>1. k \div 2 \in 0 .. n /\ k \in Nat
        BY <3>2
      <4>2. g[k \div 2] = Pow(a, k \div 2)
        BY <4>1
      <4> QED BY <3>2, <4>1, <4>2, PowHalves
    <3> QED BY <3>1, <3>2
  <2>2. DOMAIN g = 0 .. n
    OBVIOUS
  <2> HIDE DEF At
  <2>3. g = [k \in 0 .. n |-> g[k]]
    OBVIOUS
  <2> HIDE DEF g
  <2> QED BY <2>1, <2>3
<1>2. Fits(F)
  <2> HIDE DEF At, g
  <2> QED BY <1>1
<1>3. Power(a, n) = F[n]
  BY DEF Power
<1> HIDE DEF F
<1>4. ASSUME NEW k \in 0 .. n PROVE F[k] = At(F, k)
  <2> HIDE DEF At
  <2> QED BY <1>2
<1> HIDE DEF g, Fits
<1> DEFINE T == {m \in Nat : \A k \in 0 .. m : k <= n => F[k] = Pow(a, k)}
<1>5. 0 \in T
  BY <1>4, PowNext
<1>6. ASSUME NEW m \in Nat, m \in T PROVE m + 1 \in T
  <2> SUFFICES ASSUME NEW k \in 0 .. m + 1, k <= n PROVE F[k] = Pow(a, k)
    OBVIOUS
  <2>1. CASE k <= m
    BY <1>6, <2>1
  <2>2. CASE k = m + 1
    <3>1. k \div 2 \in 0 .. m /\ k \div 2 <= n /\ k # 0 /\ k \in Nat /\ k \in 0 .. n
      BY <2>2
    <3>2. F[k \div 2] = Pow(a, k \div 2)
      BY <1>6, <3>1
    <3> QED BY <1>4, <3>1, <3>2, PowHalves
  <2> QED BY <2>1, <2>2
<1> HIDE DEF T
<1>7. Nat \subseteq T
  BY <1>5, <1>6, SetInduction
<1>8. n \in T
  BY <1>7
<1>9. F[n] = Pow(a, n)
  BY <1>8 DEF T
<1> QED BY <1>3, <1>9

LEMMA PowerInField ==
  ASSUME NEW a \in Field, NEW n \in Nat
  PROVE  Power(a, n) \in Field
BY PowerIsPow, PowNext

(* Prime is a prime: what is not 0 has an inverse.                         *)
Inv(m) == InverseOf(m % Prime)

LEMMA InverseIs ==
  ASSUME NEW m \in Int, ~(m \cong 0)
  PROVE  Inv(m) \in Field /\ (m * Inv(m)) \cong 1
<1> DEFINE a == m % Prime  b == InverseOf(a)
<1>1. a \in Field /\ a \in Int /\ a \cong m /\ m \cong a
  BY CongMod, CongSymmetric, PrimeIsLarge
<1>2. a # 0
  <2> HIDE DEF a
  <2> QED BY <1>1
<1>3. a \in 1 .. Prime - 1 /\ Prime - 2 \in Nat
  BY <1>1, <1>2, PrimeIsLarge DEF Field
<1> HIDE DEF a
<1>4. b \in Field /\ b \in Int /\ b \cong b
  BY <1>1, <1>3, PowerInField, PrimeIsLarge, CongMod DEF InverseOf
<1>5. Multiply(a, b) = 1
  BY <1>3, FieldAssumption
<1> HIDE DEF b
<1>6. (m * b) \cong (a * b) /\ (a * b) \cong 1
  <2>1. Multiply(a, b) \cong (a * b)
    BY <1>1, <1>4, MultiplyIs
  <2>2. 1 \cong (a * b) /\ a * b \in Int
    BY <1>1, <1>4, <1>5, <2>1
  <2>3. (a * b) \cong 1
    BY <2>2, CongSymmetric
  <2> QED BY <1>1, <1>4, <2>3, CongSum
<1>7. (m * b) \cong 1
  <2> DEFINE mb == m * b  ab == a * b
  <2>1. mb \in Int /\ ab \in Int /\ mb \cong ab /\ ab \cong 1
    BY <1>1, <1>4, <1>6
  <2> HIDE DEF mb, ab
  <2>2. mb \cong 1
    BY <2>1, CongTransitive
  <2> QED BY <2>2 DEF mb
<1> QED BY <1>4, <1>7 DEF Inv, a, b

(* A product vanishes only with one of its factors.                        *)
LEMMA NoZeroDivisors ==
  ASSUME NEW x \in Int, NEW y \in Int, (x * y) \cong 0, ~(x \cong 0)
  PROVE  y \cong 0
<1> DEFINE i == Inv(x)  xy == x * y  e == x * i - 1
<1>1. i \in Int /\ (x * i) \cong 1
  BY InverseIs, PrimeIsLarge
<1> HIDE DEF i
<1>2. xy \in Int /\ xy \cong 0 /\ e \in Int /\ e \cong 0 /\ y = i * xy + (-y) * e
  BY <1>1, CongDifference
<1> HIDE DEF xy, e
<1>3. (i * xy + (-y) * e) \cong 0
  BY <1>1, <1>2, Vanish
<1> QED BY <1>2, <1>3

LEMMA Cancel ==
  ASSUME NEW x \in Int, NEW y \in Int, NEW z \in Int, ~(z \cong 0), (z * x) \cong (z * y)
  PROVE  x \cong y
<1> DEFINE e == x - y
<1>1. e \in Int /\ z * e = z * x - z * y
  OBVIOUS
<1>2. (z * e) \cong 0
  <2> DEFINE zx == z * x  zy == z * y
  <2>1. zx \in Int /\ zy \in Int /\ zx \cong zy /\ z * e = zx - zy
    BY <1>1
  <2> HIDE DEF zx, zy
  <2> QED BY <2>1, CongDifference
<1> HIDE DEF e
<1>3. e \cong 0
  BY <1>1, <1>2, NoZeroDivisors
<1> QED BY <1>3, CongDifference DEF e

LEMMA NonzeroProduct ==
  ASSUME NEW x \in Int, NEW y \in Int
  PROVE  (x * y) \cong 0 <=> (x \cong 0 \/ y \cong 0)
<1>1. ASSUME x \cong 0 PROVE (x * y) \cong 0
  <2>1. (y * x) \cong 0 /\ x * y = y * x
    BY <1>1, Vanish
  <2> QED BY <2>1
<1>2. ASSUME y \cong 0 PROVE (x * y) \cong 0
  BY <1>2, Vanish
<1> QED BY <1>1, <1>2, NoZeroDivisors

(* One is not zero, nor is two.                                            *)
LEMMA SmallNumbers == ~(1 \cong 0) /\ ~(2 \cong 0) /\ ~(-1 \cong 0)
<1>1. Prime \in Nat /\ Prime >= 5
  BY PrimeIsLarge
<1>2. 1 \in Field /\ 2 \in Field /\ 0 \in Field
  BY <1>1 DEF Field
<1>3. ~(1 \cong 0) /\ ~(2 \cong 0)
  BY <1>2, CongEqual
<1>4. ASSUME -1 \cong 0 PROVE FALSE
  <2> DEFINE m == -1
  <2>3. m \in Int /\ m \cong 0
    BY <1>4
  <2> HIDE DEF m
  <2>4. (m * m) \cong 0
    BY <2>3, Vanish
  <2>1. ((-1) * (-1)) \cong 0
    BY <2>4 DEF m
  <2>2. (-1) * (-1) = 1
    OBVIOUS
  <2> QED BY <1>3, <2>1, <2>2
<1> QED BY <1>3, <1>4

(* sqrtM1 is a square root of -1.                                          *)
LEMMA RootOfMinusOne ==
  sqrtM1 \in Field /\ sqrtM1 \in Int /\ (sqrtM1 * sqrtM1) \cong -1
<1>1. 2 \in Field /\ (Prime - 1) \div 4 \in Nat /\ Prime - 1 \in Int /\ Prime \in Nat
  BY PrimeIsLarge DEF Field
<1>2. sqrtM1 \in Field /\ sqrtM1 \in Int
  BY <1>1, PowerInField, PrimeIsLarge DEF sqrtM1
<1>3. (Prime - 1) \cong (sqrtM1 * sqrtM1)
  BY <1>2, MultiplyIs, FieldAssumption
<1>4. -1 \cong (Prime - 1)
  <2>1. -1 = (Prime - 1) + Prime * (-1)
    BY <1>1
  <2> QED BY <2>1 DEF \cong, Same
<1>5. -1 \cong (sqrtM1 * sqrtM1)
  <2> DEFINE s == sqrtM1 * sqrtM1  p == Prime - 1
  <2>1. s \in Int /\ p \in Int /\ p \cong s /\ -1 \cong p
    BY <1>1, <1>2, <1>3, <1>4
  <2> HIDE DEF s, p
  <2>2. -1 \cong s
    BY <2>1, CongTransitive
  <2> QED BY <2>2 DEF s
<1>6. (sqrtM1 * sqrtM1) \cong -1
  <2>1. sqrtM1 * sqrtM1 \in Int
    BY <1>2
  <2> QED BY <1>5, <2>1, CongSymmetric
<1> QED BY <1>2, <1>6

LEMMA FieldInt ==
  ASSUME NEW x \in Field
  PROVE  x \in Int /\ x \cong x
BY PrimeIsLarge, CongMod

LEMMA MultiplyCong ==
  ASSUME NEW a \in Int, NEW b \in Int, NEW x \in Int, NEW y \in Int, a \cong x, b \cong y
  PROVE  Multiply(a, b) \in Field /\ Multiply(a, b) \in Int /\ Multiply(a, b) \cong (x * y)
<1> DEFINE p == Multiply(a, b)  ab == a * b  xy == x * y
<1>1. p \in Field /\ p \in Int /\ ab \in Int /\ xy \in Int /\ p \cong ab
  <2>1. p \in Field /\ p \cong ab
    BY MultiplyIs
  <2> QED BY <2>1, FieldInt
<1>2. ab \cong xy
  BY CongSum
<1> HIDE DEF p, ab, xy
<1>3. p \cong xy
  BY <1>1, <1>2, CongTransitive
<1> QED BY <1>1, <1>3 DEF p, xy

(* The parts of SqrtRatio.                                                 *)
Third(u, v) == Multiply(u, Multiply(Multiply(v, v), v))
Seventh(u, v) == Multiply(Third(u, v), Multiply(Multiply(v, v), Multiply(v, v)))
Eighth == (Prime - 5) \div 8
Candidate(u, v) == Multiply(Third(u, v), Power(Seventh(u, v), Eighth))
Check(u, v) == Multiply(v, Multiply(Candidate(u, v), Candidate(u, v)))

LEMMA EighthIs == Eighth \in Nat /\ 8 * Eighth + 5 = Prime
BY CurveAssumption DEF Eighth

LEMMA SeventhIs ==
  ASSUME NEW u \in Field, NEW v \in Field
  PROVE  /\ Third(u, v) \in Field /\ Third(u, v) \cong (u * ((v * v) * v))
         /\ Seventh(u, v) \in Field
         /\ Seventh(u, v) \cong ((u * ((v * v) * v)) * ((v * v) * (v * v)))
<1> DEFINE q == v * v  v2 == Multiply(v, v)  v3 == Multiply(v2, v)  v4 == Multiply(v2, v2)
           t == u * (q * v)
<1>1. u \in Int /\ v \in Int /\ u \cong u /\ v \cong v /\ q \in Int
  BY PrimeIsLarge, CongMod
<1>2. v2 \in Int /\ v2 \cong q
  BY <1>1, MultiplyCong
<1> HIDE DEF q, v2
<1>3. v3 \in Int /\ v3 \cong (q * v) /\ q * v \in Int /\ v4 \in Int /\ v4 \cong (q * q) /\ q * q \in Int
  BY <1>1, <1>2, MultiplyCong
<1> HIDE DEF v3, v4
<1> DEFINE qv == q * v  qq == q * q
<1>4. qv \in Int /\ qq \in Int /\ v3 \cong qv /\ v4 \cong qq
  BY <1>3
<1> HIDE DEF qv, qq
<1> DEFINE w3 == Multiply(u, v3)
<1>5. w3 \in Int /\ w3 \in Field /\ w3 \cong (u * qv) /\ u * qv \in Int
  BY <1>1, <1>3, <1>4, MultiplyCong
<1> HIDE DEF w3
<1> DEFINE uqv == u * qv
<1>6. uqv \in Int /\ w3 \cong uqv
  BY <1>5
<1> HIDE DEF uqv
<1>7. Multiply(w3, v4) \in Field /\ Multiply(w3, v4) \cong (uqv * qq)
  BY <1>3, <1>4, <1>5, <1>6, MultiplyCong
<1>8. Third(u, v) = w3 /\ Seventh(u, v) = Multiply(w3, v4)
  BY DEF Third, Seventh, w3, v3, v4, v2
<1> QED BY <1>5, <1>7, <1>8 DEF uqv, qq, qv, q

(* The check is u times a power of the seventh, and v times a square.      *)
LEMMA CheckIs ==
  ASSUME NEW u \in Field, NEW v \in Field
  PROVE  /\ Candidate(u, v) \in Field /\ Check(u, v) \in Field
         /\ Check(u, v) \cong (v * (Candidate(u, v) * Candidate(u, v)))
         /\ Check(u, v) \cong (u * (Seventh(u, v) * (Power(Seventh(u, v), Eighth) * Power(Seventh(u, v), Eighth))))
<1> DEFINE w3 == Third(u, v)  w7 == Seventh(u, v)  p == Power(w7, Eighth)  c == Candidate(u, v)
           q == Multiply(c, c)  k == Check(u, v)
           a3 == u * ((v * v) * v)  a7 == (u * ((v * v) * v)) * ((v * v) * (v * v))
<1>1. /\ u \in Int /\ v \in Int /\ v \cong v /\ u \cong u /\ w3 \in Field /\ w3 \in Int /\ w7 \in Field /\ w7 \in Int
      /\ w3 \cong a3 /\ w7 \cong a7 /\ a3 \in Int /\ a7 \in Int
  <2>1. w3 \in Field /\ w7 \in Field /\ w3 \cong a3 /\ w7 \cong a7
    BY SeventhIs
  <2>2. u \in Int /\ v \in Int /\ v \cong v /\ u \cong u
    BY FieldInt
  <2>3. a3 \in Int /\ a7 \in Int
    BY <2>2
  <2> HIDE DEF w3, w7, a3, a7
  <2> QED BY <2>1, <2>2, <2>3, FieldInt
<1>2. p \in Field /\ p \in Int /\ p \cong p
  <2>1. p \in Field
    BY <1>1, EighthIs, PowerInField
  <2> QED BY <2>1, PrimeIsLarge, CongMod
<1>3. c = Multiply(w3, p)
  BY DEF Candidate
<1> HIDE DEF w3, p, w7, a3, a7
<1> DEFINE a3p == a3 * p  cc == c * c
<1>4. c \in Field /\ c \in Int /\ c \cong a3p /\ a3p \in Int /\ cc \in Int /\ c \cong c
  <2>1. c \in Field /\ c \cong a3p /\ c \in Int /\ a3p \in Int
    BY <1>1, <1>2, <1>3, MultiplyCong
  <2> HIDE DEF c, a3p
  <2> QED BY <2>1, FieldInt
<1>5. k = Multiply(v, q)
  BY DEF Check
<1> HIDE DEF a3p, c, k
<1>6. q \in Int /\ q \cong (c * c) /\ q \cong (a3p * a3p)
  BY <1>4, MultiplyCong
<1> DEFINE aa == a3p * a3p
<1>7. aa \in Int /\ cc \in Int /\ q \cong cc /\ q \cong aa
  BY <1>4, <1>6
<1> HIDE DEF aa, cc, q
<1>8. k \in Field /\ k \in Int /\ k \cong (v * cc) /\ k \cong (v * aa)
  BY <1>1, <1>5, <1>6, <1>7, MultiplyCong
<1>9. v * aa = (u * a7) * (p * p)
  <2> DEFINE b3 == (v * v) * v
  <2>1. b3 \in Int /\ a3 = u * b3 /\ a7 = (u * b3) * ((v * v) * (v * v)) /\ v * b3 = (v * v) * (v * v)
    BY <1>1 DEF a3, a7
  <2>2. v * aa = v * ((u * b3 * p) * (u * b3 * p))
    BY <1>1, <1>2, <2>1 DEF aa, a3p
  <2>3. (u * a7) * (p * p) = (u * ((u * b3) * (v * b3))) * (p * p)
    BY <1>1, <1>2, <2>1
  <2> HIDE DEF b3
  <2>4. v * ((u * b3 * p) * (u * b3 * p)) = (u * ((u * b3) * (v * b3))) * (p * p)
    BY <1>1, <1>2, <2>1
  <2> QED BY <2>2, <2>3, <2>4
<1>10. k \cong (u * (w7 * (p * p)))
  <2> DEFINE pp == p * p  ua == u * a7  uw == u * w7
  <2>1. pp \in Int /\ ua \in Int /\ uw \in Int /\ k \cong (ua * pp) /\ pp \cong pp
    BY <1>1, <1>2, <1>8, <1>9, CongMod
  <2>2. w7 \cong a7 /\ a7 \cong w7 /\ ua \cong uw
    BY <1>1, CongSymmetric, CongSum
  <2>3. u * (w7 * pp) = uw * pp
    BY <1>1, <2>1
  <2> HIDE DEF pp, ua, uw
  <2> DEFINE x == ua * pp  y == uw * pp
  <2>4. x \cong y /\ x \in Int /\ y \in Int /\ k \cong x /\ k \in Int
    BY <2>1, <2>2, CongSum, <1>8
  <2> HIDE DEF x, y
  <2>5. k \cong y
    BY <2>4, CongTransitive
  <2> QED BY <2>3, <2>5 DEF y, pp
<1>11. k \cong (v * (c * c))
  BY <1>8 DEF cc
<1> QED BY <1>4, <1>8, <1>10, <1>11 DEF k, c, w7, p

LEMMA CongTimes ==
  ASSUME NEW x \in Int, NEW y \in Int, NEW a \in Int, x \cong y
  PROVE  (a * x) \cong (a * y) /\ (x * a) \cong (y * a) /\ (-x) \cong (-y) /\ (a + x) \cong (a + y)
<1>1. a \cong a /\ 0 \cong 0
  BY CongMod
<1>2. (a * x) \cong (a * y) /\ (x * a) \cong (y * a) /\ (a + x) \cong (a + y)
  BY <1>1, CongSum
<1>3. (0 - x) \cong (0 - y) /\ 0 - x = -x /\ 0 - y = -y
  BY <1>1, CongSum
<1> QED BY <1>2, <1>3

LEMMA NegateEven ==
  ASSUME NEW r \in Field
  PROVE  LET root == IF IsNegative(r) THEN Negate(r) ELSE r
         IN root \in Field /\ root % 2 = 0 /\ (root * root) \cong (r * r)
<1>1. Prime \in Nat /\ Prime % 2 = 1 /\ r \in Int /\ r >= 0 /\ r < Prime /\ r * r \in Int
  BY PrimeIsLarge DEF Field
<1>2. CASE IsNegative(r)
  <2> DEFINE n == Negate(r)
  <2>1. n = Prime - r /\ n \in Int /\ n >= 0 /\ n < Prime
    <3>1. r >= 1 /\ Prime - r \in 0 .. Prime - 1
      BY <1>1, <1>2 DEF IsNegative
    <3>2. -r = (Prime - r) + Prime * (-1)
      BY <1>1
    <3>3. Same(-r, Prime - r, Prime)
      BY <1>1, <3>2 DEF Same
    <3>4. (-r) % Prime = Prime - r
      BY <1>1, <3>1, <3>3, SameRemainder
    <3> QED BY <1>1, <3>1, <3>4 DEF Negate
  <2>2. r % 2 = 1
    BY <1>2 DEF IsNegative
  <2>3. n % 2 = 0
    <3> HIDE DEF n
    <3> QED BY <1>1, <2>1, <2>2
  <2>4. (n * n) \cong (r * r)
    <3>1. n * n = r * r + Prime * (Prime - 2 * r) /\ Prime - 2 * r \in Int
      BY <1>1, <2>1
    <3> QED BY <3>1 DEF \cong, Same
  <2>5. n \in Field
    <3> HIDE DEF n
    <3> QED BY <1>1, <2>1 DEF Field
  <2> QED BY <1>2, <2>3, <2>4, <2>5
<1>3. CASE ~IsNegative(r)
  <2>1. r % 2 = 0
    BY <1>1, <1>3 DEF IsNegative
  <2> QED BY <1>1, <1>3, <2>1, CongMod
<1> QED BY <1>2, <1>3

Flipped(u, v) == Check(u, v) = Negate(u)
FlippedI(u, v) == Check(u, v) = Multiply(Negate(u), sqrtM1)
Turned(u, v) ==
  IF Flipped(u, v) \/ FlippedI(u, v) THEN Multiply(sqrtM1, Candidate(u, v)) ELSE Candidate(u, v)

LEMMA SqrtRatioIs ==
  ASSUME NEW u, NEW v
  PROVE  SqrtRatio(u, v) =
           [root |-> IF IsNegative(Turned(u, v)) THEN Negate(Turned(u, v)) ELSE Turned(u, v),
            isSquare |-> (Check(u, v) = u \/ Flipped(u, v))]
BY DEF SqrtRatio, Turned, Flipped, FlippedI, Check, Candidate, Seventh, Third, Eighth

(* What is turned by i has the opposite square.                            *)
LEMMA TurnedSquare ==
  ASSUME NEW c \in Field
  PROVE  /\ Multiply(sqrtM1, c) \in Field
         /\ (Multiply(sqrtM1, c) * Multiply(sqrtM1, c)) \cong (-(c * c))
<1> DEFINE i == sqrtM1  r == Multiply(i, c)  ic == i * c
<1>1. i \in Int /\ c \in Int /\ r \in Field /\ r \in Int /\ ic \in Int /\ r \cong ic /\ (i * i) \cong -1
  <2>1. i \in Int /\ (i * i) \cong -1 /\ c \in Int
    BY RootOfMinusOne, FieldInt
  <2> HIDE DEF i
  <2>2. ic \in Int
    BY <2>1
  <2>3. r \in Field /\ r \cong ic
    BY <2>1, MultiplyIs, Zenon
  <2> HIDE DEF r, ic
  <2> QED BY <2>1, <2>2, <2>3, FieldInt
<1> HIDE DEF i, r
<1> DEFINE cc == c * c  ii == i * i  x == r * r  y == ii * cc  z == (-1) * cc
<1>2. x \cong (ic * ic) /\ ic * ic = y
  <2>1. x \cong (ic * ic)
    <3> HIDE DEF ic
    <3> QED BY <1>1, CongSum
  <2>2. ic * ic = y
    BY <1>1
  <2> QED BY <2>1, <2>2
<1>3. y \cong z /\ x \in Int /\ y \in Int /\ z \in Int /\ z = -cc
  <2>1. cc \in Int /\ ii \in Int /\ ii \cong -1 /\ -1 \in Int
    BY <1>1
  <2>2. x \in Int /\ y \in Int /\ z \in Int /\ z = -cc
    BY <1>1
  <2> HIDE DEF ii, cc
  <2> DEFINE m == -1
  <2>3. m \in Int /\ ii \cong m
    BY <2>1
  <2> HIDE DEF m
  <2>4. (ii * cc) \cong (m * cc)
    BY <2>1, <2>3, CongTimes
  <2> QED BY <2>2, <2>4 DEF m
<1>4. x \cong y
  BY <1>2
<1> HIDE DEF x, y, z
<1>5. x \cong z
  BY <1>3, <1>4, CongTransitive
<1> QED BY <1>1, <1>3, <1>5 DEF x, cc, r, i

(* A ratio that is said to be a square has the root that is returned.      *)
LEMMA SqrtRatioRoot ==
  ASSUME NEW u \in Field, NEW v \in Field, SqrtRatio(u, v).isSquare
  PROVE  /\ SqrtRatio(u, v).root \in Field /\ SqrtRatio(u, v).root % 2 = 0
         /\ (v * (SqrtRatio(u, v).root * SqrtRatio(u, v).root)) \cong u
<1> DEFINE c == Candidate(u, v)  k == Check(u, v)  t == Turned(u, v)  i == sqrtM1
           root == SqrtRatio(u, v).root
<1>1. /\ root = IF IsNegative(t) THEN Negate(t) ELSE t
      /\ k = u \/ Flipped(u, v)
  BY SqrtRatioIs
<1>2. /\ c \in Field /\ k \in Field /\ k \cong (v * (c * c)) /\ c \in Int /\ k \in Int
      /\ u \in Int /\ v \in Int /\ Negate(u) \in Int /\ Negate(u) \cong (-u) /\ i \in Int /\ (i * i) \cong -1
  <2>1. c \in Field /\ k \in Field /\ k \cong (v * (c * c))
    BY CheckIs
  <2>2. u \in Int /\ v \in Int
    BY FieldInt
  <2>3. Negate(u) \in Field /\ Negate(u) \cong (-u)
    BY <2>2, NegateIs
  <2> HIDE DEF c, k
  <2> QED BY <2>1, <2>2, <2>3, FieldInt, RootOfMinusOne
<1>3. Flipped(u, v) => k \cong (-u)
  BY <1>2 DEF Flipped
<1>4. FlippedI(u, v) => k \cong ((-u) * i)
  <2> DEFINE n == Negate(u)  m == -u
  <2>1. n \in Int /\ m \in Int /\ n \cong m
    BY <1>2
  <2> HIDE DEF n, m
  <2>2. i \cong i
    BY <1>2, CongMod
  <2>3. Multiply(n, i) \cong (m * i)
    BY <1>2, <2>1, <2>2, MultiplyCong
  <2> QED BY <2>3 DEF n, m, FlippedI
<1>5. t \in Field /\ (t * t) \cong (IF Flipped(u, v) \/ FlippedI(u, v) THEN -(c * c) ELSE c * c)
  <2>1. c * c \in Int /\ (c * c) \cong (c * c)
    BY <1>2, CongMod
  <2>2. Multiply(i, c) \in Field /\ (Multiply(i, c) * Multiply(i, c)) \cong (-(c * c))
    BY <1>2, TurnedSquare
  <2> QED BY <1>2, <2>1, <2>2 DEF Turned
<1>6. root \in Field /\ root % 2 = 0 /\ (root * root) \cong (t * t) /\ t \in Int /\ root \in Int
  <2> HIDE DEF t, root
  <2>1. root \in Field /\ root % 2 = 0 /\ (root * root) \cong (t * t)
    BY <1>1, <1>5, NegateEven
  <2> QED BY <1>5, <2>1, FieldInt
<1> HIDE DEF c, k, t, i, root
<1> DEFINE cc == c * c  tt == t * t  rr == root * root  e == IF Flipped(u, v) \/ FlippedI(u, v) THEN -cc ELSE cc
<1>7. cc \in Int /\ tt \in Int /\ rr \in Int /\ e \in Int /\ rr \cong tt /\ tt \cong e /\ k \cong (v * cc)
  BY <1>2, <1>5, <1>6
<1> HIDE DEF cc, tt, rr
<1>8. rr \cong e
  <2> HIDE DEF e
  <2> QED BY <1>7, CongTransitive
<1>9. (v * rr) \cong (v * e)
  <2> HIDE DEF e
  <2> QED BY <1>2, <1>7, <1>8, CongTimes
<1> DEFINE vc == v * cc
<1>10. vc \in Int /\ vc \cong k /\ (-vc) \cong (-k) /\ -vc = v * (-cc) /\ -k \in Int /\ -vc \in Int
  <2>1. vc \in Int /\ -vc = v * (-cc)
    BY <1>2, <1>7
  <2>2. k \cong vc
    BY <1>7
  <2> HIDE DEF vc
  <2>3. vc \cong k
    BY <1>2, <2>1, <2>2, CongSymmetric
  <2> QED BY <1>2, <2>1, <2>3, CongTimes
<1>11. (v * e) \cong (IF Flipped(u, v) \/ FlippedI(u, v) THEN -k ELSE k)
  BY <1>10
<1>12. IF Flipped(u, v) \/ FlippedI(u, v) THEN (-k) \cong u ELSE k \cong u
  <2>1. CASE Flipped(u, v)
    <3> DEFINE m == -u  n == -k
    <3>1. k \cong m /\ m \in Int /\ n \in Int /\ -m = u
      BY <1>2, <1>3, <2>1
    <3> HIDE DEF m
    <3>2. n \cong (-m)
      BY <1>2, <3>1, CongTimes
    <3> QED BY <2>1, <3>1, <3>2
  <2>2. CASE ~Flipped(u, v) /\ FlippedI(u, v)
    <3>1. k = u
      BY <1>1, <2>2
    <3> DEFINE m == -u  mi == m * i  e1 == 1 + i  w == u * e1
    <3>2. k \cong mi /\ m \in Int /\ mi \in Int /\ w = k - mi /\ w \in Int /\ e1 \in Int
      BY <1>2, <1>4, <2>2, <3>1
    <3>3. w \cong 0
      <4> HIDE DEF mi, w
      <4> QED BY <1>2, <3>2, CongDifference
    <3>4. ~(e1 \cong 0)
      <4> SUFFICES ASSUME e1 \cong 0 PROVE FALSE
        OBVIOUS
      <4> DEFINE ii == i * i + 1  s == i - 1
      <4>1. ii \in Int /\ ii \cong 0
        <5> DEFINE q == i * i  p == -1
        <5>1. q \in Int /\ p \in Int /\ q \cong p /\ ii = q - p
          BY <1>2
        <5> HIDE DEF q, p
        <5>2. (q - p) \cong 0
          BY <5>1, CongDifference
        <5> QED BY <5>1, <5>2
      <4>2. s \in Int /\ 2 = 1 * ii + (-s) * e1
        BY <1>2
      <4> HIDE DEF ii, s, e1
      <4> DEFINE ms == -s
      <4>3. ms \in Int /\ 2 = 1 * ii + ms * e1
        BY <4>2
      <4> HIDE DEF ms
      <4> DEFINE m1 == 1
      <4>5. m1 \in Int
        OBVIOUS
      <4> HIDE DEF m1
      <4>4. (m1 * ii + ms * e1) \cong 0
        BY <3>2, <4>1, <4>3, <4>5, Vanish
      <4> QED BY <4>3, <4>4, SmallNumbers DEF m1
    <3> HIDE DEF e1
    <3>5. (e1 * u) \cong 0
      BY <1>2, <3>2, <3>3
    <3> HIDE DEF w
    <3>6. u \cong 0
      BY <1>2, <3>2, <3>4, <3>5, NoZeroDivisors
    <3>7. (-1 * u) \cong 0 /\ 0 \in Int
      BY <1>2, <3>6, Vanish
    <3>8. 0 \cong u
      BY <1>2, <3>6, CongSymmetric
    <3>9. m \cong 0
      BY <1>2, <3>7
    <3> HIDE DEF m
    <3>10. m \cong u
      BY <1>2, <3>2, <3>8, <3>9, CongTransitive
    <3> QED BY <2>2, <3>1, <3>10 DEF m
  <2>3. CASE ~Flipped(u, v) /\ ~FlippedI(u, v)
    <3>1. k = u
      BY <1>1, <2>3
    <3> QED BY <1>2, <2>3, <3>1, CongMod
  <2> QED BY <2>1, <2>2, <2>3
<1>13. (v * e) \cong u
  <2> DEFINE ve == v * e  kk == IF Flipped(u, v) \/ FlippedI(u, v) THEN -k ELSE k
  <2>1. ve \in Int /\ kk \in Int /\ ve \cong kk /\ kk \cong u
    BY <1>2, <1>7, <1>11, <1>12
  <2> HIDE DEF ve, kk
  <2>2. ve \cong u
    BY <1>2, <2>1, CongTransitive
  <2> QED BY <2>2 DEF ve
<1>14. (v * rr) \cong u
  <2> DEFINE ve == v * e  vr == v * rr
  <2>1. ve \in Int /\ vr \in Int /\ vr \cong ve /\ ve \cong u
    BY <1>2, <1>7, <1>9, <1>13
  <2> HIDE DEF ve, vr
  <2>2. vr \cong u
    BY <1>2, <2>1, CongTransitive
  <2> QED BY <2>2 DEF vr
<1> QED BY <1>6, <1>14 DEF rr, root

(* The power of Fermat: a nonzero a to Prime - 1.                          *)
LEMMA Fermat ==
  ASSUME NEW a \in Field, a # 0
  PROVE  Pow(a, 8 * Eighth + 4) = 1
<1>1. a \in 1 .. Prime - 1 /\ Prime - 2 \in Nat /\ (Prime - 2) + 1 = 8 * Eighth + 4
  BY PrimeIsLarge, EighthIs DEF Field
<1>2. Pow(a, (Prime - 2) + 1) = Multiply(a, Pow(a, Prime - 2))
  BY <1>1, PowNext
<1>3. Pow(a, Prime - 2) = InverseOf(a)
  BY <1>1, PowerIsPow DEF InverseOf
<1> QED BY <1>1, <1>2, <1>3, FieldAssumption

(* A square root of 1 is 1 or -1.                                          *)
LEMMA RootsOfOne ==
  ASSUME NEW e \in Int, (e * e) \cong 1
  PROVE  e \cong 1 \/ e \cong -1
<1> DEFINE p == e - 1  q == e + 1  ee == e * e
<1>1. p \in Int /\ q \in Int /\ ee \in Int /\ p * q = ee - 1 /\ ee \cong 1
  OBVIOUS
<1>2. (p * q) \cong 0
  <2> HIDE DEF p, q, ee
  <2> QED BY <1>1, CongDifference
<1>3. p \cong 0 \/ q \cong 0
  <2> HIDE DEF p, q
  <2> QED BY <1>1, <1>2, NonzeroProduct
<1>4. q = e - (-1)
  OBVIOUS
<1>5. p \cong 0 => e \cong 1
  BY CongDifference
<1>6. q \cong 0 => e \cong -1
  <2> DEFINE m == -1
  <2>1. m \in Int /\ q = e - m
    BY <1>4
  <2> HIDE DEF m, q
  <2>2. q \cong 0 => e \cong m
    BY <2>1, CongDifference
  <2> QED BY <2>2 DEF m
<1> QED BY <1>3, <1>5, <1>6

(* The seventh is the square of x * v ^ 4 where u is x * x * v.            *)
LEMMA SeventhIsSquare ==
  ASSUME NEW u \in Field, NEW v \in Field, NEW x \in Int, ((x * x) * v) \cong u
  PROVE  Seventh(u, v) \cong ((x * ((v * v) * (v * v))) * (x * ((v * v) * (v * v))))
<1> DEFINE w == x * ((v * v) * (v * v))  s == Seventh(u, v)  f == ((v * v) * v) * ((v * v) * (v * v))
           a == (u * ((v * v) * v)) * ((v * v) * (v * v))  xxv == (x * x) * v
<1>1. u \in Int /\ v \in Int
  BY FieldInt
<1>2. s \in Field /\ s \cong a
  BY SeventhIs
<1>3. s \in Int
  <2> HIDE DEF s
  <2> QED BY <1>2, FieldInt
<1>4. f \in Int /\ xxv \in Int /\ xxv \cong u /\ a = u * f /\ xxv * f = w * w /\ w * w \in Int /\ a \in Int
  BY <1>1
<1> HIDE DEF s, f, xxv, w, a
<1>5. (xxv * f) \cong (u * f)
  BY <1>1, <1>4, CongTimes
<1> DEFINE ww == w * w
<1>6. a \cong ww /\ s \cong ww
  <2>1. ww \cong a /\ ww \in Int
    BY <1>4, <1>5
  <2> HIDE DEF ww
  <2>2. a \cong ww
    BY <1>4, <2>1, CongSymmetric
  <2> QED BY <1>2, <1>3, <1>4, <2>1, <2>2, CongTransitive
<1> QED BY <1>6 DEF w, s

(* A ratio that has a root is said to be a square.                         *)
LEMMA SqrtRatioComplete ==
  ASSUME NEW u \in Field, NEW v \in Field, ~(v \cong 0), NEW x \in Int, ((x * x) * v) \cong u
  PROVE  SqrtRatio(u, v).isSquare
<1> DEFINE w == x * ((v * v) * (v * v))  s == Seventh(u, v)  k == Check(u, v)  p == Power(s, Eighth)
           a == w % Prime
<1>1. u \in Int /\ v \in Int /\ Negate(u) \in Field /\ Negate(u) \cong (-u)
  <2>1. u \in Int /\ v \in Int
    BY FieldInt
  <2> QED BY <2>1, NegateIs
<1>2. s \in Field /\ k \in Field /\ k \cong (u * (s * (p * p)))
  BY SeventhIs, CheckIs
<1>3. w \in Int /\ s \cong (w * w)
  BY <1>1, SeventhIsSquare
<1>4. a \in Field /\ a \cong w /\ a \in Int
  <2>1. a \in Field /\ a \cong w
    BY <1>3, CongMod
  <2> HIDE DEF a
  <2> QED BY <2>1, FieldInt
<1>5. s \in Int /\ k \in Int /\ p = Pow(s, Eighth) /\ p \in Int
  <2>1. p = Pow(s, Eighth) /\ p \in Field
    BY <1>2, EighthIs, PowerIsPow, PowerInField
  <2> HIDE DEF s, k, p
  <2> QED BY <1>2, <2>1, FieldInt
<1> HIDE DEF s, k, p
<1>6. CASE w \cong 0
  <2> DEFINE v2 == v * v  v4 == v2 * v2
  <2>1. v2 \in Int /\ v4 \in Int /\ w = x * v4
    BY <1>1
  <2>2. ~(v2 \cong 0)
    BY <1>1, NonzeroProduct
  <2> HIDE DEF v2
  <2>3. ~(v4 \cong 0)
    BY <2>1, <2>2, NonzeroProduct
  <2> HIDE DEF v4, w
  <2>4. x \cong 0
    BY <1>6, <2>1, <2>3, NonzeroProduct
  <2> DEFINE xv == x * v  xxv == x * xv  m == s * (p * p)
  <2>5. xv \in Int /\ xxv \in Int /\ xxv = (x * x) * v /\ m \in Int
    BY <1>1, <1>5
  <2>6. xxv \cong u
    BY <2>5
  <2>7. xxv \cong 0
    <3> HIDE DEF xv
    <3> QED BY <2>4, <2>5, NonzeroProduct
  <2> HIDE DEF xxv
  <2>8. u \cong xxv /\ u \cong 0
    BY <1>1, <2>5, <2>6, <2>7, CongSymmetric, CongTransitive
  <2>9. 0 \in Field
    BY PrimeIsLarge
  <2>10. u = 0
    BY <2>8, <2>9, CongEqual
  <2>11. k \cong 0
    BY <1>2, <1>5, <2>10
  <2>12. k = u
    BY <1>2, <2>9, <2>10, <2>11, CongEqual
  <2> QED BY <2>12, SqrtRatioIs DEF k
<1>7. CASE ~(w \cong 0)
  <2> HIDE DEF w
  <2>1. a # 0
    <3> HIDE DEF a
    <3>1. a = 0 => 0 \cong w
      BY <1>4
    <3> QED BY <1>3, <1>4, <1>7, <3>1, CongSymmetric
  <2> HIDE DEF a
  <2> DEFINE ww == w * w  aa == a * a  q == Pow(a, 2 * Eighth)  b == Pow(a, 1)
  <2>2. ww \in Int /\ aa \in Int /\ aa \cong ww /\ s \cong ww
    BY <1>3, <1>4, CongSum
  <2>3. s \cong aa /\ aa \cong s
    <3> HIDE DEF ww, aa
    <3> QED BY <1>5, <2>2, CongSymmetric, CongTransitive
  <2>4. p \cong q /\ q \in Field /\ q \in Int
    <3>1. p \cong q
      BY <1>2, <1>4, <1>5, <2>3, EighthIs, PowSquare
    <3>2. 2 * Eighth \in Nat
      BY EighthIs
    <3>3. q \in Field
      BY <1>4, <3>2, PowNext
    <3> HIDE DEF q
    <3> QED BY <3>1, <3>3, FieldInt
  <2> DEFINE qq == q * q  pp == p * p  e == aa * qq  sp == s * pp
  <2>5. qq \in Int /\ pp \in Int /\ e \in Int /\ sp \in Int /\ sp \cong e
    <3>1. pp \cong qq
      <4> HIDE DEF q
      <4> QED BY <1>5, <2>4, CongSum
    <3>2. qq \in Int /\ pp \in Int
      BY <1>5, <2>4
    <3> HIDE DEF qq, pp, aa
    <3> QED BY <1>5, <2>2, <2>3, <3>1, <3>2, CongSum
  <2>6. (e * e) \cong 1
    <3> DEFINE g == 2 * Eighth  a2 == Pow(a, 2)  g2 == g + g  h == 2 + g2  r == Pow(a, g2)  y == Pow(a, h)
               z == Pow(a, h + h)
    <3>1. g \in Nat /\ g2 \in Nat /\ h \in Nat /\ h + h = 8 * Eighth + 4
      BY EighthIs
    <3>2. z = 1
      BY <1>4, <2>1, <3>1, Fermat
    <3>3. r \cong qq
      <4> HIDE DEF g
      <4> QED BY <1>4, <3>1, PowSum DEF g
    <3>4. y \cong (a2 * r)
      <4> HIDE DEF g2
      <4> QED BY <1>4, <3>1, PowSum
    <3>5. z \cong (y * y)
      <4> HIDE DEF h
      <4> QED BY <1>4, <3>1, PowSum
    <3>6. a2 = aa % Prime
      <4> DEFINE a1 == Pow(a, 1)
      <4>1. Pow(a, 0) = 1 /\ a1 = Multiply(a, Pow(a, 0)) /\ a2 = Multiply(a, a1)
        <5>1. 0 + 1 = 1 /\ 1 + 1 = 2 /\ 0 \in Nat /\ 1 \in Nat
          OBVIOUS
        <5> QED BY <1>4, <5>1, PowNext
      <4>2. a * 1 = a /\ a % Prime = a
        BY <1>4, PrimeIsLarge DEF Field
      <4>3. a1 = a
        BY <4>1, <4>2 DEF Multiply
      <4> QED BY <4>1, <4>3 DEF Multiply
    <3>7. a2 \in Int /\ a2 \cong aa
      <4>1. aa % Prime \in Field /\ (aa % Prime) \cong aa
        BY <2>2, CongMod
      <4> HIDE DEF a2, aa
      <4> QED BY <3>6, <4>1, FieldInt
    <3>8. r \in Int /\ y \in Int /\ z \in Int
      <4>1. r \in Field /\ y \in Field /\ z \in Field
        <5>1. h + h \in Nat
          BY <3>1
        <5> HIDE DEF g2, h
        <5> QED BY <1>4, <3>1, <5>1, PowNext
      <4> HIDE DEF r, y, z
      <4> QED BY <4>1, FieldInt
    <3> HIDE DEF r, y, z, a2
    <3> DEFINE ar == a2 * r  yy == y * y  ee == e * e
    <3>9. ar \in Int /\ ar \cong e /\ yy \in Int /\ ee \in Int /\ y \cong ar /\ z \cong yy
      <4>1. ar \cong e
        <5> HIDE DEF aa, qq
        <5> QED BY <2>2, <2>5, <3>3, <3>7, <3>8, CongSum
      <4>2. yy \in Int /\ ee \in Int /\ ar \in Int
        BY <2>5, <3>7, <3>8
      <4> QED BY <3>4, <3>5, <4>1, <4>2
    <3> HIDE DEF ar, e
    <3>10. y \cong e
      BY <2>5, <3>8, <3>9, CongTransitive
    <3>11. yy \cong ee
      BY <2>5, <3>8, <3>10, CongSum
    <3> HIDE DEF yy, ee
    <3>12. z \cong ee
      BY <3>8, <3>9, <3>11, CongTransitive
    <3>13. ee \cong z
      BY <3>8, <3>9, <3>12, CongSymmetric
    <3> QED BY <3>2, <3>13 DEF ee
  <2>7. e \cong 1 \/ e \cong -1
    <3> HIDE DEF e
    <3> QED BY <2>5, <2>6, RootsOfOne
  <2>8. k \cong (u * e)
    <3> HIDE DEF e
    <3> DEFINE us == u * sp  ue == u * e
    <3>1. us \cong ue /\ k \cong us /\ us \in Int /\ ue \in Int
      <4>1. k \cong us
        BY <1>2
      <4> HIDE DEF sp
      <4> QED BY <1>1, <2>5, <4>1, CongTimes
    <3> HIDE DEF us, ue
    <3>2. k \cong ue
      BY <1>5, <3>1, CongTransitive
    <3> QED BY <3>2 DEF ue
  <2> HIDE DEF e
  <2> DEFINE ue == u * e
  <2>9. ue \in Int /\ k \cong ue
    BY <1>1, <2>5, <2>8
  <2>10. CASE e \cong 1
    <3> DEFINE o == 1
    <3>4. o \in Int /\ e \cong o /\ u * o = u
      BY <1>1, <2>10
    <3> HIDE DEF o
    <3>1. ue \cong u
      <4>1. ue \cong (u * o)
        BY <1>1, <2>5, <3>4, CongTimes
      <4> QED BY <3>4, <4>1
    <3> HIDE DEF ue
    <3>2. k \cong u
      BY <1>1, <1>5, <2>9, <3>1, CongTransitive
    <3>3. k = u
      BY <1>2, <3>2, CongEqual
    <3> QED BY <3>3, SqrtRatioIs DEF k
  <2>11. CASE e \cong -1
    <3> DEFINE m == -1  n == Negate(u)
    <3>1. m \in Int /\ e \cong m /\ u * m = -u
      BY <1>1, <2>11
    <3> HIDE DEF m
    <3>2. ue \cong (u * m)
      BY <1>1, <2>5, <3>1, CongTimes
    <3> DEFINE mu == -u
    <3>3. ue \cong mu /\ mu \in Int /\ n \cong mu /\ n \in Field
      BY <1>1, <3>1, <3>2
    <3> HIDE DEF ue, mu, n
    <3>4. k \cong mu
      BY <1>5, <2>9, <3>3, CongTransitive
    <3>5. k = n
      BY <1>2, <3>3, <3>4, FieldEqual
    <3> QED BY <3>5, SqrtRatioIs DEF k, n, Flipped
  <2> QED BY <2>7, <2>10, <2>11
<1> QED BY <1>6, <1>7

LEMMA Vanish4 ==
  ASSUME NEW x \in Int, NEW y \in Int, NEW z \in Int, NEW w \in Int, NEW a \in Int, NEW b \in Int,
         NEW c \in Int, NEW e \in Int, x \cong 0, y \cong 0, z \cong 0, w \cong 0
  PROVE  (((a * x + b * y) + c * z) + e * w) \cong 0
<1> DEFINE p == a * x + b * y  q == c * z + e * w  m == 1
<1>1. p \in Int /\ q \in Int /\ p \cong 0 /\ q \cong 0 /\ m \in Int
  BY Vanish
<1>2. ((a * x + b * y) + c * z) + e * w = m * p + m * q
  OBVIOUS
<1> HIDE DEF p, q, m
<1>3. (m * p + m * q) \cong 0
  BY <1>1, Vanish
<1> QED BY <1>2, <1>3

(* How far a pair is from the curve.                                       *)
Defect(x, y) == ((y * y - x * x) - 1) - CurveD * ((x * x) * (y * y))

LEMMA CurveDIs == CurveD \in Field /\ CurveD \in Int
<1>1. CurveD \in Field
  BY CurveAssumption DEF Field
<1> QED BY <1>1, FieldInt

LEMMA DefectInt ==
  ASSUME NEW x \in Int, NEW y \in Int
  PROVE  Defect(x, y) \in Int
BY CurveDIs DEF Defect

(* CurveD is no square, and neither is its opposite, since -1 is one.      *)
LEMMA NoSquare ==
  ASSUME NEW a \in Int, NEW b \in Int, (CurveD * (a * a)) \cong (b * b)
  PROVE  a \cong 0 /\ b \cong 0
<1>0. CurveD \in Int /\ CurveD \in Field
  BY CurveDIs
<1> DEFINE aa == a * a  bb == b * b  daa == CurveD * aa
<1>1. aa \in Int /\ bb \in Int /\ daa \in Int /\ daa \cong bb
  BY <1>0
<1>2. CASE ~(a \cong 0)
  <2> DEFINE j == Inv(a)  r == b * j  rr == r * r  jj == j * j  t == a * j  q == r % Prime
  <2>1. j \in Int /\ t \cong 1 /\ t \in Int
    <3>1. j \in Field /\ (a * j) \cong 1
      BY <1>2, InverseIs
    <3> HIDE DEF j
    <3> QED BY <3>1, FieldInt
  <2> HIDE DEF j
  <2>2. r \in Int /\ rr \in Int /\ jj \in Int /\ rr = bb * jj /\ daa * jj = CurveD * (t * t) /\ t * t \in Int
    BY <1>0, <2>1
  <2>3. (daa * jj) \cong (bb * jj)
    <3> HIDE DEF daa, bb, jj
    <3> QED BY <1>1, <2>2, CongTimes
  <2>4. (t * t) \cong 1
    <3> HIDE DEF t
    <3> DEFINE o == 1
    <3>1. o \in Int /\ t \cong o /\ o * o = o
      BY <2>1
    <3> HIDE DEF o
    <3>2. (t * t) \cong o
      BY <2>1, <3>1, CongSum
    <3> QED BY <3>2 DEF o
  <2>5. (CurveD * (t * t)) \cong CurveD
    <3> DEFINE tt == t * t  o == 1
    <3>1. tt \in Int /\ o \in Int /\ tt \cong o /\ CurveD * o = CurveD
      BY <1>0, <2>2, <2>4
    <3> HIDE DEF tt, o
    <3>2. (CurveD * tt) \cong (CurveD * o)
      BY <1>0, <3>1, CongTimes
    <3> QED BY <3>1, <3>2 DEF tt
  <2> DEFINE dj == daa * jj
  <2>6. dj \in Int /\ dj \cong CurveD /\ dj \cong rr
    BY <1>1, <2>2, <2>3, <2>5
  <2> HIDE DEF dj, rr
  <2>7. rr \cong CurveD
    BY <1>0, <2>2, <2>6, CongSymmetric, CongTransitive
  <2>8. q \in Field /\ q \cong r /\ q \in Int
    <3>1. q \in Field /\ q \cong r
      BY <2>2, CongMod
    <3> HIDE DEF q
    <3> QED BY <3>1, FieldInt
  <2> HIDE DEF q, r
  <2>9. (q * q) \cong rr
    BY <2>2, <2>8, CongSum DEF rr
  <2> DEFINE qq == q * q  mq == Multiply(q, q)
  <2>10. qq \in Int /\ qq \cong rr /\ mq \in Field /\ mq \cong qq /\ mq \in Int
    <3>1. mq \in Field /\ mq \cong qq
      BY <2>8, MultiplyIs
    <3> HIDE DEF mq
    <3> QED BY <2>8, <2>9, <3>1, FieldInt
  <2> HIDE DEF qq, mq
  <2>11. mq \cong rr
    BY <2>2, <2>10, CongTransitive
  <2>12. mq \cong CurveD
    BY <1>0, <2>2, <2>7, <2>10, <2>11, CongTransitive
  <2>13. mq = CurveD
    BY <1>0, <2>10, <2>12, CongEqual
  <2>14. (q * q) % Prime = CurveD /\ q \in 0 .. Prime - 1
    BY <2>8, <2>13 DEF mq, Multiply, Field
  <2> QED BY <2>14, CurveAssumption
<1>3. CASE a \cong 0
  <2>1. aa \cong 0
    BY <1>3, NonzeroProduct
  <2> HIDE DEF aa, bb
  <2>2. daa \cong 0
    BY <1>0, <1>1, <2>1, NonzeroProduct
  <2> HIDE DEF daa
  <2>3. bb \cong 0
    BY <1>1, <2>2, CongSymmetric, CongTransitive
  <2>4. b \cong 0
    BY <2>3, NonzeroProduct DEF bb
  <2> QED BY <1>3, <2>4
<1> QED BY <1>2, <1>3

LEMMA NoOppositeSquare ==
  ASSUME NEW a \in Int, NEW b \in Int, (CurveD * (a * a)) \cong (-(b * b))
  PROVE  a \cong 0 /\ b \cong 0
<1> DEFINE i == sqrtM1  ib == i * b  bb == b * b  z == ib * ib  ii == i * i  m == -1  nb == -bb
<1>1. i \in Int /\ ii \cong m
  BY RootOfMinusOne
<1> HIDE DEF i
<1>2. ib \in Int /\ bb \in Int /\ z \in Int /\ ii \in Int /\ m \in Int /\ z = ii * bb /\ nb = m * bb /\ nb \in Int
  BY <1>1
<1> HIDE DEF m, ii, bb, z, nb
<1>3. z \cong nb
  BY <1>1, <1>2, CongTimes
<1>4. nb \cong z
  BY <1>2, <1>3, CongSymmetric
<1> DEFINE da == CurveD * (a * a)
<1>5. da \in Int /\ da \cong nb
  BY CurveDIs DEF nb, bb
<1> HIDE DEF da
<1>6. da \cong z
  BY <1>2, <1>4, <1>5, CongTransitive
<1>7. a \cong 0 /\ ib \cong 0
  <2> HIDE DEF ib
  <2> QED BY <1>2, <1>6, NoSquare DEF da, z
<1>8. i \cong 0 => FALSE
  <2> SUFFICES ASSUME i \cong 0 PROVE FALSE
    OBVIOUS
  <2>1. ii \cong 0
    BY <1>1, NonzeroProduct DEF ii
  <2>2. m \cong ii
    BY <1>1, <1>2, CongSymmetric
  <2>3. m \cong 0
    BY <1>2, <2>1, <2>2, CongTransitive
  <2> QED BY <2>3, SmallNumbers DEF m
<1>9. b \cong 0
  BY <1>1, <1>7, <1>8, NonzeroProduct
<1> QED BY <1>7, <1>9

(* The addition law divides by 1 + k and by 1 - k, which never vanish.     *)
Joint(x1, y1, x2, y2) == CurveD * ((x1 * y1) * (x2 * y2))

(* If k were 1 or -1, a half turn of one point would be the other.         *)
LEMMA HalfTurn ==
  ASSUME NEW x1 \in Int, NEW y1 \in Int, NEW x2 \in Int, NEW y2 \in Int, NEW e \in {1, -1}, NEW m \in Int,
         Defect(x1, y1) \cong 0, Defect(x2, y2) \cong 0, Joint(x1, y1, x2, y2) \cong e, (m * m) \cong -1,
         ~((x1 * y1) \cong 0)
  PROVE  (y2 + m * x2) \cong 0
<1> DEFINE d == CurveD  p1 == x1 * y1  p2 == x2 * y2  f1 == Defect(x1, y1)  f2 == Defect(x2, y2)
           k == Joint(x1, y1, x2, y2)  w == y2 + m * x2  z == y1 + (m * e) * x1  kk == k - e  j == m * m + 1
           pw == p1 * w  X == x1 * x1  Y == y1 * y1  X2 == x2 * x2  Y2 == y2 * y2
<1>1. /\ d \in Int /\ p1 \in Int /\ p2 \in Int /\ f1 \in Int /\ f2 \in Int /\ k \in Int /\ w \in Int /\ z \in Int
      /\ kk \in Int /\ j \in Int /\ e \in Int /\ e * e = 1 /\ k = d * (p1 * p2) /\ pw \in Int
      /\ X \in Int /\ Y \in Int /\ X2 \in Int /\ Y2 \in Int
  <2>1. d \in Int /\ f1 \in Int /\ f2 \in Int
    BY CurveDIs, DefectInt
  <2>2. p1 \in Int /\ p2 \in Int /\ e \in Int /\ e * e = 1 /\ j \in Int /\ w \in Int
    OBVIOUS
  <2>3. k = d * (p1 * p2)
    BY DEF Joint
  <2>4. k \in Int
    <3> HIDE DEF p1, p2, k, d
    <3> QED BY <2>1, <2>2, <2>3
  <2>5. z \in Int /\ X \in Int /\ Y \in Int /\ X2 \in Int /\ Y2 \in Int
    BY <2>2
  <2>6. pw \in Int /\ kk \in Int
    <3> HIDE DEF p1, w, k
    <3> QED BY <2>2, <2>4
  <2> QED BY <2>1, <2>2, <2>3, <2>4, <2>5, <2>6
<1>2. /\ Y - X = (f1 + 1) + d * (p1 * p1)
      /\ Y2 - X2 = (f2 + 1) + d * (p2 * p2)
  <2>1. (x1 * x1) * (y1 * y1) = p1 * p1 /\ (x2 * x2) * (y2 * y2) = p2 * p2
    OBVIOUS
  <2> HIDE DEF p1, p2
  <2> QED BY <1>1, <2>1 DEF Defect
<1>3. w * w = (Y2 - X2) + (2 * m) * p2 + X2 * j
  BY <1>1
<1>4. z * z = (Y - X) + ((2 * m) * e) * p1 + X * j
  <2>1. z * z = Y + ((2 * m) * e) * p1 + ((m * m) * (e * e)) * X
    BY <1>1
  <2>2. ((m * m) * (e * e)) * X = (m * m) * X
    BY <1>1
  <2>3. (m * m) * X = X * j - X
    BY <1>1
  <2> DEFINE A == ((2 * m) * e) * p1  C == ((m * m) * (e * e)) * X  D == X * j
  <2>4. A \in Int /\ C \in Int /\ D \in Int /\ z * z = Y + A + C /\ C = D - X
    BY <1>1, <2>1, <2>2, <2>3
  <2> HIDE DEF A, C, D, X, Y, z
  <2> QED BY <1>1, <2>4 DEF A, D
<1>5. kk \cong 0 /\ j \cong 0
  <2>1. kk \cong 0
    BY <1>1, CongDifference
  <2> DEFINE mm == m * m  n == -1
  <2>2. mm \in Int /\ n \in Int /\ mm \cong n /\ j = mm - n
    OBVIOUS
  <2> HIDE DEF mm, n, j
  <2>3. j \cong 0
    BY <2>2, CongDifference
  <2> QED BY <2>1, <2>3
<1>6. d * (pw * pw) = d * (p1 * p1) * (w * w)
  <2> HIDE DEF w, p1
  <2> QED BY <1>1
<1> DEFINE c1 == d * (p1 * p1)  c2 == -1  c3 == (k + e) + (2 * m) * p1  c4 == c1 * X2 - X
           G == d * (pw * pw) - z * z
<1>7. c1 \in Int /\ c2 \in Int /\ c3 \in Int /\ c4 \in Int /\ G \in Int
  BY <1>1
<1>8. G = ((c1 * f2 + c2 * f1) + c3 * kk) + c4 * j
  <2> DEFINE ww == w * w  zz == z * z  s1 == Y - X  s2 == Y2 - X2  q1 == p1 * p1  q2 == p2 * p2
  <2>1. /\ ww \in Int /\ zz \in Int /\ s1 \in Int /\ s2 \in Int /\ q1 \in Int /\ q2 \in Int
        /\ ww = s2 + (2 * m) * p2 + X2 * j /\ zz = s1 + ((2 * m) * e) * p1 + X * j
        /\ s1 = (f1 + 1) + d * q1 /\ s2 = (f2 + 1) + d * q2
        /\ G = d * q1 * ww - zz /\ c1 = d * q1
    BY <1>1, <1>2, <1>3, <1>4, <1>6
  <2>2. G = d * q1 * (((f2 + 1) + d * q2) + (2 * m) * p2 + X2 * j) - (((f1 + 1) + d * q1) + ((2 * m) * e) * p1 + X * j)
    <3> HIDE DEF ww, zz, s1, s2, G, q1, q2, f1, f2, j, X, X2, p1, p2, c1
    <3> QED BY <2>1
  <2>3. (d * q1) * (d * q2) = k * k /\ (d * q1) * p2 = p1 * k
    <3> HIDE DEF k, p1, p2
    <3> QED BY <1>1
  <2> DEFINE u1 == d * q1  u2 == d * q2
  <2>4. /\ u1 \in Int /\ u2 \in Int /\ u1 * u2 = k * k /\ u1 * p2 = p1 * k
        /\ G = u1 * (((f2 + 1) + u2) + (2 * m) * p2 + X2 * j) - (((f1 + 1) + u1) + ((2 * m) * e) * p1 + X * j)
    BY <1>1, <2>1, <2>2, <2>3
  <2> HIDE DEF u1, u2, G, f1, f2, j, X, X2, p1, p2, k, q1, q2
  <2>5. G = (u1 * f2 - f1) + (u1 * u2 - 1) + (2 * m) * (u1 * p2 - e * p1) + (u1 * X2 - X) * j
    BY <1>1, <2>4
  <2>6. G = (u1 * f2 - f1) + (k * k - e * e) + (2 * m) * (p1 * k - e * p1) + (u1 * X2 - X) * j
    BY <1>1, <2>4, <2>5
  <2>7. (u1 * f2 - f1) + (k * k - e * e) + (2 * m) * (p1 * k - e * p1) + (u1 * X2 - X) * j
          = ((u1 * f2 + (-1) * f1) + ((k + e) + (2 * m) * p1) * (k - e)) + (u1 * X2 - X) * j
    BY <1>1, <2>4
  <2>8. c1 = u1
    BY <2>1 DEF u1
  <2> QED BY <2>6, <2>7, <2>8
<1> HIDE DEF c1, c2, c3, c4, G, f1, f2, kk, j
<1>9. (((c1 * f2 + c2 * f1) + c3 * kk) + c4 * j) \cong 0
  BY <1>1, <1>5, <1>7, Vanish4 DEF f1, f2
<1>10. G \cong 0
  BY <1>8, <1>9
<1>11. (d * (pw * pw)) \cong (z * z)
  <2> DEFINE a == d * (pw * pw)  b == z * z
  <2>1. a \in Int /\ b \in Int /\ G = a - b
    BY <1>1 DEF G
  <2> HIDE DEF a, b
  <2>2. a \cong b
    BY <1>10, <2>1, CongDifference
  <2> QED BY <2>2 DEF a, b
<1>12. pw \cong 0
  <2> HIDE DEF pw, z
  <2> QED BY <1>1, <1>11, NoSquare
<1>13. w \cong 0
  <2> HIDE DEF w, p1
  <2> QED BY <1>1, <1>12, NonzeroProduct DEF p1
<1> QED BY <1>13

LEMMA Complete ==
  ASSUME NEW x1 \in Int, NEW y1 \in Int, NEW x2 \in Int, NEW y2 \in Int, NEW e \in {1, -1},
         Defect(x1, y1) \cong 0, Defect(x2, y2) \cong 0
  PROVE  ~(Joint(x1, y1, x2, y2) \cong e)
<1> SUFFICES ASSUME Joint(x1, y1, x2, y2) \cong e PROVE FALSE
  OBVIOUS
<1> DEFINE p1 == x1 * y1  p2 == x2 * y2  pp == p1 * p2  k == Joint(x1, y1, x2, y2)
<1>1. p1 \in Int /\ p2 \in Int /\ pp \in Int /\ k = CurveD * pp /\ CurveD \in Int /\ e \in Int /\ k \in Int
  BY CurveDIs DEF Joint
<1>2. ~(k \cong 0)
  <2> SUFFICES ASSUME k \cong 0 PROVE FALSE
    OBVIOUS
  <2> HIDE DEF k
  <2>1. e \cong k
    BY <1>1, CongSymmetric DEF k
  <2>2. e \cong 0
    BY <1>1, <2>1, CongTransitive
  <2> QED BY <2>2, SmallNumbers
<1>3. ~(p1 \cong 0) /\ ~(p2 \cong 0)
  <2> HIDE DEF p1, p2, k
  <2>1. (p1 \cong 0 \/ p2 \cong 0) => pp \cong 0
    BY <1>1, NonzeroProduct
  <2> HIDE DEF pp
  <2>2. pp \cong 0 => k \cong 0
    BY <1>1, NonzeroProduct
  <2> QED BY <1>2, <2>1, <2>2
<1> DEFINE i == sqrtM1  n == -i
<1>4. i \in Int /\ n \in Int /\ (i * i) \cong -1 /\ (n * n) \cong -1
  <2>1. i \in Int /\ (i * i) \cong -1
    BY RootOfMinusOne
  <2> HIDE DEF i
  <2>2. n * n = i * i
    BY <2>1
  <2> QED BY <2>1, <2>2
<1> HIDE DEF i, n
<1> DEFINE a == y2 + i * x2  b == y2 + n * x2  c == 2 * y2  o == 1
<1>5. a \in Int /\ b \in Int /\ c \in Int /\ c = o * a + o * b /\ o \in Int
  BY <1>4 DEF n
<1>6. a \cong 0 /\ b \cong 0
  BY <1>3, <1>4, HalfTurn
<1> HIDE DEF a, b, o
<1>7. c \cong 0
  BY <1>5, <1>6, Vanish
<1>8. y2 \cong 0
  BY <1>7, SmallNumbers, NonzeroProduct
<1>9. p2 \cong 0
  BY <1>8, NonzeroProduct
<1> QED BY <1>3, <1>9

(* The divisor of SetPointBytes never vanishes.                            *)
LEMMA DivisorIs ==
  ASSUME NEW y \in Int
  PROVE  ~((CurveD * (y * y) + 1) \cong 0)
<1> SUFFICES ASSUME (CurveD * (y * y) + 1) \cong 0 PROVE FALSE
  OBVIOUS
<1> DEFINE a == CurveD * (y * y)  o == 1  n == -(o * o)
<1>1. a \in Int /\ o \in Int /\ n \in Int /\ a - n = a + 1 /\ (a + 1) \cong 0
  BY CurveDIs
<1>2. a \cong n
  <2> HIDE DEF a, n
  <2> QED BY <1>1, CongDifference
<1> HIDE DEF o
<1>3. o \cong 0
  BY <1>1, <1>2, NoOppositeSquare
<1> QED BY <1>3, SmallNumbers DEF o

Over(n, m) == (n * Inv(m)) % Prime

LEMMA OverIs ==
  ASSUME NEW n \in Int, NEW m \in Int, ~(m \cong 0)
  PROVE  Over(n, m) \in Field /\ Over(n, m) \in Int /\ (m * Over(n, m)) \cong n
<1> DEFINE j == Inv(m)  q == Over(n, m)  nj == n * j  mj == m * j
<1>1. j \in Int /\ mj \cong 1 /\ mj \in Int
  <2>1. j \in Field /\ mj \cong 1
    BY InverseIs
  <2> HIDE DEF j
  <2> QED BY <2>1, FieldInt
<1> HIDE DEF j
<1>2. nj \in Int
  BY <1>1
<1>3. q \in Field /\ q \cong nj /\ q \in Int
  <2>1. q = nj % Prime
    BY DEF Over, j
  <2> HIDE DEF q, nj
  <2> QED BY <1>2, <2>1, CongMod, FieldInt
<1> HIDE DEF q
<1> DEFINE x == m * q  y == m * nj
<1>4. x \in Int /\ y \in Int /\ x \cong y /\ y = n * mj
  <2>1. y = n * mj /\ x \in Int /\ y \in Int
    BY <1>1, <1>2, <1>3
  <2> HIDE DEF nj
  <2> QED BY <1>2, <1>3, <2>1, CongTimes
<1>5. (n * mj) \cong n
  <2> DEFINE o == 1
  <2>1. o \in Int /\ mj \cong o /\ n * o = n
    BY <1>1
  <2> HIDE DEF o, mj
  <2> QED BY <1>1, <2>1, CongTimes
<1>6. x \cong n
  <2> HIDE DEF x, y
  <2> QED BY <1>4, <1>5, CongTransitive
<1> QED BY <1>3, <1>6 DEF q

(* The curve in plain coordinates, and its addition.                       *)
Curve == {c \in Field \X Field : Defect(c[1], c[2]) \cong 0}
JointOf(a, b) == Joint(a[1], a[2], b[1], b[2])
Skew(a, b) == a[1] * b[2] + a[2] * b[1]
Even(a, b) == a[2] * b[2] + a[1] * b[1]
Plus(a, b) == <<Over(Skew(a, b), 1 + JointOf(a, b)), Over(Even(a, b), 1 - JointOf(a, b))>>

LEMMA CurveIs ==
  ASSUME NEW a \in Curve
  PROVE  a[1] \in Field /\ a[2] \in Field /\ a[1] \in Int /\ a[2] \in Int /\ Defect(a[1], a[2]) \cong 0
         /\ a = <<a[1], a[2]>>
BY FieldInt DEF Curve

LEMMA Divisors ==
  ASSUME NEW a \in Curve, NEW b \in Curve
  PROVE  /\ JointOf(a, b) \in Int /\ Skew(a, b) \in Int /\ Even(a, b) \in Int
         /\ ~((1 + JointOf(a, b)) \cong 0) /\ ~((1 - JointOf(a, b)) \cong 0)
<1> DEFINE k == JointOf(a, b)  p == 1 + k  q == 1 - k  m == -1  o == 1
<1>1. a[1] \in Int /\ a[2] \in Int /\ b[1] \in Int /\ b[2] \in Int
  BY CurveIs
<1>2. k \in Int /\ Skew(a, b) \in Int /\ Even(a, b) \in Int
  BY <1>1, CurveDIs DEF JointOf, Joint, Skew, Even
<1>3. ~(k \cong m) /\ ~(k \cong o)
  <2>1. m \in {1, -1} /\ o \in {1, -1}
    OBVIOUS
  <2> HIDE DEF m, o
  <2> QED BY <2>1, CurveIs, Complete DEF JointOf
<1>4. p \in Int /\ q \in Int /\ m \in Int /\ o \in Int /\ p = k - m /\ q = o - k
  BY <1>2
<1> HIDE DEF p, q, m, o, k
<1>5. ~(p \cong 0)
  BY <1>2, <1>3, <1>4, CongDifference
<1>6. ~(q \cong 0)
  BY <1>2, <1>3, <1>4, CongDifference, CongSymmetric
<1> QED BY <1>2, <1>5, <1>6 DEF p, q, k

LEMMA PlusParts ==
  ASSUME NEW a \in Curve, NEW b \in Curve
  PROVE  /\ Plus(a, b)[1] \in Field /\ Plus(a, b)[2] \in Field
         /\ Plus(a, b)[1] \in Int /\ Plus(a, b)[2] \in Int
         /\ ((1 + JointOf(a, b)) * Plus(a, b)[1]) \cong Skew(a, b)
         /\ ((1 - JointOf(a, b)) * Plus(a, b)[2]) \cong Even(a, b)
<1> DEFINE k == JointOf(a, b)  p == 1 + k  q == 1 - k  s == Skew(a, b)  e == Even(a, b)
<1>1. p \in Int /\ q \in Int /\ s \in Int /\ e \in Int /\ ~(p \cong 0) /\ ~(q \cong 0)
  BY Divisors
<1>2. Plus(a, b) = <<Over(s, p), Over(e, q)>>
  BY DEF Plus
<1> HIDE DEF p, q, s, e
<1>3. Over(s, p) \in Field /\ Over(s, p) \in Int /\ (p * Over(s, p)) \cong s
  BY <1>1, OverIs
<1>4. Over(e, q) \in Field /\ Over(e, q) \in Int /\ (q * Over(e, q)) \cong e
  BY <1>1, OverIs
<1> QED BY <1>2, <1>3, <1>4 DEF p, q, s, e

(* The sum is on the curve: the identity behind it, in steps.              *)
LEMMA SumSquares ==
  ASSUME NEW x1 \in Int, NEW y1 \in Int, NEW x2 \in Int, NEW y2 \in Int
  PROVE  LET e == x1 * y2 + y1 * x2  h == y1 * y2 + x1 * x2
             p1 == x1 * y1  p2 == x2 * y2
             s1 == y1 * y1 - x1 * x1  s2 == y2 * y2 - x2 * x2
             t1 == y1 * y1 + x1 * x1  t2 == y2 * y2 + x2 * x2
         IN /\ h * h - e * e = s1 * s2
            /\ h * h + e * e = t1 * t2 + 4 * (p1 * p2)
            /\ e * h = p1 * t2 + p2 * t1
            /\ t1 * t1 = s1 * s1 + 4 * (p1 * p1) /\ t2 * t2 = s2 * s2 + 4 * (p2 * p2)
OBVIOUS

LEMMA SquareCong ==
  ASSUME NEW a \in Int, NEW b \in Int, NEW n \in Int, a \cong b
  PROVE  (n * a) \cong (n * b) /\ (a * a) \cong (b * b) /\ ((n * a) * (n * a)) \cong ((n * b) * (n * b))
<1> DEFINE na == n * a  nb == n * b
<1>1. na \in Int /\ nb \in Int /\ na \cong nb
  BY CongTimes
<1> HIDE DEF na, nb
<1>2. (na * na) \cong (nb * nb) /\ (a * a) \cong (b * b)
  BY <1>1, CongSum
<1> QED BY <1>1, <1>2 DEF na, nb

LEMMA NormCong ==
  ASSUME NEW n \in Int, NEW m \in Int, NEW w \in Int, NEW d \in Int,
         NEW a \in Int, NEW b \in Int, NEW e \in Int, NEW h \in Int, a \cong e, b \cong h
  PROVE  (((n * b) * (n * b) - (m * a) * (m * a)) - w * w - d * ((a * b) * (a * b)))
           \cong (((n * h) * (n * h) - (m * e) * (m * e)) - w * w - d * ((e * h) * (e * h)))
<1> DEFINE p == (n * b) * (n * b)  q == (m * a) * (m * a)  r == d * ((a * b) * (a * b))  c == w * w
           p1 == (n * h) * (n * h)  q1 == (m * e) * (m * e)  r1 == d * ((e * h) * (e * h))
<1>1. p \in Int /\ q \in Int /\ r \in Int /\ c \in Int /\ p1 \in Int /\ q1 \in Int /\ r1 \in Int
  OBVIOUS
<1>2. p \cong p1 /\ q \cong q1
  BY SquareCong
<1>3. r \cong r1
  <2> DEFINE ab == a * b  eh == e * h
  <2>1. ab \in Int /\ eh \in Int /\ ab \cong eh
    BY CongSum
  <2> HIDE DEF ab, eh
  <2> DEFINE x == ab * ab  y == eh * eh
  <2>2. x \in Int /\ y \in Int /\ x \cong y
    BY <2>1, CongSum
  <2> HIDE DEF x, y
  <2>3. (d * x) \cong (d * y)
    BY <2>2, CongTimes
  <2> QED BY <2>3 DEF x, y, ab, eh
<1>4. c \cong c
  BY <1>1, CongMod
<1> HIDE DEF p, q, r, c, p1, q1, r1
<1> DEFINE x == p - q  x1 == p1 - q1
<1>5. x \in Int /\ x1 \in Int /\ x \cong x1
  BY <1>1, <1>2, CongSum
<1> HIDE DEF x, x1
<1> DEFINE y == x - c  y1 == x1 - c
<1>6. y \in Int /\ y1 \in Int /\ y \cong y1
  BY <1>1, <1>4, <1>5, CongSum
<1> HIDE DEF y, y1
<1>7. (y - r) \cong (y1 - r1)
  BY <1>1, <1>3, <1>6, CongSum
<1> QED BY <1>7 DEF y, y1, x, x1, p, q, r, c, p1, q1, r1

LEMMA NormVanishes ==
  ASSUME NEW a \in Curve, NEW b \in Curve
  PROVE  LET k == JointOf(a, b)  e == Skew(a, b)  h == Even(a, b)  n == 1 + k  m == 1 - k
         IN ((((n * h) * (n * h) - (m * e) * (m * e)) - (n * m) * (n * m)) - CurveD * ((e * h) * (e * h))) \cong 0
<1> DEFINE x1 == a[1]  y1 == a[2]  x2 == b[1]  y2 == b[2]
           e == x1 * y2 + y1 * x2  h == y1 * y2 + x1 * x2
           p1 == x1 * y1  p2 == x2 * y2
           s1 == y1 * y1 - x1 * x1  s2 == y2 * y2 - x2 * x2
           t1 == y1 * y1 + x1 * x1  t2 == y2 * y2 + x2 * x2
           d == CurveD  k == d * (p1 * p2)  u1 == d * (p1 * p1)  u2 == d * (p2 * p2)
           f1 == (s1 - 1) - u1  f2 == (s2 - 1) - u2
           c1 == s2 * (1 + u1 * u2) - u2 * (s1 + 1 + u1)
           c2 == (1 + u1) * (1 + u1 * u2) - u1 * (s2 + 1 + u2)
           g == ((((1 + k) * h) * ((1 + k) * h) - ((1 - k) * e) * ((1 - k) * e))
                  - ((1 + k) * (1 - k)) * ((1 + k) * (1 - k))) - d * ((e * h) * (e * h))
<1>1. x1 \in Int /\ y1 \in Int /\ x2 \in Int /\ y2 \in Int /\ d \in Int
  BY CurveIs, CurveDIs
<1>2. Defect(x1, y1) \cong 0 /\ Defect(x2, y2) \cong 0
  BY CurveIs
<1> HIDE DEF x1, y1, x2, y2, d
<1>3. /\ e \in Int /\ h \in Int /\ p1 \in Int /\ p2 \in Int /\ s1 \in Int /\ s2 \in Int /\ t1 \in Int /\ t2 \in Int
  BY <1>1
<1>4. f1 \cong 0 /\ f2 \cong 0
  <2>1. (x1 * x1) * (y1 * y1) = p1 * p1 /\ (x2 * x2) * (y2 * y2) = p2 * p2
    BY <1>1
  <2>2. f1 = Defect(x1, y1) /\ f2 = Defect(x2, y2)
    <3> HIDE DEF p1, p2
    <3> QED BY <2>1 DEF Defect, d
  <2> QED BY <1>2, <2>2
<1>5. /\ h * h - e * e = s1 * s2
      /\ h * h + e * e = t1 * t2 + 4 * (p1 * p2)
      /\ e * h = p1 * t2 + p2 * t1
      /\ t1 * t1 = s1 * s1 + 4 * (p1 * p1) /\ t2 * t2 = s2 * s2 + 4 * (p2 * p2)
  BY <1>1, SumSquares
<1>6. g = c1 * f1 + c2 * f2
  <2>10. /\ k = d * (p1 * p2) /\ u1 = d * (p1 * p1) /\ u2 = d * (p2 * p2)
        /\ f1 = (s1 - 1) - u1 /\ f2 = (s2 - 1) - u2
        /\ g = ((1 + k) * h) * ((1 + k) * h) - ((1 - k) * e) * ((1 - k) * e)
               - ((1 + k) * (1 - k)) * ((1 + k) * (1 - k)) - d * ((e * h) * (e * h))
    OBVIOUS
  <2> HIDE DEF e, h, p1, p2, s1, s2, t1, t2
  <2> HIDE DEF k, u1, u2, f1, f2, g
  <2> DEFINE L == g
  <2> DEFINE A == h * h - e * e  BB == h * h + e * e  C == e * h
  <2>1. k \in Int /\ u1 \in Int /\ u2 \in Int /\ A \in Int /\ BB \in Int /\ C \in Int /\ L \in Int
    BY <1>1, <1>3, <1>5, <2>10
  <2>2. L = A * (1 + k * k) + 2 * k * BB - (1 - k * k) * (1 - k * k) - d * (C * C)
    <3> QED BY <1>1, <1>3, <2>1, <2>10
  <2>3. d * (C * C) = d * ((p1 * p1) * (t2 * t2)) + d * ((p2 * p2) * (t1 * t1)) + 2 * k * (t1 * t2)
    <3> DEFINE w1 == p1 * t2  w2 == p2 * t1  tt == t1 * t2  q == p1 * p2  v == w1 * w2
    <3>1. /\ w1 \in Int /\ w2 \in Int /\ tt \in Int /\ q \in Int /\ v \in Int /\ d \in Int
          /\ C = w1 + w2 /\ w1 * w1 = (p1 * p1) * (t2 * t2) /\ w2 * w2 = (p2 * p2) * (t1 * t1) /\ v = q * tt
      BY <1>1, <1>3, <1>5 DEF C
    <3>2. (w1 + w2) * (w1 + w2) = w1 * w1 + w2 * w2 + 2 * v
      BY <3>1
    <3>3. k = d * q
      BY <2>10
    <3> DEFINE s == w1 * w1  t == w2 * w2
    <3>4. s \in Int /\ t \in Int /\ s = (p1 * p1) * (t2 * t2) /\ t = (p2 * p2) * (t1 * t1)
      BY <3>1
    <3> HIDE DEF w1, w2, tt, q, v, C, s, t
    <3>5. C * C = s + t + 2 * v
      BY <3>1, <3>2 DEF s, t
    <3> DEFINE cc == C * C  dv == d * v
    <3>6. dv = k * tt /\ dv \in Int
      BY <3>1, <3>3
    <3>7. cc = s + t + 2 * v
      BY <3>5
    <3> HIDE DEF cc
    <3>8. d * cc = d * s + d * t + 2 * dv
      BY <3>1, <3>4, <3>7
    <3> HIDE DEF dv
    <3>9. 2 * dv = 2 * k * tt
      BY <2>1, <3>1, <3>6
    <3> QED BY <3>4, <3>8, <3>9 DEF tt, cc
  <2>4. d * ((p1 * p1) * (t2 * t2)) = u1 * (t2 * t2) /\ d * ((p2 * p2) * (t1 * t1)) = u2 * (t1 * t1)
    <3> DEFINE q1 == p1 * p1  q2 == p2 * p2  r1 == t1 * t1  r2 == t2 * t2
    <3>1. q1 \in Int /\ q2 \in Int /\ r1 \in Int /\ r2 \in Int
      BY <1>1, <1>3, <1>5, <2>10
    <3> HIDE DEF q1, q2, r1, r2
    <3>2. d * (q1 * r2) = (d * q1) * r2 /\ d * (q2 * r1) = (d * q2) * r1
      BY <3>1, <1>1
    <3> QED BY <3>2, <2>10 DEF q1, q2, r1, r2
  <2>5. k * k = u1 * u2 /\ u1 * (4 * (p2 * p2)) = 4 * (k * (p1 * p2)) /\ u2 * (4 * (p1 * p1)) = 4 * (k * (p1 * p2))
    BY <1>1, <1>3, <1>5, <2>10
  <2>6. /\ u1 * (t2 * t2) = u1 * (s2 * s2) + u1 * (4 * (p2 * p2))
        /\ u2 * (t1 * t1) = u2 * (s1 * s1) + u2 * (4 * (p1 * p1))
    <3> DEFINE r1 == t1 * t1  r2 == t2 * t2  a1 == s1 * s1  a2 == s2 * s2  b1 == 4 * (p1 * p1)  b2 == 4 * (p2 * p2)
    <3>1. /\ r1 = a1 + b1 /\ r2 = a2 + b2 /\ a1 \in Int /\ a2 \in Int /\ b1 \in Int /\ b2 \in Int
          /\ u1 \in Int /\ u2 \in Int
      BY <1>1, <1>3, <1>5, <2>10
    <3> HIDE DEF r1, r2, a1, a2, b1, b2
    <3>2. u1 * r2 = u1 * a2 + u1 * b2 /\ u2 * r1 = u2 * a1 + u2 * b1
      BY <3>1
    <3> QED BY <3>2 DEF r1, r2, a1, a2, b1, b2
  <2>7. 2 * k * BB = 2 * k * (t1 * t2) + 8 * (k * (p1 * p2))
    <3> DEFINE tt == t1 * t2  pp == p1 * p2
    <3>1. BB = tt + 4 * pp /\ tt \in Int /\ pp \in Int
      BY <1>1, <1>3, <1>5, <2>10
    <3>2. k \in Int
      BY <1>1, <1>3, <1>5, <2>10
    <3> HIDE DEF BB, tt, pp
    <3>3. 2 * k * (tt + 4 * pp) = 2 * k * tt + 8 * (k * pp)
      BY <3>1, <3>2
    <3>4. 2 * k * BB = 2 * k * tt + 8 * (k * pp)
      BY <3>1, <3>3
    <3> QED BY <3>4 DEF tt, pp
  <2>8. L = (s1 * s2) * (1 + u1 * u2) - (1 - u1 * u2) * (1 - u1 * u2) - u1 * (s2 * s2) - u2 * (s1 * s1)
    <3> DEFINE kk == k * k  aa == s1 * s2  bb == 2 * k * BB  c == d * (C * C)  gg == 2 * k * (t1 * t2)
               h1 == u1 * (s2 * s2)  h2 == u2 * (s1 * s1)  r == k * (p1 * p2)
               m1 == u1 * (4 * (p2 * p2))  m2 == u2 * (4 * (p1 * p1))
               v1 == d * ((p1 * p1) * (t2 * t2))  v2 == d * ((p2 * p2) * (t1 * t1))
    <3>1. /\ L = A * (1 + kk) + bb - (1 - kk) * (1 - kk) - c /\ A = aa
          /\ c = v1 + v2 + gg /\ v1 = h1 + m1 /\ v2 = h2 + m2 /\ m1 = 4 * r /\ m2 = 4 * r
          /\ bb = gg + 8 * r
      BY <1>5, <2>2, <2>3, <2>4, <2>5, <2>6, <2>7
    <3>2. /\ kk \in Int /\ aa \in Int /\ bb \in Int /\ c \in Int /\ gg \in Int /\ h1 \in Int /\ h2 \in Int /\ r \in Int
          /\ m1 \in Int /\ m2 \in Int /\ v1 \in Int /\ v2 \in Int
      BY <1>1, <1>3, <2>1, <2>10
    <3>3. kk = u1 * u2
      BY <2>5
    <3> HIDE DEF kk, aa, bb, c, gg, h1, h2, r, m1, m2, v1, v2, A
    <3>4. L = aa * (1 + kk) - (1 - kk) * (1 - kk) - h1 - h2
      BY <1>1, <1>3, <3>1, <3>2
    <3> QED BY <3>3, <3>4 DEF aa, h1, h2
  <2>9. (s1 * s2) * (1 + u1 * u2) - (1 - u1 * u2) * (1 - u1 * u2) - u1 * (s2 * s2) - u2 * (s1 * s1)
          = (s2 * (1 + u1 * u2) - u2 * (s1 + 1 + u1)) * f1
            + ((1 + u1) * (1 + u1 * u2) - u1 * (s2 + 1 + u2)) * f2
    <3> QED BY <1>1, <1>3, <2>1, <2>10
  <2> QED BY <2>8, <2>9
<1>7. f1 \in Int /\ f2 \in Int /\ c1 \in Int /\ c2 \in Int
  <2> HIDE DEF p1, p2, s1, s2
  <2> QED BY <1>1, <1>3
<1>8. g \cong 0
  <2> HIDE DEF f1, f2, c1, c2, g
  <2> QED BY <1>4, <1>6, <1>7, Vanish
<1>9. JointOf(a, b) = k /\ Skew(a, b) = e /\ Even(a, b) = h
  BY DEF JointOf, Joint, Skew, Even, x1, y1, x2, y2, d
<1> HIDE DEF e, h, k
<1> QED BY <1>8, <1>9 DEF d

(* The sum of two points of the curve is one, by the addition law.         *)
THEOREM PlusOnCurve ==
  ASSUME NEW a \in Curve, NEW b \in Curve
  PROVE  Plus(a, b) \in Curve
<1> DEFINE k == JointOf(a, b)  e == Skew(a, b)  h == Even(a, b)  n == 1 + k  m == 1 - k  w == n * m
           x == Plus(a, b)[1]  y == Plus(a, b)[2]  A == n * x  BB == m * y  d == CurveD
           f == Defect(x, y)
<1>1. k \in Int /\ e \in Int /\ h \in Int /\ ~(n \cong 0) /\ ~(m \cong 0) /\ d \in Int
  BY Divisors, CurveDIs
<1>2. x \in Field /\ y \in Field /\ x \in Int /\ y \in Int /\ A \cong e /\ BB \cong h
  BY PlusParts
<1>3. ((((n * h) * (n * h) - (m * e) * (m * e)) - w * w) - d * ((e * h) * (e * h))) \cong 0
  BY NormVanishes
<1> HIDE DEF k, e, h, x, y, d
<1>4. n \in Int /\ m \in Int
  BY <1>1
<1> HIDE DEF n, m
<1>5. w \in Int /\ A \in Int /\ BB \in Int
  BY <1>2, <1>4
<1> DEFINE L == (((n * BB) * (n * BB) - (m * A) * (m * A)) - w * w) - d * ((A * BB) * (A * BB))
           R == (((n * h) * (n * h) - (m * e) * (m * e)) - w * w) - d * ((e * h) * (e * h))
           ww == w * w
<1>6. L \cong R
  <2> HIDE DEF A, BB, w
  <2> QED BY <1>1, <1>2, <1>4, <1>5, NormCong
<1>7. L = ww * f
  <2> DEFINE X == x * x  Y == y * y
  <2>1. n * BB = w * y /\ m * A = w * x /\ A * BB = w * (x * y)
    BY <1>2, <1>4
  <2>2. (w * y) * (w * y) = ww * Y /\ (w * x) * (w * x) = ww * X /\ (w * (x * y)) * (w * (x * y)) = ww * (X * Y)
    <3> HIDE DEF w
    <3> QED BY <1>2, <1>5
  <2>3. X \in Int /\ Y \in Int /\ ww \in Int
    BY <1>2, <1>5
  <2>4. L = ((ww * Y - ww * X) - ww) - d * (ww * (X * Y))
    BY <2>1, <2>2
  <2>5. f = ((Y - X) - 1) - d * (X * Y)
    BY DEF Defect, d
  <2> HIDE DEF X, Y, ww, L, f
  <2>6. ((ww * Y - ww * X) - ww) - d * (ww * (X * Y)) = ww * (((Y - X) - 1) - d * (X * Y))
    BY <1>1, <2>3
  <2> QED BY <2>4, <2>5, <2>6
<1>8. R \cong 0
  BY <1>3
<1>9. L \in Int /\ R \in Int /\ f \in Int /\ ww \in Int
  <2>1. f \in Int
    BY <1>2, DefectInt
  <2> HIDE DEF A, BB, w
  <2> QED BY <1>1, <1>4, <1>5, <2>1
<1>10. L \cong 0
  <2> HIDE DEF L, R
  <2> QED BY <1>6, <1>8, <1>9, CongTransitive
<1>11. ~(ww \cong 0)
  <2>1. ~(w \cong 0)
    BY <1>1, <1>4, NonzeroProduct
  <2> HIDE DEF w
  <2> QED BY <1>5, <2>1, NonzeroProduct
<1>12. f \cong 0
  <2> HIDE DEF L, ww, f
  <2> QED BY <1>7, <1>9, <1>10, <1>11, NoZeroDivisors
<1>13. Plus(a, b) = <<x, y>>
  BY DEF Plus, x, y
<1> QED BY <1>2, <1>12, <1>13 DEF Curve

LEMMA LinearCong ==
  ASSUME NEW a \in Int, NEW b \in Int, NEW u \in Int, NEW v \in Int, NEW c \in Int, NEW e \in Int,
         a \cong b, u \cong v
  PROVE  (c * a + e * u) \cong (c * b + e * v)
<1> DEFINE x == c * a  y == c * b  z == e * u  w == e * v
<1>1. x \in Int /\ y \in Int /\ z \in Int /\ w \in Int /\ x \cong y /\ z \cong w
  BY CongTimes
<1> HIDE DEF x, y, z, w
<1>2. (x + z) \cong (y + w)
  BY <1>1, CongSum
<1> QED BY <1>2 DEF x, y, z, w

(* A quotient is the field element that the divisor takes to the dividend. *)
LEMMA Unique ==
  ASSUME NEW x \in Field, NEW y \in Field, NEW m \in Int, NEW n \in Int, ~(m \cong 0),
         (m * x) \cong n, (m * y) \cong n
  PROVE  x = y
<1> DEFINE mx == m * x  my == m * y
<1>1. x \in Int /\ y \in Int
  BY FieldInt
<1>2. mx \in Int /\ my \in Int /\ mx \cong n /\ my \cong n
  BY <1>1
<1> HIDE DEF mx, my
<1>3. mx \cong my
  BY <1>2, CongSymmetric, CongTransitive
<1>4. x \cong y
  BY <1>1, <1>3, Cancel DEF mx, my
<1> QED BY <1>4, CongEqual

(* The order of the summands does not matter, <<0, 1>> changes nothing, and*)
(* every point has an opposite.                                            *)
LEMMA PlusCommutes ==
  ASSUME NEW a \in Curve, NEW b \in Curve
  PROVE  Plus(a, b) = Plus(b, a)
<1>1. a[1] \in Int /\ a[2] \in Int /\ b[1] \in Int /\ b[2] \in Int
  BY CurveIs
<1>2. Skew(a, b) = Skew(b, a) /\ Even(a, b) = Even(b, a)
  BY <1>1 DEF Skew, Even
<1>3. JointOf(a, b) = JointOf(b, a)
  <2> DEFINE p == a[1] * a[2]  q == b[1] * b[2]
  <2>1. p \in Int /\ q \in Int
    BY <1>1
  <2> HIDE DEF p, q
  <2>2. p * q = q * p
    BY <2>1
  <2> QED BY <2>2 DEF JointOf, Joint, p, q
<1> QED BY <1>2, <1>3 DEF Plus

Neutral == <<0, 1>>

LEMMA PlusZero ==
  Neutral \in Curve /\ \A a \in Curve : Plus(a, Neutral) = a /\ Plus(Neutral, a) = a
<1>1. Neutral \in Curve
  <2>1. Defect(0, 1) = 0 /\ 0 \in Field /\ 1 \in Field
    BY CurveDIs, PrimeIsLarge DEF Defect
  <2>2. 0 \cong 0
    BY CongMod
  <2> QED BY <2>1, <2>2 DEF Curve, Neutral
<1>2. ASSUME NEW a \in Curve PROVE Plus(a, Neutral) = a
  <2> DEFINE k == JointOf(a, Neutral)  p == Plus(a, Neutral)
  <2>1. /\ p[1] \in Field /\ p[2] \in Field /\ p[1] \in Int /\ p[2] \in Int
        /\ ((1 + k) * p[1]) \cong Skew(a, Neutral) /\ ((1 - k) * p[2]) \cong Even(a, Neutral)
    BY <1>1, PlusParts
  <2>2. a[1] \in Field /\ a[2] \in Field /\ a[1] \in Int /\ a[2] \in Int /\ a = <<a[1], a[2]>>
    BY CurveIs
  <2>3. k = 0 /\ Skew(a, Neutral) = a[1] /\ Even(a, Neutral) = a[2]
    BY <2>2, CurveDIs DEF JointOf, Joint, Skew, Even, Neutral
  <2>4. (1 + k) * p[1] = p[1] /\ (1 - k) * p[2] = p[2]
    <3> HIDE DEF p, k
    <3> QED BY <2>1, <2>3
  <2>5. p[1] = a[1] /\ p[2] = a[2]
    <3> HIDE DEF p, k
    <3> QED BY <2>1, <2>2, <2>3, <2>4, CongEqual
  <2>6. p = <<p[1], p[2]>>
    BY DEF Plus
  <2> QED BY <2>2, <2>5, <2>6
<1>3. \A a \in Curve : Plus(a, Neutral) = a /\ Plus(Neutral, a) = a
  BY <1>1, <1>2, PlusCommutes
<1> QED BY <1>1, <1>3

Opposite(a) == <<Negate(a[1]), a[2]>>

LEMMA OppositeIs ==
  ASSUME NEW a \in Curve
  PROVE  Opposite(a) \in Curve /\ Plus(a, Opposite(a)) = Neutral /\ Plus(Opposite(a), a) = Neutral
<1> DEFINE b == Opposite(a)  x == a[1]  y == a[2]  n == Negate(x)  m == -x  d == CurveD
           X == x * x  Y == y * y  N == n * n  f == Defect(x, y)
<1>1. x \in Field /\ y \in Field /\ x \in Int /\ y \in Int /\ f \cong 0 /\ m \in Int /\ d \in Int
  BY CurveIs, CurveDIs
<1>2. n \in Field /\ n \cong m /\ n \in Int
  <2>1. n \in Field /\ n \cong m
    BY <1>1, NegateIs
  <2> HIDE DEF n
  <2> QED BY <2>1, FieldInt
<1>3. b = <<n, y>> /\ b[1] = n /\ b[2] = y
  BY DEF Opposite
<1> HIDE DEF x, y, n, b
<1>4. X \in Int /\ Y \in Int /\ N \in Int /\ N \cong X
  <2>1. m * m = X
    BY <1>1
  <2> HIDE DEF m
  <2>2. (n * n) \cong (m * m)
    BY <1>1, <1>2, CongSum
  <2> QED BY <1>1, <1>2, <2>1, <2>2
<1>5. b \in Curve
  <2> DEFINE g == Defect(n, y)  c == -(1 + d * Y)  o == 1  z == N - X
  <2>1. g = o * f + c * z /\ f \in Int /\ z \in Int /\ c \in Int /\ o \in Int
    <3>1. f \in Int
      BY <1>1, DefectInt
    <3>2. f = ((Y - X) - 1) - d * (X * Y) /\ g = ((Y - N) - 1) - d * (N * Y)
      BY DEF Defect
    <3> HIDE DEF X, Y, N, f, g
    <3> QED BY <1>1, <1>4, <3>1, <3>2
  <2>2. z \cong 0
    <3> HIDE DEF X, N
    <3> QED BY <1>4, CongDifference
  <2> HIDE DEF g, c, o, z, f
  <2>3. g \cong 0
    BY <1>1, <2>1, <2>2, Vanish
  <2> QED BY <1>1, <1>2, <1>3, <2>3 DEF Curve, g
<1> DEFINE k == JointOf(a, b)  p == Plus(a, b)
<1>6. /\ p[1] \in Field /\ p[2] \in Field /\ p[1] \in Int /\ p[2] \in Int
      /\ ((1 + k) * p[1]) \cong Skew(a, b) /\ ((1 - k) * p[2]) \cong Even(a, b)
      /\ k \in Int /\ ~((1 + k) \cong 0) /\ ~((1 - k) \cong 0)
  BY <1>5, PlusParts, Divisors
<1>7. p = <<p[1], p[2]>>
  BY DEF Plus
<1> HIDE DEF k, p
<1> DEFINE g == n + x
<1>8. g \in Int /\ g \cong 0
  <2>1. g = n - m
    BY <1>1, <1>2
  <2>2. g \in Int
    BY <1>1, <1>2
  <2> HIDE DEF m, g
  <2>3. (n - m) \cong 0
    BY <1>1, <1>2, CongDifference
  <2> QED BY <2>1, <2>2, <2>3
<1>9. Skew(a, b) = y * g /\ Even(a, b) = (Y - X) + x * g /\ k = d * ((x * g) * Y) - d * (X * Y)
  <2>1. Skew(a, b) = x * y + y * n /\ Even(a, b) = y * y + x * n /\ k = d * ((x * y) * (n * y))
    BY <1>3 DEF Skew, Even, k, JointOf, Joint, x, y
  <2>2. (x * y) * (n * y) = (x * g) * Y - X * Y
    BY <1>1, <1>2
  <2> DEFINE u == (x * g) * Y  v == X * Y
  <2>3. u \in Int /\ v \in Int /\ k = d * (u - v)
    BY <1>1, <1>2, <2>1, <2>2
  <2>4. k = d * u - d * v
    <3> HIDE DEF u, v
    <3> QED BY <1>1, <2>3
  <2> QED BY <1>1, <1>2, <2>1, <2>4
<1>10. p[1] = 0
  <2> DEFINE q == 1 + k  s == Skew(a, b)  t == q * 0
  <2>1. s \cong 0 /\ s \in Int /\ q \in Int
    <3>1. s = y * g
      BY <1>9
    <3> HIDE DEF s, g
    <3> QED BY <1>1, <1>6, <1>8, <3>1, NonzeroProduct
  <2>2. 0 \cong s
    <3> HIDE DEF s
    <3> QED BY <2>1, CongSymmetric
  <2>3. (q * 0) \cong s /\ 0 \in Field
    BY <1>6, <2>2, PrimeIsLarge
  <2> HIDE DEF q, s
  <2> QED BY <1>6, <2>1, <2>3, Unique DEF q, s
<1>11. p[2] = 1
  <2> DEFINE q == 1 - k  e == Even(a, b)
  <2>1. q \in Int /\ e \in Int
    BY <1>1, <1>4, <1>6, <1>8, <1>9
  <2>2. q \cong e
    <3> DEFINE xg == x * g  o == -1  c == -(1 + d * Y)
    <3>1. q - e = o * f + c * xg
      <4>1. f = ((Y - X) - 1) - d * (X * Y)
        BY DEF Defect
      <4>2. q = 1 - (d * (xg * Y) - d * (X * Y)) /\ e = (Y - X) + xg
        BY <1>9
      <4>3. xg \in Int
        BY <1>1, <1>8
      <4> HIDE DEF X, Y, xg, f, q, e
      <4> QED BY <1>1, <1>4, <4>1, <4>2, <4>3
    <3>2. xg \in Int /\ xg \cong 0 /\ o \in Int /\ c \in Int /\ f \in Int
      <4>1. xg \cong 0 /\ xg \in Int
        <5> HIDE DEF g
        <5> QED BY <1>1, <1>8, NonzeroProduct
      <4>2. f \in Int
        BY <1>1, DefectInt
      <4>3. c \in Int
        BY <1>1
      <4> QED BY <4>1, <4>2, <4>3
    <3> HIDE DEF xg, o, c, f, q, e
    <3>3. (o * f + c * xg) \cong 0
      BY <1>1, <3>2, Vanish
    <3>4. (q - e) \cong 0
      BY <3>1, <3>3
    <3> QED BY <2>1, <3>4, CongDifference
  <2>3. (q * 1) \cong e /\ 1 \in Field
    <3>1. q * 1 = q
      BY <2>1
    <3> QED BY <2>2, <3>1, PrimeIsLarge
  <2> HIDE DEF q, e
  <2> QED BY <1>6, <2>1, <2>3, Unique DEF q, e
<1>12. Plus(a, b) = Neutral
  BY <1>7, <1>10, <1>11 DEF Neutral, p
<1>13. Plus(b, a) = Neutral
  BY <1>5, <1>12, PlusCommutes
<1> QED BY <1>5, <1>12, <1>13 DEF b

(* The sum of three points, over one divisor.                              *)
LeftX(a, b, c) == ((1 - JointOf(a, b)) * c[2]) * Skew(a, b) + ((1 + JointOf(a, b)) * c[1]) * Even(a, b)
LeftY(a, b, c) == ((1 + JointOf(a, b)) * c[2]) * Even(a, b) + ((1 - JointOf(a, b)) * c[1]) * Skew(a, b)
Both(a, b) == (1 + JointOf(a, b)) * (1 - JointOf(a, b))
Threefold(a, b, c) == (CurveD * (c[1] * c[2])) * (Skew(a, b) * Even(a, b))

LeftSum(a, b, c) ==
  LET G == Both(a, b) + Threefold(a, b, c)  F == Both(a, b) - Threefold(a, b, c)
  IN /\ LeftX(a, b, c) \in Int /\ LeftY(a, b, c) \in Int /\ G \in Int /\ F \in Int
     /\ ~(G \cong 0) /\ ~(F \cong 0)
     /\ (G * Plus(Plus(a, b), c)[1]) \cong LeftX(a, b, c)
     /\ (F * Plus(Plus(a, b), c)[2]) \cong LeftY(a, b, c)
     /\ Plus(Plus(a, b), c) \in Curve

LEMMA LeftParts ==
  ASSUME NEW a \in Curve, NEW b \in Curve, NEW c \in Curve
  PROVE  LeftSum(a, b, c)
<1> DEFINE d == CurveD  k == JointOf(a, b)  e == Skew(a, b)  h == Even(a, b)  n == 1 + k  m == 1 - k
           q == Plus(a, b)  X == q[1]  Y == q[2]  x == c[1]  y == c[2]
           A == n * X  BB == m * Y  w == n * m  j == JointOf(q, c)  s == Skew(q, c)  t == Even(q, c)
           p == Plus(q, c)  U == p[1]  V == p[2]  r == d * (x * y)
           g == w + r * (e * h)  f == w - r * (e * h)
<1>1. k \in Int /\ e \in Int /\ h \in Int /\ ~(n \cong 0) /\ ~(m \cong 0) /\ d \in Int
  BY Divisors, CurveDIs
<1>2. X \in Int /\ Y \in Int /\ A \cong e /\ BB \cong h
  BY PlusParts
<1>3. q \in Curve
  BY PlusOnCurve
<1>4. x \in Int /\ y \in Int
  BY CurveIs
<1>5. /\ j \in Int /\ s \in Int /\ t \in Int /\ ~((1 + j) \cong 0) /\ ~((1 - j) \cong 0)
      /\ U \in Int /\ V \in Int /\ ((1 + j) * U) \cong s /\ ((1 - j) * V) \cong t /\ p \in Curve
  <2> HIDE DEF q
  <2> QED BY <1>3, Divisors, PlusParts, PlusOnCurve
<1>6. j = d * ((X * Y) * (x * y)) /\ s = X * y + Y * x /\ t = Y * y + X * x
  BY DEF JointOf, Joint, Skew, Even
<1>7. /\ LeftX(a, b, c) = (m * y) * e + (n * x) * h
      /\ LeftY(a, b, c) = (n * y) * h + (m * x) * e
      /\ Both(a, b) = w /\ Threefold(a, b, c) = r * (e * h)
  BY DEF LeftX, LeftY, Both, Threefold
<1> HIDE DEF k, e, h, d, X, Y, x, y, j, s, t, U, V, p, q
<1>8. n \in Int /\ m \in Int /\ r \in Int
  BY <1>1, <1>4
<1> HIDE DEF n, m
<1>9. A \in Int /\ BB \in Int /\ w \in Int /\ e * h \in Int
  BY <1>1, <1>2, <1>8
<1>10. g \in Int /\ f \in Int
  <2> HIDE DEF w, r
  <2> QED BY <1>8, <1>9
<1>11. (A * BB) \cong (e * h)
  <2> HIDE DEF A, BB
  <2> QED BY <1>1, <1>2, <1>9, CongSum
<1>12. w * j = r * (A * BB)
  <2>1. A * BB = w * (X * Y)
    BY <1>2, <1>8
  <2> DEFINE z == X * Y  v == x * y
  <2>2. z \in Int /\ v \in Int /\ r = d * v /\ j = d * (z * v) /\ A * BB = w * z
    BY <1>2, <1>4, <1>6, <2>1
  <2> HIDE DEF z, v, r, w
  <2>3. w * (d * (z * v)) = (d * v) * (w * z)
    BY <1>1, <1>9, <2>2
  <2> QED BY <2>2, <2>3
<1> DEFINE ab == A * BB  eh == e * h  wj == w * j
<1>13. ab \in Int /\ eh \in Int /\ wj \in Int /\ wj = r * ab /\ ab \cong eh /\ g = w + r * eh /\ f = w - r * eh
  <2>1. ab \in Int
    BY <1>9
  <2>2. wj \in Int
    <3> HIDE DEF w
    <3> QED BY <1>5, <1>9
  <2> QED BY <1>9, <1>11, <1>12, <2>1, <2>2
<1> HIDE DEF ab, eh, wj
<1> DEFINE reh == r * eh
<1>14. wj \cong reh /\ reh \in Int
  <2>1. (r * ab) \cong (r * eh)
    <3> HIDE DEF r
    <3> QED BY <1>8, <1>13, CongTimes
  <2>2. reh \in Int
    <3> HIDE DEF r
    <3> QED BY <1>8, <1>13
  <2> QED BY <1>13, <2>1, <2>2
<1>15. (w + wj) \cong g /\ (w - wj) \cong f
  <2>1. w \cong w
    BY <1>9, CongMod
  <2> HIDE DEF w, reh
  <2>2. (w + wj) \cong (w + reh) /\ (w - wj) \cong (w - reh)
    BY <1>9, <1>13, <1>14, <2>1, CongSum
  <2> QED BY <1>13, <2>2 DEF reh
<1> DEFINE j1 == 1 + j  j2 == 1 - j  g1 == w * j1  f1 == w * j2
<1>16. j1 \in Int /\ j2 \in Int /\ g1 \in Int /\ f1 \in Int /\ g1 \cong g /\ f1 \cong f
       /\ ~(j1 \cong 0) /\ ~(j2 \cong 0)
  <2>1. j1 \in Int /\ j2 \in Int
    BY <1>5
  <2>2. g1 = w + wj /\ f1 = w - wj
    <3> HIDE DEF w
    <3> QED BY <1>5, <1>9 DEF wj
  <2>3. g1 \in Int /\ f1 \in Int
    BY <1>9, <1>13, <2>2
  <2> HIDE DEF g1, f1, g, f
  <2> QED BY <1>5, <1>15, <2>1, <2>2, <2>3
<1>17. ~(w \cong 0)
  BY <1>1, <1>8, NonzeroProduct DEF n, m
<1>18. ~(g1 \cong 0) /\ ~(f1 \cong 0)
  <2> HIDE DEF w, j1, j2
  <2> QED BY <1>9, <1>16, <1>17, NonzeroProduct
<1> HIDE DEF g, f, g1, f1, w
<1>19. ~(g \cong 0) /\ ~(f \cong 0)
  BY <1>10, <1>16, <1>18, CongTransitive
<1>20. (g * U) \cong LeftX(a, b, c)
  <2> DEFINE ju == j1 * U  L == g1 * U  R == g * U  ws == w * s  l == (m * y) * e + (n * x) * h
             my == m * y  nx == n * x
  <2>1. ju \in Int /\ ju \cong s /\ L \in Int /\ R \in Int /\ ws \in Int /\ my \in Int /\ nx \in Int
    BY <1>4, <1>5, <1>8, <1>9, <1>10, <1>16
  <2>2. L = w * ju
    <3> HIDE DEF j1
    <3> QED BY <1>5, <1>9, <1>16 DEF g1
  <2> HIDE DEF ju, j1
  <2>3. L \cong ws
    <3>1. (w * ju) \cong (w * s)
      BY <1>5, <1>9, <2>1, CongTimes
    <3> QED BY <2>2, <3>1
  <2>4. L \cong R
    BY <1>5, <1>10, <1>16, CongTimes
  <2> HIDE DEF L, R
  <2>5. ws = my * A + nx * BB
    BY <1>2, <1>4, <1>6, <1>8 DEF w
  <2> HIDE DEF my, nx, A, BB
  <2>6. (my * A + nx * BB) \cong (my * e + nx * h)
    BY <1>1, <1>2, <1>9, <2>1, LinearCong
  <2> DEFINE z == my * e + nx * h
  <2>7. ws \cong z /\ z \in Int /\ z = LeftX(a, b, c)
    <3>1. z \in Int
      BY <1>1, <2>1
    <3>2. z = LeftX(a, b, c)
      BY <1>7 DEF my, nx
    <3> QED BY <2>5, <2>6, <3>1, <3>2
  <2> HIDE DEF ws, z
  <2>8. R \cong L
    BY <2>1, <2>4, CongSymmetric
  <2>9. R \cong ws
    BY <2>1, <2>3, <2>8, CongTransitive
  <2>10. R \cong z
    BY <2>1, <2>7, <2>9, CongTransitive
  <2> QED BY <2>7, <2>10 DEF R
<1>21. (f * V) \cong LeftY(a, b, c)
  <2> DEFINE ju == j2 * V  L == f1 * V  R == f * V  ws == w * t
             my == n * y  nx == m * x
  <2>1. ju \in Int /\ ju \cong t /\ L \in Int /\ R \in Int /\ ws \in Int /\ my \in Int /\ nx \in Int
    BY <1>4, <1>5, <1>8, <1>9, <1>10, <1>16
  <2>2. L = w * ju
    <3> HIDE DEF j2
    <3> QED BY <1>5, <1>9, <1>16 DEF f1
  <2> HIDE DEF ju, j2
  <2>3. L \cong ws
    <3>1. (w * ju) \cong (w * t)
      BY <1>5, <1>9, <2>1, CongTimes
    <3> QED BY <2>2, <3>1
  <2>4. L \cong R
    BY <1>5, <1>10, <1>16, CongTimes
  <2> HIDE DEF L, R
  <2>5. ws = my * BB + nx * A
    BY <1>2, <1>4, <1>6, <1>8 DEF w
  <2> HIDE DEF my, nx, A, BB
  <2>6. (my * BB + nx * A) \cong (my * h + nx * e)
    BY <1>1, <1>2, <1>9, <2>1, LinearCong
  <2> DEFINE z == my * h + nx * e
  <2>7. ws \cong z /\ z \in Int /\ z = LeftY(a, b, c)
    <3>1. z \in Int
      BY <1>1, <2>1
    <3>2. z = LeftY(a, b, c)
      BY <1>7 DEF my, nx
    <3> QED BY <2>5, <2>6, <3>1, <3>2
  <2> HIDE DEF ws, z
  <2>8. R \cong L
    BY <2>1, <2>4, CongSymmetric
  <2>9. R \cong ws
    BY <2>1, <2>3, <2>8, CongTransitive
  <2>10. R \cong z
    BY <2>1, <2>7, <2>9, CongTransitive
  <2> QED BY <2>7, <2>10 DEF R
<1>22. LeftX(a, b, c) \in Int /\ LeftY(a, b, c) \in Int
  <2>1. m * y \in Int /\ n * x \in Int /\ n * y \in Int /\ m * x \in Int
    BY <1>4, <1>8
  <2> QED BY <1>1, <1>7, <2>1
<1>23. g = Both(a, b) + Threefold(a, b, c) /\ f = Both(a, b) - Threefold(a, b, c)
  BY <1>7 DEF g, f
<1>24. /\ g \in Int /\ f \in Int /\ ~(g \cong 0) /\ ~(f \cong 0) /\ p \in Curve
       /\ (g * p[1]) \cong LeftX(a, b, c) /\ (f * p[2]) \cong LeftY(a, b, c)
  BY <1>5, <1>10, <1>19, <1>20, <1>21 DEF U, V
<1> HIDE DEF g, f
<1> QED BY <1>22, <1>23, <1>24, Zenon DEF LeftSum, p, q

(* What makes the two sums of three points equal: S and T stand for the    *)
(* coordinates without their divisors, A and BB for what k multiplies.      *)
CrossFacts(d, p1, p2, p3, s1, s2, s3, t1, t2, t3, S, A1, A3, B1, B3, T) ==
  /\ d \in Int /\ p1 \in Int /\ p2 \in Int /\ p3 \in Int /\ s1 \in Int /\ s2 \in Int /\ s3 \in Int
  /\ t1 \in Int /\ t2 \in Int /\ t3 \in Int /\ S \in Int /\ A1 \in Int /\ A3 \in Int
  /\ B1 \in Int /\ B3 \in Int /\ T \in Int
  /\ S * s3 + A3 * t3 = 2 * (p3 * B3) /\ S * s1 + A1 * t1 = 2 * (p1 * B1)
  /\ A3 * t2 + A1 * s2 = -(2 * (p2 * B3)) /\ A1 * t2 + A3 * s2 = -(2 * (p2 * B1))
  /\ S * t3 + A3 * s3 = 2 * (p3 * T) /\ S * t1 + A1 * s1 = 2 * (p1 * T)
  /\ ((s1 - 1) - d * (p1 * p1)) \cong 0
  /\ ((s2 - 1) - d * (p2 * p2)) \cong 0
  /\ ((s3 - 1) - d * (p3 * p3)) \cong 0

Crosses(d, p1, p2, p3, t1, t2, t3, S, A1, A3) ==
  LET k == d * (p1 * p2)  l == d * (p3 * p2)
  IN ((S + k * A3) * ((1 - l * l) + (d * p1) * (p3 * t2 + p2 * t3)))
       \cong ((S + l * A1) * ((1 - k * k) + (d * p3) * (p1 * t2 + p2 * t1)))

LEMMA CrossSums ==
  ASSUME NEW d, NEW p1, NEW p2, NEW p3, NEW s1, NEW s2, NEW s3, NEW t1, NEW t2, NEW t3,
         NEW S, NEW A1, NEW A3, NEW B1, NEW B3, NEW T,
         CrossFacts(d, p1, p2, p3, s1, s2, s3, t1, t2, t3, S, A1, A3, B1, B3, T)
  PROVE  Crosses(d, p1, p2, p3, t1, t2, t3, S, A1, A3)
<1>1. /\ d \in Int /\ p1 \in Int /\ p2 \in Int /\ p3 \in Int /\ s1 \in Int /\ s2 \in Int /\ s3 \in Int
      /\ t1 \in Int /\ t2 \in Int /\ t3 \in Int /\ S \in Int /\ A1 \in Int /\ A3 \in Int
      /\ B1 \in Int /\ B3 \in Int /\ T \in Int
  BY DEF CrossFacts
<1>2. /\ S * s3 + A3 * t3 = 2 * (p3 * B3) /\ S * s1 + A1 * t1 = 2 * (p1 * B1)
      /\ A3 * t2 + A1 * s2 = -(2 * (p2 * B3)) /\ A1 * t2 + A3 * s2 = -(2 * (p2 * B1))
      /\ S * t3 + A3 * s3 = 2 * (p3 * T) /\ S * t1 + A1 * s1 = 2 * (p1 * T)
  BY DEF CrossFacts
<1> DEFINE f1 == (s1 - 1) - d * (p1 * p1)  f2 == (s2 - 1) - d * (p2 * p2)  f3 == (s3 - 1) - d * (p3 * p3)
           k == d * (p1 * p2)  l == d * (p3 * p2)
           GL == (1 - k * k) + (d * p3) * (p1 * t2 + p2 * t1)
           GR == (1 - l * l) + (d * p1) * (p3 * t2 + p2 * t3)
           M == S * ((p1 * t3 - p3 * t1) + (d * p2) * (p1 * p1 - p3 * p3)) + (p1 * A3) * GR - (p3 * A1) * GL
           c1 == (p2 * (1 - s3)) * S - p3 * A1
           c2 == (d * (p1 * p3)) * (p1 * A1 - p3 * A3)
           c3 == p1 * A3 - (p2 * (1 - s1)) * S
           F == ((c1 * f1 + c2 * f2) + c3 * f3) + 0 * f3
           L == (S + k * A3) * GR  R == (S + l * A1) * GL
<1>3. f1 \cong 0 /\ f2 \cong 0 /\ f3 \cong 0
  BY DEF CrossFacts
<1>4. k \in Int /\ l \in Int /\ c1 \in Int /\ c2 \in Int /\ c3 \in Int /\ f1 \in Int /\ f2 \in Int /\ f3 \in Int
  BY <1>1
<1>5. GL \in Int /\ GR \in Int
  <2> HIDE DEF k, l
  <2> QED BY <1>1, <1>4
<1>6. F \cong 0
  <2> DEFINE z == 0
  <2>1. z \in Int
    OBVIOUS
  <2> HIDE DEF f1, f2, f3, c1, c2, c3, z
  <2>2. (((c1 * f1 + c2 * f2) + c3 * f3) + z * f3) \cong 0
    BY <1>3, <1>4, <2>1, Vanish4
  <2> QED BY <2>2 DEF z
<1>7. M + F
        = p1 * (S * t3 + A3 * s3) - p3 * (S * t1 + A1 * s1)
          + d * (p2 * (p1 * p1) * (S * s3 + A3 * t3) - p2 * (p3 * p3) * (S * s1 + A1 * t1)
                 + (p1 * p1) * p3 * (A3 * t2 + A1 * s2) - p1 * (p3 * p3) * (A1 * t2 + A3 * s2))
  BY <1>1
<1>8. M + F = 0
  <2> DEFINE a == S * t3 + A3 * s3  b == S * t1 + A1 * s1  c == S * s3 + A3 * t3  e == S * s1 + A1 * t1
             g == A3 * t2 + A1 * s2  h == A1 * t2 + A3 * s2  N == M + F
  <2>1. /\ a = 2 * (p3 * T) /\ b = 2 * (p1 * T) /\ c = 2 * (p3 * B3) /\ e = 2 * (p1 * B1)
        /\ g = -(2 * (p2 * B3)) /\ h = -(2 * (p2 * B1))
    BY <1>2
  <2>2. N = p1 * a - p3 * b + d * (p2 * (p1 * p1) * c - p2 * (p3 * p3) * e + (p1 * p1) * p3 * g - p1 * (p3 * p3) * h)
    BY <1>7
  <2> HIDE DEF a, b, c, e, g, h, N
  <2>3. N = 0
    BY <1>1, <2>1, <2>2
  <2> QED BY <2>3 DEF N
<1>9. L - R = (d * p2) * M
  <2> DEFINE q == (d * p2) * ((p1 * t3 - p3 * t1) + (d * p2) * (p1 * p1 - p3 * p3))
  <2>1. GR - GL = q
    BY <1>1
  <2>2. q \in Int /\ k = (d * p2) * p1 /\ l = (d * p2) * p3
    BY <1>1
  <2> HIDE DEF GL, GR
  <2>3. L - R = S * (GR - GL) + (k * A3) * GR - (l * A1) * GL
    <3> HIDE DEF k, l
    <3> QED BY <1>1, <1>4, <1>5
  <2> DEFINE u == (p1 * t3 - p3 * t1) + (d * p2) * (p1 * p1 - p3 * p3)  v == d * p2
  <2>4. u \in Int /\ v \in Int /\ q = v * u /\ k = v * p1 /\ l = v * p3 /\ M = S * u + (p1 * A3) * GR - (p3 * A1) * GL
    BY <1>1, <2>2
  <2> HIDE DEF q, k, l, M, L, R
  <2>5. L - R = S * (v * u) + ((v * p1) * A3) * GR - ((v * p3) * A1) * GL
    BY <2>1, <2>3, <2>4
  <2> HIDE DEF u, v
  <2>6. S * (v * u) + ((v * p1) * A3) * GR - ((v * p3) * A1) * GL
          = v * (S * u + (p1 * A3) * GR - (p3 * A1) * GL)
    BY <1>1, <1>5, <2>4
  <2> QED BY <2>4, <2>5, <2>6 DEF v
<1>10. L \in Int /\ R \in Int /\ M \in Int /\ F \in Int
  <2> HIDE DEF k, l, GL, GR, f1, f2, f3, c1, c2, c3
  <2> QED BY <1>1, <1>4, <1>5
<1>11. L \cong R
  <2> DEFINE c == -(d * p2)  D == L - R
  <2>1. c \in Int /\ D \in Int
    BY <1>1, <1>10
  <2>2. D = c * F
    <3> DEFINE v == d * p2
    <3>1. v \in Int /\ D = v * M /\ c = -v /\ M = -F
      BY <1>1, <1>8, <1>9, <1>10
    <3> HIDE DEF v, D, M, F, c
    <3>2. v * (-F) = (-v) * F
      BY <1>10, <3>1
    <3> QED BY <3>1, <3>2
  <2> HIDE DEF F, c, D
  <2>3. D \cong 0
    BY <1>6, <1>10, <2>1, <2>2, NonzeroProduct
  <2> HIDE DEF L, R
  <2> QED BY <1>10, <2>3, CongDifference DEF D
<1> QED BY <1>11 DEF Crosses

(* The parts of a sum of three points, in terms of the coordinates.        *)
CoordinateParts(a, b, c) ==
  LET x1 == a[1]  y1 == a[2]  x2 == b[1]  y2 == b[2]  x3 == c[1]  y3 == c[2]
      k == CurveD * ((x1 * y1) * (x2 * y2))
      t1 == y1 * y1 + x1 * x1  t2 == y2 * y2 + x2 * x2
      S == ((y1 * y2) * x3 + (y1 * x2) * y3) + ((x1 * y2) * y3 + (x1 * x2) * x3)
      A3 == ((y1 * y2) * x3 + (x1 * x2) * x3) - ((x1 * y2) * y3 + (y1 * x2) * y3)
      T == ((y1 * y2) * y3 + (x1 * x2) * y3) + ((y1 * x2) * x3 + (x1 * y2) * x3)
      B3 == ((y1 * y2) * y3 + (x1 * x2) * y3) - ((x1 * y2) * x3 + (y1 * x2) * x3)
      g == (CurveD * (x3 * y3)) * ((x1 * y1) * t2 + (x2 * y2) * t1)
  IN /\ LeftX(a, b, c) = S + k * A3
     /\ LeftY(a, b, c) = T + k * B3
     /\ Both(a, b) + Threefold(a, b, c) = (1 - k * k) + g
     /\ Both(a, b) - Threefold(a, b, c) = (1 - k * k) - g

LEMMA LeftPartsAre ==
  ASSUME NEW a \in Curve, NEW b \in Curve, NEW c \in Curve
  PROVE  CoordinateParts(a, b, c)
<1> DEFINE x1 == a[1]  y1 == a[2]  x2 == b[1]  y2 == b[2]  x3 == c[1]  y3 == c[2]
<1>0. x1 \in Int /\ y1 \in Int /\ x2 \in Int /\ y2 \in Int /\ x3 \in Int /\ y3 \in Int
  BY CurveIs
<1> DEFINE k == CurveD * ((x1 * y1) * (x2 * y2))
           t1 == y1 * y1 + x1 * x1  t2 == y2 * y2 + x2 * x2
           S == ((y1 * y2) * x3 + (y1 * x2) * y3) + ((x1 * y2) * y3 + (x1 * x2) * x3)
           A3 == ((y1 * y2) * x3 + (x1 * x2) * x3) - ((x1 * y2) * y3 + (y1 * x2) * y3)
           T == ((y1 * y2) * y3 + (x1 * x2) * y3) + ((y1 * x2) * x3 + (x1 * y2) * x3)
           B3 == ((y1 * y2) * y3 + (x1 * x2) * y3) - ((x1 * y2) * x3 + (y1 * x2) * x3)
           g == (CurveD * (x3 * y3)) * ((x1 * y1) * t2 + (x2 * y2) * t1)
           e == x1 * y2 + y1 * x2  h == y1 * y2 + x1 * x2
<1>1. JointOf(a, b) = k /\ Skew(a, b) = e /\ Even(a, b) = h /\ c[1] = x3 /\ c[2] = y3
  BY DEF JointOf, Joint, Skew, Even
<1> HIDE DEF x1, y1, x2, y2, x3, y3
<1>2. k \in Int /\ e \in Int /\ h \in Int /\ CurveD \in Int
  BY <1>0, CurveDIs
<1>3. e * h = (x1 * y1) * t2 + (x2 * y2) * t1
  BY <1>0
<1>4. S = y3 * e + x3 * h /\ A3 = x3 * h - y3 * e /\ T = y3 * h + x3 * e /\ B3 = y3 * h - x3 * e
  BY <1>0
<1>5. /\ LeftX(a, b, c) = ((1 - k) * y3) * e + ((1 + k) * x3) * h
      /\ LeftY(a, b, c) = ((1 + k) * y3) * h + ((1 - k) * x3) * e
  BY <1>1 DEF LeftX, LeftY
<1>6. /\ Both(a, b) = (1 + k) * (1 - k)
      /\ Threefold(a, b, c) = (CurveD * (x3 * y3)) * (e * h)
  BY <1>1 DEF Both, Threefold
<1>7. /\ ((1 - k) * y3) * e + ((1 + k) * x3) * h = (y3 * e + x3 * h) + k * (x3 * h - y3 * e)
      /\ ((1 + k) * y3) * h + ((1 - k) * x3) * e = (y3 * h + x3 * e) + k * (y3 * h - x3 * e)
      /\ (1 + k) * (1 - k) = 1 - k * k
  <2> HIDE DEF k, e, h
  <2> QED BY <1>0, <1>2
<1>8. Threefold(a, b, c) = g
  BY <1>3, <1>6
<1> HIDE DEF k, e, h, S, A3, T, B3, g
<1>9. /\ LeftX(a, b, c) = S + k * A3 /\ LeftY(a, b, c) = T + k * B3
      /\ Both(a, b) + Threefold(a, b, c) = (1 - k * k) + g
      /\ Both(a, b) - Threefold(a, b, c) = (1 - k * k) - g
  BY <1>4, <1>5, <1>6, <1>7, <1>8
<1> QED BY <1>9 DEF CoordinateParts, x1, y1, x2, y2, x3, y3, k, S, A3, T, B3, g

CrossPairs(x1, y1, x2, y2, x3, y3) ==
  LET t1 == y1 * y1 + x1 * x1  t2 == y2 * y2 + x2 * x2  t3 == y3 * y3 + x3 * x3
      p1 == x1 * y1  p2 == x2 * y2  p3 == x3 * y3
      s1 == y1 * y1 - x1 * x1  s2 == y2 * y2 - x2 * x2  s3 == y3 * y3 - x3 * x3
      S == ((y1 * y2) * x3 + (y1 * x2) * y3) + ((x1 * y2) * y3 + (x1 * x2) * x3)
      A3 == ((y1 * y2) * x3 + (x1 * x2) * x3) - ((x1 * y2) * y3 + (y1 * x2) * y3)
      A1 == ((y3 * y2) * x1 + (x3 * x2) * x1) - ((x3 * y2) * y1 + (y3 * x2) * y1)
      T == ((y1 * y2) * y3 + (x1 * x2) * y3) + ((y1 * x2) * x3 + (x1 * y2) * x3)
      B3 == ((y1 * y2) * y3 + (x1 * x2) * y3) - ((x1 * y2) * x3 + (y1 * x2) * x3)
      B1 == ((y3 * y2) * y1 + (x3 * x2) * y1) - ((x3 * y2) * x1 + (y3 * x2) * x1)
  IN /\ CrossFacts(CurveD, p1, p2, p3, s1, s2, s3, t1, t2, t3, S, A1, A3, B1, B3, T)
     /\ CrossFacts(CurveD, p1, p2, p3, s1, s2, s3, -t1, -t2, -t3, T, B1, B3, -A1, -A3, -S)

LEMMA CrossFactsAre ==
  ASSUME NEW x1 \in Int, NEW y1 \in Int, NEW x2 \in Int, NEW y2 \in Int, NEW x3 \in Int, NEW y3 \in Int,
         Defect(x1, y1) \cong 0, Defect(x2, y2) \cong 0, Defect(x3, y3) \cong 0
  PROVE  CrossPairs(x1, y1, x2, y2, x3, y3)
<1> DEFINE t1 == y1 * y1 + x1 * x1  t2 == y2 * y2 + x2 * x2  t3 == y3 * y3 + x3 * x3
           p1 == x1 * y1  p2 == x2 * y2  p3 == x3 * y3
           s1 == y1 * y1 - x1 * x1  s2 == y2 * y2 - x2 * x2  s3 == y3 * y3 - x3 * x3
           S == ((y1 * y2) * x3 + (y1 * x2) * y3) + ((x1 * y2) * y3 + (x1 * x2) * x3)
           A3 == ((y1 * y2) * x3 + (x1 * x2) * x3) - ((x1 * y2) * y3 + (y1 * x2) * y3)
           A1 == ((y3 * y2) * x1 + (x3 * x2) * x1) - ((x3 * y2) * y1 + (y3 * x2) * y1)
           T == ((y1 * y2) * y3 + (x1 * x2) * y3) + ((y1 * x2) * x3 + (x1 * y2) * x3)
           B3 == ((y1 * y2) * y3 + (x1 * x2) * y3) - ((x1 * y2) * x3 + (y1 * x2) * x3)
           B1 == ((y3 * y2) * y1 + (x3 * x2) * y1) - ((x3 * y2) * x1 + (y3 * x2) * x1)
<1>1. /\ p1 \in Int /\ p2 \in Int /\ p3 \in Int /\ s1 \in Int /\ s2 \in Int /\ s3 \in Int
      /\ t1 \in Int /\ t2 \in Int /\ t3 \in Int
  OBVIOUS
<1>2. S \in Int /\ A1 \in Int /\ A3 \in Int /\ B1 \in Int /\ B3 \in Int /\ T \in Int
  OBVIOUS
<1>3. S * s3 + A3 * t3 = 2 * (p3 * B3) /\ S * s1 + A1 * t1 = 2 * (p1 * B1)
  OBVIOUS
<1>4. A3 * t2 + A1 * s2 = -(2 * (p2 * B3)) /\ A1 * t2 + A3 * s2 = -(2 * (p2 * B1))
  OBVIOUS
<1>5. S * t3 + A3 * s3 = 2 * (p3 * T) /\ S * t1 + A1 * s1 = 2 * (p1 * T)
  OBVIOUS
<1>6. T * s3 - B3 * t3 = -(2 * (p3 * A3)) /\ T * s1 - B1 * t1 = -(2 * (p1 * A1))
  OBVIOUS
<1>7. B3 * t2 - B1 * s2 = -(2 * (p2 * A3)) /\ B1 * t2 - B3 * s2 = -(2 * (p2 * A1))
  OBVIOUS
<1>8. T * t3 - B3 * s3 = 2 * (p3 * S) /\ T * t1 - B1 * s1 = 2 * (p1 * S)
  OBVIOUS
<1>9. /\ ((s1 - 1) - CurveD * (p1 * p1)) \cong 0
      /\ ((s2 - 1) - CurveD * (p2 * p2)) \cong 0
      /\ ((s3 - 1) - CurveD * (p3 * p3)) \cong 0
  <2>1. /\ (x1 * x1) * (y1 * y1) = p1 * p1 /\ (x2 * x2) * (y2 * y2) = p2 * p2 /\ (x3 * x3) * (y3 * y3) = p3 * p3
    OBVIOUS
  <2>2. /\ (s1 - 1) - CurveD * (p1 * p1) = Defect(x1, y1)
        /\ (s2 - 1) - CurveD * (p2 * p2) = Defect(x2, y2)
        /\ (s3 - 1) - CurveD * (p3 * p3) = Defect(x3, y3)
    <3> HIDE DEF p1, p2, p3
    <3> QED BY <2>1 DEF Defect
  <2> QED BY <2>2
<1> HIDE DEF t1, t2, t3, p1, p2, p3, s1, s2, s3, S, A1, A3, B1, B3, T
<1>10. CrossFacts(CurveD, p1, p2, p3, s1, s2, s3, t1, t2, t3, S, A1, A3, B1, B3, T)
  BY <1>1, <1>2, <1>3, <1>4, <1>5, <1>9, CurveDIs DEF CrossFacts
<1>11. CrossFacts(CurveD, p1, p2, p3, s1, s2, s3, -t1, -t2, -t3, T, B1, B3, -A1, -A3, -S)
  <2> DEFINE u1 == -t1  u2 == -t2  u3 == -t3  C1 == -A1  C3 == -A3  R == -S
  <2>1. /\ u1 \in Int /\ u2 \in Int /\ u3 \in Int /\ C1 \in Int /\ C3 \in Int /\ R \in Int
    BY <1>1, <1>2
  <2>2. T * s3 + B3 * u3 = 2 * (p3 * C3) /\ T * s1 + B1 * u1 = 2 * (p1 * C1)
    BY <1>1, <1>2, <1>6
  <2>3. B3 * u2 + B1 * s2 = -(2 * (p2 * C3)) /\ B1 * u2 + B3 * s2 = -(2 * (p2 * C1))
    BY <1>1, <1>2, <1>7
  <2>4. T * u3 + B3 * s3 = 2 * (p3 * R) /\ T * u1 + B1 * s1 = 2 * (p1 * R)
    BY <1>1, <1>2, <1>8
  <2> HIDE DEF u1, u2, u3, C1, C3, R
  <2>5. CrossFacts(CurveD, p1, p2, p3, s1, s2, s3, u1, u2, u3, T, B1, B3, C1, C3, R)
    BY <1>1, <1>2, <1>9, <2>1, <2>2, <2>3, <2>4, CurveDIs DEF CrossFacts
  <2> QED BY <2>5 DEF u1, u2, u3, C1, C3, R
<1> QED BY <1>10, <1>11 DEF CrossPairs, t1, t2, t3, p1, p2, p3, s1, s2, s3, S, A1, A3, B1, B3, T

LEMMA LeftsCross ==
  ASSUME NEW a \in Curve, NEW b \in Curve, NEW c \in Curve
  PROVE  /\ (LeftX(a, b, c) * (Both(c, b) + Threefold(c, b, a))) \cong (LeftX(c, b, a) * (Both(a, b) + Threefold(a, b, c)))
         /\ (LeftY(a, b, c) * (Both(c, b) - Threefold(c, b, a))) \cong (LeftY(c, b, a) * (Both(a, b) - Threefold(a, b, c)))
<1> DEFINE x1 == a[1]  y1 == a[2]  x2 == b[1]  y2 == b[2]  x3 == c[1]  y3 == c[2]
<1>1. /\ x1 \in Int /\ y1 \in Int /\ x2 \in Int /\ y2 \in Int /\ x3 \in Int /\ y3 \in Int
      /\ a = <<x1, y1>> /\ b = <<x2, y2>> /\ c = <<x3, y3>>
      /\ Defect(x1, y1) \cong 0 /\ Defect(x2, y2) \cong 0 /\ Defect(x3, y3) \cong 0
  BY CurveIs
<1> DEFINE d == CurveD
           t1 == y1 * y1 + x1 * x1  t2 == y2 * y2 + x2 * x2  t3 == y3 * y3 + x3 * x3
           p1 == x1 * y1  p2 == x2 * y2  p3 == x3 * y3
           s1 == y1 * y1 - x1 * x1  s2 == y2 * y2 - x2 * x2  s3 == y3 * y3 - x3 * x3
           S == ((y1 * y2) * x3 + (y1 * x2) * y3) + ((x1 * y2) * y3 + (x1 * x2) * x3)
           S3 == ((y3 * y2) * x1 + (y3 * x2) * y1) + ((x3 * y2) * y1 + (x3 * x2) * x1)
           A3 == ((y1 * y2) * x3 + (x1 * x2) * x3) - ((x1 * y2) * y3 + (y1 * x2) * y3)
           A1 == ((y3 * y2) * x1 + (x3 * x2) * x1) - ((x3 * y2) * y1 + (y3 * x2) * y1)
           T == ((y1 * y2) * y3 + (x1 * x2) * y3) + ((y1 * x2) * x3 + (x1 * y2) * x3)
           T3 == ((y3 * y2) * y1 + (x3 * x2) * y1) + ((y3 * x2) * x1 + (x3 * y2) * x1)
           B3 == ((y1 * y2) * y3 + (x1 * x2) * y3) - ((x1 * y2) * x3 + (y1 * x2) * x3)
           B1 == ((y3 * y2) * y1 + (x3 * x2) * y1) - ((x3 * y2) * x1 + (y3 * x2) * x1)
           k == d * (p1 * p2)  l == d * (p3 * p2)
           g == (d * p3) * (p1 * t2 + p2 * t1)  h == (d * p1) * (p3 * t2 + p2 * t3)
<1>2. /\ LeftX(a, b, c) = S + k * A3 /\ LeftY(a, b, c) = T + k * B3
      /\ Both(a, b) + Threefold(a, b, c) = (1 - k * k) + g
      /\ Both(a, b) - Threefold(a, b, c) = (1 - k * k) - g
  <2>1. CoordinateParts(a, b, c)
    BY LeftPartsAre, Zenon
  <2> QED BY <2>1, Zenon DEF CoordinateParts
<1>3. /\ LeftX(c, b, a) = S3 + l * A1 /\ LeftY(c, b, a) = T3 + l * B1
      /\ Both(c, b) + Threefold(c, b, a) = (1 - l * l) + h
      /\ Both(c, b) - Threefold(c, b, a) = (1 - l * l) - h
  <2>1. CoordinateParts(c, b, a)
    BY LeftPartsAre, Zenon
  <2> QED BY <2>1, Zenon DEF CoordinateParts
<1> HIDE DEF x1, y1, x2, y2, x3, y3
<1>4. S3 = S /\ T3 = T
  BY <1>1
<1>5. /\ CrossFacts(d, p1, p2, p3, s1, s2, s3, t1, t2, t3, S, A1, A3, B1, B3, T)
      /\ CrossFacts(d, p1, p2, p3, s1, s2, s3, -t1, -t2, -t3, T, B1, B3, -A1, -A3, -S)
  <2>1. CrossPairs(x1, y1, x2, y2, x3, y3)
    BY <1>1, CrossFactsAre, Zenon
  <2> QED BY <2>1, Zenon DEF CrossPairs
<1>6. /\ d \in Int /\ p1 \in Int /\ p2 \in Int /\ p3 \in Int /\ t1 \in Int /\ t2 \in Int /\ t3 \in Int
  BY <1>1, CurveDIs
<1> HIDE DEF d, t1, t2, t3, p1, p2, p3, s1, s2, s3, S, A1, A3, B1, B3, T, S3, T3
<1>7. Crosses(d, p1, p2, p3, t1, t2, t3, S, A1, A3)
  BY <1>5, CrossSums
<1>8. Crosses(d, p1, p2, p3, -t1, -t2, -t3, T, B1, B3)
  BY <1>5, CrossSums
<1>9. (LeftX(a, b, c) * (Both(c, b) + Threefold(c, b, a))) \cong (LeftX(c, b, a) * (Both(a, b) + Threefold(a, b, c)))
  BY <1>2, <1>3, <1>4, <1>7 DEF Crosses
<1>10. /\ (d * p3) * (p1 * (-t2) + p2 * (-t1)) = -g
       /\ (d * p1) * (p3 * (-t2) + p2 * (-t3)) = -h
  BY <1>6
<1>11. k \in Int /\ l \in Int /\ g \in Int /\ h \in Int
  BY <1>6
<1>12. (LeftY(a, b, c) * (Both(c, b) - Threefold(c, b, a))) \cong (LeftY(c, b, a) * (Both(a, b) - Threefold(a, b, c)))
  <2> DEFINE g1 == (d * p3) * (p1 * (-t2) + p2 * (-t1))  h1 == (d * p1) * (p3 * (-t2) + p2 * (-t3))
  <2>1. ((T + k * B3) * ((1 - l * l) + h1)) \cong ((T + l * B1) * ((1 - k * k) + g1))
    BY <1>8 DEF Crosses
  <2>2. g1 = -g /\ h1 = -h
    BY <1>10
  <2> HIDE DEF g1, h1, g, h
  <2>3. (1 - l * l) + h1 = (1 - l * l) - h /\ (1 - k * k) + g1 = (1 - k * k) - g
    <3> DEFINE u == 1 - l * l  v == 1 - k * k
    <3>1. u \in Int /\ v \in Int
      BY <1>11
    <3> HIDE DEF u, v
    <3>2. u + h1 = u - h /\ v + g1 = v - g
      BY <1>11, <2>2, <3>1
    <3> QED BY <3>2 DEF u, v
  <2>4. ((T + k * B3) * ((1 - l * l) - h)) \cong ((T + l * B1) * ((1 - k * k) - g))
    BY <2>1, <2>3
  <2> QED BY <1>2, <1>3, <1>4, <2>4
<1> QED BY <1>9, <1>12

LEMMA SameQuotient ==
  ASSUME NEW x \in Field, NEW y \in Field, NEW m \in Int, NEW n \in Int, NEW u \in Int, NEW v \in Int,
         ~(m \cong 0), ~(n \cong 0), (m * x) \cong u, (n * y) \cong v, (u * n) \cong (v * m)
  PROVE  x = y
<1> DEFINE mx == m * x  ny == n * y  un == u * n  vm == v * m  mn == m * n
<1>1. x \in Int /\ y \in Int
  BY FieldInt
<1>2. /\ mx \in Int /\ ny \in Int /\ un \in Int /\ vm \in Int /\ mn \in Int /\ mn * x = n * mx /\ mn * y = m * ny
      /\ u * n = n * u /\ v * m = m * v
  BY <1>1
<1>3. ~(mn \cong 0)
  BY NonzeroProduct
<1>4. (n * mx) \cong (n * u) /\ (m * ny) \cong (m * v)
  <2>1. mx \cong u /\ ny \cong v
    OBVIOUS
  <2> HIDE DEF mx, ny
  <2> QED BY <1>2, <2>1, CongTimes
<1>5. un \cong vm
  OBVIOUS
<1>6. (mn * x) \cong un /\ (mn * y) \cong vm
  BY <1>2, <1>4
<1> DEFINE p == mn * x  q == mn * y
<1>7. p \in Int /\ q \in Int
  <2> HIDE DEF mn
  <2> QED BY <1>1, <1>2
<1> HIDE DEF un, vm, mn
<1>8. (mn * y) \cong un
  <2>1. q \cong vm
    BY <1>6
  <2> HIDE DEF q
  <2>2. q \cong un
    BY <1>2, <1>5, <1>7, <2>1, CongSymmetric, CongTransitive
  <2> QED BY <2>2 DEF q
<1> QED BY <1>2, <1>3, <1>6, <1>8, Unique

(* Points may be added in any order: the curve is a group.                 *)
THEOREM PlusAssociates ==
  ASSUME NEW a \in Curve, NEW b \in Curve, NEW c \in Curve
  PROVE  Plus(Plus(a, b), c) = Plus(a, Plus(b, c))
<1> DEFINE p == Plus(Plus(a, b), c)  q == Plus(Plus(c, b), a)
           G == Both(a, b) + Threefold(a, b, c)  F == Both(a, b) - Threefold(a, b, c)
           H == Both(c, b) + Threefold(c, b, a)  E == Both(c, b) - Threefold(c, b, a)
           lx == LeftX(a, b, c)  ly == LeftY(a, b, c)  rx == LeftX(c, b, a)  ry == LeftY(c, b, a)
<1>1. /\ lx \in Int /\ ly \in Int /\ G \in Int /\ F \in Int /\ ~(G \cong 0) /\ ~(F \cong 0)
      /\ (G * p[1]) \cong lx /\ (F * p[2]) \cong ly /\ p \in Curve
  <2>1. LeftSum(a, b, c)
    BY LeftParts, Zenon
  <2> QED BY <2>1, Zenon DEF LeftSum
<1>2. /\ rx \in Int /\ ry \in Int /\ H \in Int /\ E \in Int /\ ~(H \cong 0) /\ ~(E \cong 0)
      /\ (H * q[1]) \cong rx /\ (E * q[2]) \cong ry /\ q \in Curve
  <2>1. LeftSum(c, b, a)
    BY LeftParts, Zenon
  <2> QED BY <2>1, Zenon DEF LeftSum
<1>3. (lx * H) \cong (rx * G) /\ (ly * E) \cong (ry * F)
  BY LeftsCross
<1>4. q = Plus(a, Plus(b, c))
  <2>1. Plus(b, c) = Plus(c, b) /\ Plus(c, b) \in Curve
    BY PlusCommutes, PlusOnCurve
  <2> QED BY <2>1, PlusCommutes
<1> HIDE DEF p, q, G, F, H, E, lx, ly, rx, ry
<1>5. p[1] \in Field /\ p[2] \in Field /\ q[1] \in Field /\ q[2] \in Field /\ p = <<p[1], p[2]>> /\ q = <<q[1], q[2]>>
  BY <1>1, <1>2, CurveIs
<1>6. p[1] = q[1] /\ p[2] = q[2]
  BY <1>1, <1>2, <1>3, <1>5, SameQuotient
<1>7. p = q
  BY <1>5, <1>6
<1> QED BY <1>4, <1>7 DEF p

(* A point stands for a pair of the curve, in extended coordinates.        *)
Represents(p, c) ==
  /\ p.x \in Field /\ p.y \in Field /\ p.z \in Field /\ p.t \in Field /\ ~(p.z \cong 0)
  /\ p.x \cong (c[1] * p.z) /\ p.y \cong (c[2] * p.z) /\ p.t \cong ((c[1] * c[2]) * p.z)

IsCached(q, c) ==
  /\ q.YplusX \in Int /\ q.YminusX \in Int /\ q.Z \in Int /\ q.T2d \in Int /\ ~(q.Z \cong 0)
  /\ q.YplusX \cong ((c[2] + c[1]) * q.Z) /\ q.YminusX \cong ((c[2] - c[1]) * q.Z)
  /\ q.T2d \cong (((2 * CurveD) * (c[1] * c[2])) * q.Z)

LEMMA ModCong ==
  ASSUME NEW x \in Int, NEW y \in Int, x \cong y
  PROVE  x % Prime \in Field /\ x % Prime \in Int /\ (x % Prime) \cong y
<1> DEFINE q == x % Prime
<1>1. q \in Field /\ q \cong x
  BY CongMod
<1> HIDE DEF q
<1>2. q \in Int
  BY <1>1, FieldInt
<1>3. q \cong y
  BY <1>1, <1>2, CongTransitive
<1> QED BY <1>1, <1>2, <1>3 DEF q

(* What projCached.FromP3 keeps of a point.                                *)
LEMMA CachedIs ==
  ASSUME NEW c \in Curve, NEW p, Represents(p, c)
  PROVE  IsCached(Cached(p), c)
<1> DEFINE x == p.x  y == p.y  z == p.z  t == p.t  a == c[1]  b == c[2]  q == Cached(p)
           d2 == 2 * CurveD  az == a * z  bz == b * z  ab == a * b  abz == ab * z
           s == y + x  m == y - x
<1>1. /\ x \in Int /\ y \in Int /\ z \in Int /\ t \in Int /\ ~(z \cong 0)
      /\ x \cong az /\ y \cong bz /\ t \cong abz
  BY FieldInt DEF Represents
<1>2. a \in Int /\ b \in Int /\ d2 \in Int
  BY CurveIs, CurveDIs
<1>3. q.YplusX = s % Prime /\ q.YminusX = m % Prime /\ q.Z = z /\ q.T2d = Multiply(t, d2)
  BY DEF Cached
<1> HIDE DEF x, y, z, t, a, b, d2, q
<1>4. az \in Int /\ bz \in Int /\ ab \in Int /\ abz \in Int
  BY <1>1, <1>2
<1>5. s \in Int /\ m \in Int /\ (b + a) * z = bz + az /\ (b - a) * z = bz - az /\ (d2 * ab) * z = abz * d2
  BY <1>1, <1>2
<1> DEFINE u == bz + az  v == bz - az
<1>6. u \in Int /\ v \in Int /\ s \cong u /\ m \cong v
  <2>1. u \in Int /\ v \in Int
    BY <1>4
  <2> HIDE DEF az, bz
  <2> QED BY <1>1, <1>4, <2>1, CongSum
<1> HIDE DEF s, m, u, v, abz
<1>7. s % Prime \in Int /\ (s % Prime) \cong u /\ m % Prime \in Int /\ (m % Prime) \cong v
  BY <1>5, <1>6, ModCong
<1>8. Multiply(t, d2) \in Int /\ Multiply(t, d2) \cong (abz * d2)
  <2>1. d2 \cong d2
    BY <1>2, CongMod
  <2> QED BY <1>1, <1>2, <1>4, <2>1, MultiplyCong
<1>9. q.YplusX \cong ((b + a) * q.Z) /\ q.YminusX \cong ((b - a) * q.Z)
  BY <1>3, <1>5, <1>7 DEF u, v
<1>10. q.T2d \cong ((d2 * ab) * q.Z)
  BY <1>3, <1>5, <1>8
<1>11. q.YplusX \in Int /\ q.YminusX \in Int /\ q.Z \in Int /\ q.T2d \in Int /\ ~(q.Z \cong 0)
  BY <1>1, <1>3, <1>7, <1>8
<1> QED BY <1>9, <1>10, <1>11 DEF IsCached, a, b, d2, q

(* A cached point with its parts exchanged is the opposite.                *)
LEMMA CachedOpposite ==
  ASSUME NEW c \in Curve, NEW p, Represents(p, c)
  PROVE  LET q == Cached(p)
         IN IsCached([q EXCEPT !.YplusX = q.YminusX, !.YminusX = q.YplusX, !.T2d = Negate(q.T2d)], Opposite(c))
<1> DEFINE q == Cached(p)  a == c[1]  b == c[2]  n == Negate(a)  d2 == 2 * CurveD  z == q.Z
           r == [q EXCEPT !.YplusX = q.YminusX, !.YminusX = q.YplusX, !.T2d = Negate(q.T2d)]
           ma == -a
<1>1. IsCached(q, c)
  BY CachedIs
<1>2. /\ r.YplusX = q.YminusX /\ r.YminusX = q.YplusX /\ r.Z = z /\ r.T2d = Negate(q.T2d)
  BY DEF Cached
<1> HIDE DEF q, r
<1>3. /\ q.YplusX \in Int /\ q.YminusX \in Int /\ z \in Int /\ q.T2d \in Int /\ ~(z \cong 0)
      /\ q.YplusX \cong ((b + a) * z) /\ q.YminusX \cong ((b - a) * z)
      /\ q.T2d \cong ((d2 * (a * b)) * z)
  BY <1>1 DEF IsCached
<1>4. a \in Int /\ b \in Int /\ d2 \in Int /\ ma \in Int
  BY CurveIs, CurveDIs
<1>5. n \in Int /\ n \cong ma /\ ma \cong n
  <2>1. n \in Field /\ n \cong ma
    BY <1>4, NegateIs
  <2> HIDE DEF n, ma
  <2> QED BY <1>4, <2>1, FieldInt, CongSymmetric
<1>6. Opposite(c)[1] = n /\ Opposite(c)[2] = b
  BY DEF Opposite
<1> HIDE DEF a, b, n, d2, z
<1> DEFINE u == (b + a) * z  v == (b - a) * z  u1 == (b - n) * z  v1 == (b + n) * z
           w == (d2 * (a * b)) * z  mw == -w  w1 == (d2 * (n * b)) * z  T == Negate(q.T2d)  d2bz == (d2 * b) * z
<1>7. u \in Int /\ v \in Int /\ u1 \in Int /\ v1 \in Int /\ w \in Int /\ mw \in Int /\ w1 \in Int /\ d2bz \in Int
  BY <1>3, <1>4, <1>5
<1>8. v \cong v1 /\ u \cong u1
  <2> DEFINE e == b + ma  f == b + n  g == b - ma  h == b - n
  <2>1. e \in Int /\ f \in Int /\ g \in Int /\ h \in Int /\ e = b - a /\ g = b + a
    BY <1>4, <1>5
  <2>2. b \cong b
    BY <1>4, CongMod
  <2> HIDE DEF ma
  <2>3. e \cong f /\ g \cong h
    BY <1>4, <1>5, <2>2, CongSum
  <2>4. v = e * z /\ v1 = f * z /\ u = g * z /\ u1 = h * z
    BY <2>1
  <2> HIDE DEF e, f, g, h, u, v, u1, v1
  <2> QED BY <1>3, <2>1, <2>3, <2>4, CongTimes
<1>9. mw \cong w1
  <2>1. mw = d2bz * ma /\ w1 = d2bz * n
    BY <1>3, <1>4, <1>5
  <2> HIDE DEF mw, w1, d2bz, ma
  <2> QED BY <1>4, <1>5, <1>7, <2>1, CongTimes
<1>10. T \in Int /\ T \cong mw
  <2> DEFINE m == -q.T2d
  <2>1. m \in Int /\ T \in Field /\ T \cong m
    BY <1>3, NegateIs
  <2>2. T \in Int
    <3> HIDE DEF T
    <3> QED BY <2>1, FieldInt
  <2>3. q.T2d \cong w
    BY <1>3
  <2> HIDE DEF w
  <2>4. m \cong mw
    BY <1>3, <1>7, <2>3, CongTimes
  <2> HIDE DEF T, m, mw
  <2>5. T \cong mw
    BY <1>7, <2>1, <2>2, <2>4, CongTransitive
  <2> QED BY <2>2, <2>5
<1>11. q.YplusX \cong u /\ q.YminusX \cong v
  BY <1>3
<1> HIDE DEF u, v, u1, v1, w1, mw, w, T
<1>12. q.YplusX \cong u1 /\ q.YminusX \cong v1 /\ T \cong w1
  BY <1>3, <1>7, <1>8, <1>9, <1>10, <1>11, CongTransitive
<1>13. r.YplusX \cong ((b + n) * r.Z) /\ r.YminusX \cong ((b - n) * r.Z) /\ r.T2d \cong ((d2 * (n * b)) * r.Z)
  BY <1>2, <1>12 DEF u1, v1, w1, T
<1>14. r.YplusX \in Int /\ r.YminusX \in Int /\ r.Z \in Int /\ r.T2d \in Int /\ ~(r.Z \cong 0)
  BY <1>2, <1>3, <1>10 DEF T
<1>15. IsCached(r, Opposite(c))
  BY <1>6, <1>13, <1>14 DEF IsCached, d2
<1> QED BY <1>15 DEF r, q

(* The four numbers of an addition: over one factor they are the dividends *)
(* and the divisors of the addition law.                                   *)
LEMMA AddedParts ==
  ASSUME NEW c \in Curve, NEW e \in Curve, NEW p, NEW q, Represents(p, c), IsCached(q, e)
  PROVE  LET r == AddCached(p, q)  f == (2 * p.z) * q.Z  k == JointOf(c, e)
         IN /\ r.x \in Int /\ r.y \in Int /\ r.z \in Int /\ r.t \in Int /\ f \in Int /\ ~(f \cong 0)
            /\ r.x \cong (f * Skew(c, e)) /\ r.y \cong (f * Even(c, e))
            /\ r.z \cong (f * (1 + k)) /\ r.t \cong (f * (1 - k))
<1> DEFINE r == AddCached(p, q)  z == p.z  w == q.Z  f == (2 * z) * w  k == JointOf(c, e)
           a1 == c[1]  a2 == c[2]  b1 == e[1]  b2 == e[2]  d == CurveD
           s == p.y + p.x  m == p.y - p.x
           PP == Multiply(s, q.YplusX)  MM == Multiply(m % Prime, q.YminusX)
           TT == Multiply(p.t, q.T2d)  ZZ == Multiply(z, w)
           P1 == ((a2 + a1) * z) * ((b2 + b1) * w)  N1 == ((a2 - a1) * z) * ((b2 - b1) * w)
           T1 == ((a1 * a2) * z) * (((2 * d) * (b1 * b2)) * w)  Z1 == z * w
<1>1. /\ p.x \in Int /\ p.y \in Int /\ z \in Int /\ p.t \in Int /\ ~(z \cong 0)
      /\ p.x \cong (a1 * z) /\ p.y \cong (a2 * z) /\ p.t \cong ((a1 * a2) * z)
  BY FieldInt DEF Represents
<1>2. /\ q.YplusX \in Int /\ q.YminusX \in Int /\ w \in Int /\ q.T2d \in Int /\ ~(w \cong 0)
      /\ q.YplusX \cong ((b2 + b1) * w) /\ q.YminusX \cong ((b2 - b1) * w)
      /\ q.T2d \cong (((2 * d) * (b1 * b2)) * w)
  BY DEF IsCached
<1>3. a1 \in Int /\ a2 \in Int /\ b1 \in Int /\ b2 \in Int /\ d \in Int
  BY CurveIs, CurveDIs
<1>4. /\ r.x = (PP - MM) % Prime /\ r.y = (PP + MM) % Prime
      /\ r.z = (2 * ZZ + TT) % Prime /\ r.t = (2 * ZZ - TT) % Prime
  BY DEF AddCached, Point
<1>5. Skew(c, e) = a1 * b2 + a2 * b1 /\ Even(c, e) = a2 * b2 + a1 * b1 /\ k = d * ((a1 * a2) * (b1 * b2))
  BY DEF Skew, Even, JointOf, Joint
<1> HIDE DEF r, z, w, a1, a2, b1, b2, d, k
<1>6. PP \in Int /\ PP \cong P1 /\ P1 \in Int
  <2> DEFINE u == (a2 + a1) * z  v == (b2 + b1) * w  a2z == a2 * z  a1z == a1 * z
  <2>1. u \in Int /\ v \in Int /\ a2z \in Int /\ a1z \in Int /\ u = a2z + a1z /\ u * v \in Int
    BY <1>1, <1>2, <1>3
  <2>2. p.y \cong a2z /\ p.x \cong a1z /\ q.YplusX \cong v
    BY <1>1, <1>2
  <2> HIDE DEF a2z, a1z, u, v
  <2>3. s \cong u /\ s \in Int
    <3> DEFINE px == p.x  py == p.y
    <3>1. px \in Int /\ py \in Int /\ px \cong a1z /\ py \cong a2z
      BY <1>1, <2>2
    <3> HIDE DEF px, py
    <3>2. (py + px) \cong (a2z + a1z) /\ py + px \in Int
      BY <2>1, <3>1, CongSum
    <3> QED BY <2>1, <3>2 DEF px, py
  <2> HIDE DEF s
  <2>4. PP \in Int /\ PP \cong (u * v)
    BY <1>2, <2>1, <2>2, <2>3, MultiplyCong
  <2> QED BY <2>1, <2>4 DEF u, v
<1>7. MM \in Int /\ MM \cong N1 /\ N1 \in Int
  <2> DEFINE u == (a2 - a1) * z  v == (b2 - b1) * w  a2z == a2 * z  a1z == a1 * z  mm == m % Prime
  <2>1. u \in Int /\ v \in Int /\ a2z \in Int /\ a1z \in Int /\ u = a2z - a1z /\ u * v \in Int
    BY <1>1, <1>2, <1>3
  <2>2. p.y \cong a2z /\ p.x \cong a1z /\ q.YminusX \cong v
    BY <1>1, <1>2
  <2> HIDE DEF a2z, a1z, u, v
  <2>3. m \cong u /\ m \in Int
    <3> DEFINE px == p.x  py == p.y
    <3>1. px \in Int /\ py \in Int /\ px \cong a1z /\ py \cong a2z
      BY <1>1, <2>2
    <3> HIDE DEF px, py
    <3>2. (py - px) \cong (a2z - a1z) /\ py - px \in Int
      BY <2>1, <3>1, CongSum
    <3> QED BY <2>1, <3>2 DEF px, py
  <2> HIDE DEF m
  <2>4. mm \in Int /\ mm \cong u
    BY <2>1, <2>3, ModCong
  <2> HIDE DEF mm
  <2>5. Multiply(mm, q.YminusX) \in Int /\ Multiply(mm, q.YminusX) \cong (u * v)
    BY <1>2, <2>1, <2>2, <2>4, MultiplyCong
  <2> QED BY <2>1, <2>5 DEF u, v, mm, m
<1>8. TT \in Int /\ TT \cong T1 /\ T1 \in Int
  <2> DEFINE u == (a1 * a2) * z  v == ((2 * d) * (b1 * b2)) * w
  <2>1. u \in Int /\ v \in Int /\ p.t \cong u /\ q.T2d \cong v /\ u * v \in Int
    BY <1>1, <1>2, <1>3
  <2> HIDE DEF u, v
  <2>2. TT \in Int /\ TT \cong (u * v)
    BY <1>1, <1>2, <2>1, MultiplyCong
  <2> QED BY <2>1, <2>2 DEF u, v
<1>9. ZZ \in Int /\ ZZ \cong Z1 /\ Z1 \in Int
  <2>1. z \cong z /\ w \cong w
    BY <1>1, <1>2, CongMod
  <2>2. ZZ \in Int /\ ZZ \cong (z * w)
    BY <1>1, <1>2, <2>1, MultiplyCong
  <2> QED BY <1>1, <1>2, <2>2
<1>10. /\ P1 - N1 = f * (a1 * b2 + a2 * b1) /\ P1 + N1 = f * (a2 * b2 + a1 * b1)
       /\ f = 2 * Z1 /\ f \in Int
  BY <1>1, <1>2, <1>3
<1>11. T1 = f * k
  <2> DEFINE a == a1 * a2  b == b1 * b2
  <2>1. a \in Int /\ b \in Int /\ k = d * (a * b) /\ T1 = (a * z) * (((2 * d) * b) * w)
    BY <1>3, <1>5
  <2> HIDE DEF a, b, T1, k
  <2>2. (a * z) * (((2 * d) * b) * w) = ((2 * z) * w) * (d * (a * b))
    BY <1>1, <1>2, <1>3, <2>1
  <2> QED BY <2>1, <2>2
<1> HIDE DEF PP, MM, TT, ZZ, P1, N1, T1, Z1, f
<1>12. k \in Int
  BY <1>3, <1>5
<1>13. r.x \in Int /\ r.x \cong (P1 - N1) /\ r.y \in Int /\ r.y \cong (P1 + N1)
  <2> DEFINE u == PP - MM  v == PP + MM  u1 == P1 - N1  v1 == P1 + N1
  <2>3. u \in Int /\ v \in Int /\ u1 \in Int /\ v1 \in Int
    BY <1>6, <1>7
  <2>4. u \cong u1 /\ v \cong v1
    BY <1>6, <1>7, CongSum, Zenon
  <2>1. u \in Int /\ v \in Int /\ u1 \in Int /\ v1 \in Int /\ u \cong u1 /\ v \cong v1
    BY <2>3, <2>4
  <2> HIDE DEF u, v, u1, v1
  <2>2. u % Prime \in Int /\ (u % Prime) \cong u1 /\ v % Prime \in Int /\ (v % Prime) \cong v1
    BY <2>1, ModCong
  <2> QED BY <1>4, <2>2 DEF u, v, u1, v1
<1>14. r.z \in Int /\ r.z \cong (2 * Z1 + T1) /\ r.t \in Int /\ r.t \cong (2 * Z1 - T1)
  <2> DEFINE zz == 2 * ZZ  z1 == 2 * Z1  u == zz + TT  v == zz - TT  u1 == z1 + T1  v1 == z1 - T1
  <2>1. zz \in Int /\ z1 \in Int /\ zz \cong z1
    <3> DEFINE two == 2
    <3>1. two \in Int
      OBVIOUS
    <3> HIDE DEF two
    <3>2. (two * ZZ) \cong (two * Z1)
      BY <1>9, <3>1, CongTimes
    <3> QED BY <1>9, <3>2 DEF two
  <2> HIDE DEF zz, z1
  <2>2. u \in Int /\ v \in Int /\ u1 \in Int /\ v1 \in Int /\ u \cong u1 /\ v \cong v1
    BY <1>8, <2>1, CongSum
  <2> HIDE DEF u, v, u1, v1
  <2>3. u % Prime \in Int /\ (u % Prime) \cong u1 /\ v % Prime \in Int /\ (v % Prime) \cong v1
    BY <2>2, ModCong
  <2> QED BY <1>4, <2>3 DEF u, v, u1, v1, zz, z1
<1>15. 2 * Z1 + T1 = f * (1 + k) /\ 2 * Z1 - T1 = f * (1 - k)
  <2>1. f * (1 + k) = f + f * k /\ f * (1 - k) = f - f * k
    BY <1>10, <1>12
  <2> QED BY <1>10, <1>11, <2>1
<1>16. ~(f \cong 0)
  <2> DEFINE z2 == 2 * z
  <2>1. z2 \in Int
    BY <1>1
  <2>2. ~(z2 \cong 0)
    <3> DEFINE two == 2
    <3>1. two \in Int /\ ~(two \cong 0)
      BY SmallNumbers
    <3> HIDE DEF two
    <3>2. ~((two * z) \cong 0)
      BY <1>1, <3>1, NonzeroProduct
    <3> QED BY <3>2 DEF two
  <2> HIDE DEF z2
  <2>3. ~((z2 * w) \cong 0)
    BY <1>1, <1>2, <2>1, <2>2, NonzeroProduct
  <2> QED BY <2>3 DEF f, z2
<1>17. /\ r.x \in Int /\ r.y \in Int /\ r.z \in Int /\ r.t \in Int /\ f \in Int /\ ~(f \cong 0)
       /\ r.x \cong (f * Skew(c, e)) /\ r.y \cong (f * Even(c, e))
       /\ r.z \cong (f * (1 + k)) /\ r.t \cong (f * (1 - k))
  BY <1>5, <1>10, <1>13, <1>14, <1>15, <1>16
<1> QED BY <1>17 DEF r, f, z, w, k

Factored(a, f, s) == a \in Int /\ f \in Int /\ s \in Int /\ a \cong (f * s)

LEMMA ThreeProduct ==
  ASSUME NEW a, NEW b, NEW f, NEW g, NEW s, NEW u \in Int,
         Factored(a, f, s), Factored(b, f, g), s \cong u
  PROVE  Multiply(a, b) \in Field /\ Multiply(a, b) \cong ((f * f) * (u * g))
<1> DEFINE fs == f * s  fg == f * g  p == Multiply(a, b)  q == fs * fg
           ff == (f * f) * g  t == ff * u  t1 == ff * s
<1>0. a \in Int /\ b \in Int /\ f \in Int /\ g \in Int /\ s \in Int /\ a \cong (f * s) /\ b \cong (f * g)
  BY DEF Factored
<1>1. fs \in Int /\ fg \in Int /\ q \in Int /\ t \in Int /\ t1 \in Int /\ q = t1 /\ t = (f * f) * (u * g) /\ ff \in Int
  BY <1>0
<1>2. a \cong fs /\ b \cong fg
  BY <1>0
<1>3. p \in Field /\ p \in Int /\ p \cong q
  <2> HIDE DEF fs, fg
  <2> QED BY <1>0, <1>1, <1>2, MultiplyCong
<1>4. t1 \cong t
  <2> HIDE DEF ff
  <2> QED BY <1>0, <1>1, CongTimes
<1> HIDE DEF p, q, t, t1
<1>5. p \cong t
  BY <1>1, <1>3, <1>4, CongTransitive
<1> QED BY <1>1, <1>3, <1>5 DEF p

(* projP1xP1.Add, brought to extended coordinates, is the addition law.    *)
LEMMA AddCachedIs ==
  ASSUME NEW c \in Curve, NEW e \in Curve, NEW p, NEW q, Represents(p, c), IsCached(q, e)
  PROVE  Represents(fromP1xP1(AddCached(p, q)), Plus(c, e))
<1> DEFINE r == AddCached(p, q)  f == (2 * p.z) * q.Z  k == JointOf(c, e)  n == 1 + k  m == 1 - k
           s == Skew(c, e)  h == Even(c, e)  X == Plus(c, e)[1]  Y == Plus(c, e)[2]
           nX == n * X  mY == m * Y  o == fromP1xP1(r)  ff == f * f
<1>1. /\ r.x \in Int /\ r.y \in Int /\ r.z \in Int /\ r.t \in Int /\ f \in Int /\ ~(f \cong 0)
      /\ r.x \cong (f * s) /\ r.y \cong (f * h)
      /\ r.z \cong (f * n) /\ r.t \cong (f * m)
  BY AddedParts
<1>2. k \in Int /\ s \in Int /\ h \in Int /\ ~(n \cong 0) /\ ~(m \cong 0)
  BY Divisors
<1>3. X \in Int /\ Y \in Int /\ nX \cong s /\ mY \cong h
  BY PlusParts
<1>4. /\ o.x = Multiply(r.x, r.t) /\ o.y = Multiply(r.y, r.z) /\ o.z = Multiply(r.z, r.t) /\ o.t = Multiply(r.x, r.y)
  BY DEF fromP1xP1, Point
<1> HIDE DEF r, f, k, s, h, X, Y, o
<1>5. n \in Int /\ m \in Int
  BY <1>2
<1> HIDE DEF n, m
<1>6. nX \in Int /\ mY \in Int /\ ff \in Int /\ n \cong n
  BY <1>1, <1>3, <1>5, CongMod
<1>7. s \cong nX /\ h \cong mY
  <2> HIDE DEF nX, mY
  <2> QED BY <1>2, <1>3, <1>6, CongSymmetric
<1>30. Factored(r.x, f, s) /\ Factored(r.y, f, h) /\ Factored(r.z, f, n) /\ Factored(r.t, f, m)
  BY <1>1, <1>2, <1>5 DEF Factored
<1>8. o.x \in Field /\ o.x \cong (ff * (nX * m))
  <2> HIDE DEF nX, mY
  <2> QED BY <1>4, <1>5, <1>6, <1>7, <1>30, ThreeProduct
<1>9. o.y \in Field /\ o.y \cong (ff * (mY * n))
  <2> HIDE DEF nX, mY
  <2> QED BY <1>4, <1>5, <1>6, <1>7, <1>30, ThreeProduct
<1>10. o.z \in Field /\ o.z \cong (ff * (n * m))
  <2> HIDE DEF nX, mY
  <2> QED BY <1>4, <1>5, <1>6, <1>7, <1>30, ThreeProduct
<1>11. o.t \in Field /\ o.t \cong (ff * (nX * mY))
  <2>1. r.y \cong (f * mY)
    <3> DEFINE fh == f * h  fm == f * mY
    <3>1. fh \in Int /\ fm \in Int /\ r.y \cong fh
      BY <1>1, <1>2, <1>6
    <3>2. fh \cong fm
      <4> HIDE DEF mY
      <4> QED BY <1>1, <1>2, <1>6, <1>7, CongTimes
    <3> HIDE DEF fh, fm
    <3>3. r.y \cong fm
      BY <1>1, <3>1, <3>2, CongTransitive
    <3> QED BY <3>3 DEF fm
  <2> HIDE DEF nX, mY
  <2>2. Factored(r.y, f, mY)
    BY <1>1, <1>6, <2>1 DEF Factored
  <2> QED BY <1>4, <1>6, <1>7, <1>30, <2>2, ThreeProduct
<1> DEFINE g == ff * (n * m)  XY == X * Y  x1 == X * g  y1 == Y * g  t1 == XY * g
           xo == X * o.z  yo == Y * o.z  to == XY * o.z
<1>12. g \in Int /\ XY \in Int /\ x1 \in Int /\ y1 \in Int /\ t1 \in Int
  <2> HIDE DEF ff
  <2> QED BY <1>3, <1>5, <1>6
<1>13. ff * (nX * m) = x1 /\ ff * (mY * n) = y1 /\ ff * (nX * mY) = t1
  <2> HIDE DEF ff
  <2> QED BY <1>3, <1>5, <1>6
<1>14. o.x \in Int /\ o.y \in Int /\ o.z \in Int /\ o.t \in Int
  BY <1>8, <1>9, <1>10, <1>11, FieldInt
<1>15. g \cong o.z
  <2>1. o.z \cong g
    BY <1>10
  <2> HIDE DEF g
  <2> QED BY <1>12, <1>14, <2>1, CongSymmetric
<1>16. xo \in Int /\ yo \in Int /\ to \in Int /\ x1 \cong xo /\ y1 \cong yo /\ t1 \cong to
  <2>1. xo \in Int /\ yo \in Int /\ to \in Int
    BY <1>3, <1>12, <1>14
  <2> HIDE DEF g, XY
  <2> QED BY <1>3, <1>12, <1>14, <1>15, <2>1, CongTimes
<1>17. o.x \cong x1 /\ o.y \cong y1 /\ o.t \cong t1
  BY <1>8, <1>9, <1>11, <1>13
<1> HIDE DEF x1, y1, t1, xo, yo, to
<1>18. o.x \cong xo /\ o.y \cong yo /\ o.t \cong to
  BY <1>12, <1>14, <1>16, <1>17, CongTransitive
<1>19. ~(o.z \cong 0)
  <2> DEFINE nm == n * m
  <2>1. nm \in Int
    BY <1>5
  <2>2. ~(ff \cong 0) /\ ~(nm \cong 0)
    <3>1. ~(n \cong 0) /\ ~(m \cong 0)
      BY <1>2 DEF n, m
    <3> QED BY <1>1, <1>5, <3>1, NonzeroProduct
  <2> HIDE DEF nm, ff
  <2>3. ~(g \cong 0)
    BY <1>6, <2>1, <2>2, NonzeroProduct DEF nm
  <2> HIDE DEF g
  <2> QED BY <1>12, <1>14, <1>15, <2>3, CongTransitive
<1>20. Represents(o, <<X, Y>>)
  BY <1>8, <1>9, <1>10, <1>11, <1>18, <1>19 DEF Represents, xo, yo, to, XY
<1>21. Plus(c, e) = <<X, Y>>
  BY DEF Plus, X, Y
<1> QED BY <1>20, <1>21 DEF o, r

(* Points are added and subtracted as the curve says, equal points and the *)
(* identity included.                                                      *)
LEMMA AddPointsIs ==
  ASSUME NEW c \in Curve, NEW e \in Curve, NEW p, NEW q, Represents(p, c), Represents(q, e)
  PROVE  /\ Represents(AddPoints(p, q), Plus(c, e))
         /\ Represents(SubtractPoints(p, q), Plus(c, Opposite(e)))
<1>1. Represents(AddPoints(p, q), Plus(c, e))
  <2>1. IsCached(Cached(q), e)
    BY CachedIs
  <2> QED BY <2>1, AddCachedIs DEF AddPoints
<1>2. Represents(SubtractPoints(p, q), Plus(c, Opposite(e)))
  <2> DEFINE g == Cached(q)
             r == [g EXCEPT !.YplusX = g.YminusX, !.YminusX = g.YplusX, !.T2d = Negate(g.T2d)]
  <2>1. IsCached(r, Opposite(e)) /\ Opposite(e) \in Curve
    BY CachedOpposite, OppositeIs
  <2>2. SubtractPoints(p, q) = fromP1xP1(AddCached(p, r))
    BY DEF SubtractPoints, SubCached
  <2> HIDE DEF r
  <2> QED BY <2>1, <2>2, AddCachedIs
<1> QED BY <1>1, <1>2

LEMMA IdentityIs == Represents(Identity, Neutral)
<1>1. /\ Identity.x = 0 /\ Identity.y = 1 /\ Identity.z = 1 /\ Identity.t = 0
      /\ Neutral[1] = 0 /\ Neutral[2] = 1
  BY DEF Identity, Point, Neutral
<1>2. 0 \in Field /\ 1 \in Field /\ 0 \cong 0 /\ 1 \cong 1 /\ ~(1 \cong 0)
  BY PrimeIsLarge, SmallNumbers, CongMod
<1>3. 0 * 1 = 0 /\ 1 * 1 = 1 /\ (0 * 1) * 1 = 0
  OBVIOUS
<1> QED BY <1>1, <1>2, <1>3 DEF Represents

LEMMA NegateOf ==
  ASSUME NEW r \in Field
  PROVE  /\ Negate(r) = (IF r = 0 THEN 0 ELSE Prime - r) /\ Negate(r) \in Field
         /\ r # 0 => (Negate(r) % 2 = 1 <=> r % 2 = 0)
<1>1. Prime \in Nat /\ Prime % 2 = 1 /\ r \in Int /\ r >= 0 /\ r < Prime /\ Prime >= 1
  BY PrimeIsLarge DEF Field
<1>2. CASE r = 0
  <2>1. (-0) % Prime = 0
    BY <1>1
  <2> QED BY <1>1, <1>2, <2>1 DEF Negate, Field
<1>3. CASE r # 0
  <2>1. Prime - r \in 0 .. Prime - 1
    BY <1>1, <1>3
  <2>2. -r = (Prime - r) + Prime * (-1)
    BY <1>1
  <2>3. Same(-r, Prime - r, Prime)
    BY <1>1, <2>2 DEF Same
  <2>4. (-r) % Prime = Prime - r
    BY <1>1, <2>1, <2>3, SameRemainder
  <2>5. (Prime - r) % 2 = 1 <=> r % 2 = 0
    BY <1>1
  <2> QED BY <1>3, <2>1, <2>4, <2>5 DEF Negate, Field
<1> QED BY <1>2, <1>3

(* The encoding of a pair of the curve.                                    *)
Code(c) == c[2] + IF c[1] % 2 = 1 THEN SignBit ELSE 0

LEMMA Divided ==
  ASSUME NEW a \in Field, NEW z \in Field, NEW x \in Field, ~(z \cong 0), x \cong (a * z)
  PROVE  Multiply(x, InverseOf(z)) = a
<1> DEFINE j == Inv(z)  p == Multiply(x, j)  az == a * z  zj == z * j  azj == az * j
<1>1. a \in Int /\ z \in Int /\ x \in Int
  BY FieldInt
<1>2. InverseOf(z) = j
  <2>1. z % Prime = z
    BY PrimeIsLarge DEF Field
  <2> QED BY <2>1 DEF Inv
<1>3. j \in Int /\ zj \cong 1
  <2>1. j \in Field /\ zj \cong 1
    BY <1>1, InverseIs
  <2> HIDE DEF j
  <2> QED BY <2>1, FieldInt
<1> HIDE DEF j
<1>4. az \in Int /\ zj \in Int /\ azj \in Int /\ azj = a * zj /\ a * 1 = a /\ j \cong j /\ x \cong az
  BY <1>1, <1>3, CongMod
<1>5. p \in Field /\ p \in Int /\ p \cong azj
  <2> HIDE DEF az
  <2> QED BY <1>1, <1>3, <1>4, MultiplyCong
<1>6. azj \cong a
  <2> DEFINE o == 1
  <2>1. o \in Int /\ zj \cong o /\ a * o = a
    BY <1>3, <1>4
  <2> HIDE DEF o, zj
  <2>2. (a * zj) \cong (a * o)
    BY <1>1, <1>4, <2>1, CongTimes
  <2> QED BY <1>4, <2>1, <2>2
<1> HIDE DEF azj, p
<1>7. p \cong a
  BY <1>1, <1>4, <1>5, <1>6, CongTransitive
<1>8. p = a
  BY <1>5, <1>7, CongEqual
<1> QED BY <1>2, <1>8 DEF p

(* What is encoded is the pair that a point stands for, whatever its z.    *)
THEOREM PointBytesIs ==
  ASSUME NEW c \in Curve, NEW p, Represents(p, c)
  PROVE  PointBytes(p) = Code(c)
<1>1. /\ p.x \in Field /\ p.y \in Field /\ p.z \in Field /\ ~(p.z \cong 0)
      /\ p.x \cong (c[1] * p.z) /\ p.y \cong (c[2] * p.z) /\ c[1] \in Field /\ c[2] \in Field
  BY CurveIs DEF Represents
<1>2. Multiply(p.x, InverseOf(p.z)) = c[1] /\ Multiply(p.y, InverseOf(p.z)) = c[2]
  BY <1>1, Divided
<1> QED BY <1>2 DEF PointBytes, Code, IsNegative

----------------------------------------------------------------------------
(* The parts of SetPointBytes: the ratio whose root is x.                  *)
YOf(e) == (e % SignBit) % Prime
Top(y) == (Multiply(y, y) - 1) % Prime
Bottom(y) == (Multiply(Multiply(y, y), CurveD) + 1) % Prime
XOf(e) ==
  IF e >= SignBit THEN Negate(SqrtRatio(Top(YOf(e)), Bottom(YOf(e))).root)
                  ELSE SqrtRatio(Top(YOf(e)), Bottom(YOf(e))).root

LEMMA SetPointBytesParts ==
  ASSUME NEW e
  PROVE  SetPointBytes(e) =
           IF ~SqrtRatio(Top(YOf(e)), Bottom(YOf(e))).isSquare THEN NotAPoint
           ELSE Point(XOf(e), YOf(e), 1, Multiply(XOf(e), YOf(e)))
BY DEF SetPointBytes, YOf, Top, Bottom, XOf

(* The x that belong to an y are the roots of the ratio.                   *)
LEMMA RatioIs ==
  ASSUME NEW y \in Field
  PROVE  /\ Top(y) \in Field /\ Bottom(y) \in Field /\ ~(Bottom(y) \cong 0)
         /\ \A x \in Int : (Bottom(y) * (x * x)) \cong Top(y) <=> Defect(x, y) \cong 0
<1> DEFINE y2 == Multiply(y, y)  yy == y * y  y2d == Multiply(y2, CurveD)  u == Top(y)  v == Bottom(y)
           a == yy - 1  yyd == yy * CurveD  b == yyd + 1  y2m == y2 - 1  y2p == y2d + 1
<1>1. y \in Int /\ CurveD \in Int /\ CurveD \cong CurveD /\ yy \in Int /\ a \in Int /\ yyd \in Int /\ b \in Int
      /\ 1 \cong 1
  BY FieldInt, CurveDIs, CongMod
<1>2. y2 \in Int /\ y2 \cong yy
  <2>1. y2 \in Field /\ y2 \cong yy
    BY <1>1, MultiplyIs
  <2> HIDE DEF y2
  <2> QED BY <2>1, FieldInt
<1> HIDE DEF y2, yy
<1>3. y2d \in Int /\ y2d \cong yyd
  BY <1>1, <1>2, MultiplyCong
<1> HIDE DEF y2d, yyd
<1>4. y2m \in Int /\ y2p \in Int /\ y2m \cong a /\ y2p \cong b
  <2> DEFINE o == 1
  <2>1. o \in Int /\ o \cong o
    BY <1>1
  <2> HIDE DEF o
  <2>2. (y2 - o) \cong (yy - o) /\ (y2d + o) \cong (yyd + o)
    BY <1>1, <1>2, <1>3, <2>1, CongSum
  <2>3. y2m \in Int /\ y2p \in Int
    BY <1>2, <1>3
  <2> QED BY <2>2, <2>3 DEF o
<1>5. u = y2m % Prime /\ v = y2p % Prime
  BY DEF Top, Bottom, y2, y2d
<1> HIDE DEF y2m, y2p, u, v, a, b
<1>6. u \in Field /\ u \in Int /\ u \cong a /\ v \in Field /\ v \in Int /\ v \cong b
  BY <1>1, <1>4, <1>5, ModCong
<1>7. ~(b \cong 0)
  <2>1. b = CurveD * (y * y) + 1
    BY <1>1 DEF b, yyd, yy
  <2> QED BY <1>1, <2>1, DivisorIs
<1>8. ~(v \cong 0)
  <2>1. b \cong v
    BY <1>1, <1>6, CongSymmetric
  <2> QED BY <1>1, <1>6, <1>7, <2>1, CongTransitive
<1>9. ASSUME NEW x \in Int PROVE (v * (x * x)) \cong u <=> Defect(x, y) \cong 0
  <2> DEFINE xx == x * x  vx == v * xx  bx == b * xx  f == Defect(x, y)
  <2>1. xx \in Int /\ vx \in Int /\ bx \in Int
    BY <1>1, <1>6
  <2>2. f = a - bx /\ f \in Int
    <3>1. f = ((yy - xx) - 1) - CurveD * (xx * yy)
      BY DEF Defect, yy
    <3>2. bx = CurveD * (xx * yy) + xx
      <4> HIDE DEF xx
      <4> QED BY <1>1, <2>1 DEF b, yyd
    <3> DEFINE g == CurveD * (xx * yy)
    <3>3. g \in Int /\ f = ((yy - xx) - 1) - g /\ bx = g + xx /\ a = yy - 1
      <4>1. g \in Int
        BY <1>1, <2>1
      <4> QED BY <3>1, <3>2, <4>1 DEF a
    <3> HIDE DEF g, f, bx, xx
    <3> QED BY <1>1, <2>1, <3>3
  <2>3. vx \cong bx
    <3> HIDE DEF xx
    <3> QED BY <1>1, <1>6, <2>1, CongTimes
  <2> HIDE DEF vx, bx, f
  <2>4. vx \cong u <=> a \cong bx
    <3>1. ASSUME vx \cong u PROVE a \cong bx
      <4>1. vx \cong a
        BY <1>1, <1>6, <2>1, <3>1, CongTransitive
      <4>2. a \cong vx
        BY <1>1, <2>1, <4>1, CongSymmetric
      <4> QED BY <1>1, <2>1, <2>3, <4>2, CongTransitive
    <3>2. ASSUME a \cong bx PROVE vx \cong u
      <4>1. bx \cong a /\ a \cong u
        BY <1>1, <1>6, <2>1, <3>2, CongSymmetric
      <4>2. vx \cong a
        BY <1>1, <2>1, <2>3, <4>1, CongTransitive
      <4> QED BY <1>1, <1>6, <2>1, <4>1, <4>2, CongTransitive
    <3> QED BY <3>1, <3>2
  <2>5. a \cong bx <=> f \cong 0
    BY <1>1, <2>1, <2>2, CongDifference
  <2> QED BY <2>4, <2>5 DEF vx, xx, f
<1> QED BY <1>6, <1>8, <1>9 DEF u, v

(* What a decoded point is.                                                *)
Affine(e) == <<XOf(e), YOf(e)>>

(* A text is decoded to the point of the curve with its y and its sign, and*)
(* refused only if no point has that y.                                    *)
THEOREM SetPointBytesIs ==
  ASSUME NEW e \in Nat
  PROVE  /\ YOf(e) \in Field
         /\ SetPointBytes(e) = NotAPoint => \A x \in Field : ~(Defect(x, YOf(e)) \cong 0)
         /\ SetPointBytes(e) # NotAPoint =>
              /\ Affine(e) \in Curve /\ XOf(e) \in Field
              /\ SetPointBytes(e) = Point(XOf(e), YOf(e), 1, Multiply(XOf(e), YOf(e)))
              /\ XOf(e) # 0 => (XOf(e) % 2 = 1 <=> e >= SignBit)
              /\ Represents(SetPointBytes(e), Affine(e))
<1> DEFINE y == YOf(e)  u == Top(y)  v == Bottom(y)  r == SqrtRatio(u, v).root  x == XOf(e)  p == SetPointBytes(e)
<1>1. y \in Field
  <2>1. SignBit \in Nat /\ SignBit >= 1 /\ Prime \in Nat
    BY CurveAssumption, PrimeIsLarge
  <2>2. e % SignBit \in Int
    BY <2>1
  <2> QED BY <2>2, CongMod DEF YOf
<1> HIDE DEF y
<1>2. u \in Field /\ v \in Field /\ ~(v \cong 0) /\ \A w \in Int : (v * (w * w)) \cong u <=> Defect(w, y) \cong 0
  BY <1>1, RatioIs
<1>3. p = IF ~SqrtRatio(u, v).isSquare THEN NotAPoint ELSE Point(x, y, 1, Multiply(x, y))
  BY SetPointBytesParts DEF y
<1>4. x = IF e >= SignBit THEN Negate(r) ELSE r
  BY DEF XOf, y
<1>5. Point(x, y, 1, Multiply(x, y)) # NotAPoint
  <2>1. Point(x, y, 1, Multiply(x, y)).z = 1 /\ NotAPoint.z = 0
    BY DEF Point, NotAPoint
  <2> QED BY <2>1
<1> HIDE DEF u, v, x, p
<1>6. ASSUME p = NotAPoint, NEW w \in Field, Defect(w, y) \cong 0 PROVE FALSE
  <2> DEFINE ww == w * w
  <2>1. w \in Int /\ u \in Int /\ v \in Int
    BY <1>2, FieldInt
  <2>2. (v * ww) \cong u /\ v * ww = ww * v
    BY <1>2, <1>6, <2>1
  <2>3. (ww * v) \cong u
    BY <2>2
  <2>4. SqrtRatio(u, v).isSquare
    BY <1>2, <2>1, <2>3, SqrtRatioComplete
  <2> QED BY <1>3, <1>5, <1>6, <2>4
<1>7. ASSUME p # NotAPoint
      PROVE  /\ <<x, y>> \in Curve /\ x \in Field
             /\ p = Point(x, y, 1, Multiply(x, y))
             /\ x # 0 => (x % 2 = 1 <=> e >= SignBit)
             /\ Represents(p, <<x, y>>)
  <2>1. SqrtRatio(u, v).isSquare /\ p = Point(x, y, 1, Multiply(x, y))
    BY <1>3, <1>7
  <2>2. r \in Field /\ r % 2 = 0 /\ (v * (r * r)) \cong u
    BY <1>2, <2>1, SqrtRatioRoot
  <2> HIDE DEF r
  <2>3. x \in Field /\ (x # 0 => (x % 2 = 1 <=> e >= SignBit))
    <3>1. CASE e >= SignBit
      <4>1. x = Negate(r)
        BY <1>4, <3>1
      <4>2. r = 0 => Negate(r) = 0
        BY <2>2, NegateOf
      <4> QED BY <2>2, <3>1, <4>1, <4>2, NegateOf
    <3>2. CASE ~(e >= SignBit)
      <4>1. x = r
        BY <1>4, <3>2
      <4> QED BY <2>2, <3>2, <4>1
    <3> QED BY <3>1, <3>2
  <2>4. x \in Int /\ r \in Int /\ y \in Int /\ x * x \in Int
    BY <1>1, <2>2, <2>3, FieldInt
  <2>5. Defect(r, y) \cong 0 /\ Defect(r, y) \in Int
    BY <1>2, <2>2, <2>4, DefectInt
  <2>6. Defect(x, y) \cong 0
    <3>1. CASE e >= SignBit
      <4>1. x = Negate(r)
        BY <1>4, <3>1
      <4>2. (x = 0 /\ r = 0) \/ x = Prime - r
        BY <2>2, <4>1, NegateOf
      <4>3. CASE x = Prime - r
        <5>1. Prime \in Int
          BY PrimeIsLarge
        <5>2. x * x = r * r + Prime * (Prime - 2 * r)
          BY <2>4, <4>3, <5>1
        <5> DEFINE xx == x * x  rr == r * r  q == Prime * (Prime - 2 * r)  c == -(1 + CurveD * (y * y))
                   z == c * q  g == Defect(r, y)  f == Defect(x, y)
        <5>3. q \in Int /\ q \cong 0
          <6> DEFINE w == Prime - 2 * r
          <6>1. w \in Int
            BY <2>4, <5>1
          <6> HIDE DEF w
          <6>2. Prime * w \in Int /\ Prime * w = 0 + Prime * w
            BY <5>1, <6>1
          <6>3. (Prime * w) \cong 0
            BY <6>1, <6>2 DEF \cong, Same
          <6> QED BY <6>2, <6>3 DEF w
        <5>4. xx = rr + q /\ rr \in Int /\ c \in Int
          BY <2>4, <5>2, CurveDIs
        <5>5. f = g + z
          <6> DEFINE yy == y * y
          <6>1. f = ((yy - xx) - 1) - CurveD * (xx * yy) /\ g = ((yy - rr) - 1) - CurveD * (rr * yy) /\ yy \in Int
            BY <2>4 DEF Defect
          <6>2. z = -((1 + CurveD * yy) * q)
            <7> HIDE DEF q
            <7>1. c = -(1 + CurveD * yy)
              OBVIOUS
            <7> HIDE DEF c
            <7>2. 1 + CurveD * yy \in Int
              BY <6>1, CurveDIs
            <7> QED BY <5>3, <5>4, <7>1, <7>2
          <6> HIDE DEF xx, rr, q, z, f, g, c, yy
          <6>3. f = ((yy - (rr + q)) - 1) - CurveD * ((rr + q) * yy)
            BY <5>4, <6>1
          <6> QED BY <5>3, <5>4, <6>1, <6>2, <6>3, CurveDIs
        <5> HIDE DEF q, c
        <5>6. z \cong 0 /\ z \in Int
          BY <5>3, <5>4, Vanish
        <5> DEFINE o == 1
        <5>7. o \in Int /\ g \in Int /\ g \cong 0 /\ f = o * g + o * z
          BY <2>5, <5>5, <5>6
        <5> HIDE DEF o, g, z, f
        <5>8. (o * g + o * z) \cong 0
          BY <5>6, <5>7, Vanish
        <5> QED BY <5>7, <5>8 DEF f
      <4> QED BY <2>5, <4>2, <4>3
    <3>2. CASE ~(e >= SignBit)
      BY <1>4, <2>5, <3>2
    <3> QED BY <3>1, <3>2
  <2>7. <<x, y>> \in Curve
    BY <1>1, <2>3, <2>6 DEF Curve
  <2>8. Represents(p, <<x, y>>)
    <3>1. p.x = x /\ p.y = y /\ p.z = 1 /\ p.t = Multiply(x, y)
      BY <2>1 DEF Point
    <3>2. 1 \in Field /\ ~(1 \cong 0) /\ x * 1 = x /\ y * 1 = y /\ (x * y) * 1 = x * y /\ x \cong x /\ y \cong y
      BY <2>4, SmallNumbers, PrimeIsLarge, CongMod
    <3>3. Multiply(x, y) \in Field /\ Multiply(x, y) \cong (x * y)
      BY <2>4, MultiplyIs
    <3> QED BY <1>1, <2>3, <3>1, <3>2, <3>3 DEF Represents
  <2> QED BY <2>1, <2>3, <2>7, <2>8
<1> QED BY <1>1, <1>6, <1>7 DEF Affine, p, x, y

(* An y of the curve belongs to one x and its opposite.                    *)
LEMMA OppositeRoots ==
  ASSUME NEW x \in Field, NEW w \in Field, NEW y \in Field, Defect(x, y) \cong 0, Defect(w, y) \cong 0
  PROVE  x = w \/ x = Negate(w)
<1> DEFINE xx == x * x  ww == w * w  v == Bottom(y)  u == Top(y)  vx == v * xx  vw == v * ww
           p == x - w  q == x + w  mw == -w  n == Negate(w)
<1>1. x \in Int /\ w \in Int /\ v \in Int /\ u \in Int /\ ~(v \cong 0)
      /\ \A z \in Int : (v * (z * z)) \cong u <=> Defect(z, y) \cong 0
  <2>1. v \in Field /\ u \in Field /\ ~(v \cong 0)
        /\ \A z \in Int : (v * (z * z)) \cong u <=> Defect(z, y) \cong 0
    BY RatioIs
  <2> HIDE DEF v, u
  <2> QED BY <2>1, FieldInt
<1> HIDE DEF v, u
<1>2. xx \in Int /\ ww \in Int /\ vx \in Int /\ vw \in Int /\ vx \cong u /\ vw \cong u
  BY <1>1
<1>3. xx \cong ww
  <2> HIDE DEF xx, ww
  <2>1. vx \cong vw
    <3> HIDE DEF vx, vw
    <3>1. u \cong vw
      BY <1>1, <1>2, CongSymmetric
    <3> QED BY <1>1, <1>2, <3>1, CongTransitive
  <2> QED BY <1>1, <1>2, <2>1, Cancel
<1>4. p \in Int /\ q \in Int /\ p * q = xx - ww /\ mw \in Int /\ q = x - mw
  BY <1>1
<1>5. (xx - ww) \cong 0
  <2> HIDE DEF xx, ww
  <2> QED BY <1>2, <1>3, CongDifference
<1>6. p \cong 0 \/ q \cong 0
  <2> HIDE DEF p, q
  <2> QED BY <1>4, <1>5, NonzeroProduct
<1>7. n \in Field /\ n \cong mw
  BY <1>1, NegateIs
<1>8. p \cong 0 => x \cong w
  BY <1>1, CongDifference
<1>9. q \cong 0 => x \cong mw
  <2> HIDE DEF q, mw
  <2> QED BY <1>1, <1>4, CongDifference
<1>10. x \cong w => x = w
  BY CongEqual
<1>11. x \cong mw => x = n
  <2> HIDE DEF mw, n
  <2> QED BY <1>4, <1>7, FieldEqual
<1> QED BY <1>6, <1>8, <1>9, <1>10, <1>11

(* What is encoded is decoded.                                             *)
THEOREM CodeIs ==
  ASSUME NEW c \in Curve
  PROVE  Code(c) \in Nat /\ SetPointBytes(Code(c)) # NotAPoint /\ Affine(Code(c)) = c
<1> DEFINE e == Code(c)  x == c[1]  y == c[2]  z == XOf(e)
<1>1. x \in Field /\ y \in Field /\ x \in Int /\ y \in Int /\ Defect(x, y) \cong 0 /\ c = <<x, y>>
  BY CurveIs
<1>2. Prime \in Nat /\ SignBit \in Nat /\ Prime <= SignBit /\ Prime >= 1
  BY CurveAssumption, PrimeIsLarge
<1>3. e = y + IF x % 2 = 1 THEN SignBit ELSE 0
  BY DEF Code
<1> HIDE DEF x, y, e
<1>4. y >= 0 /\ y < Prime /\ y < SignBit
  BY <1>1, <1>2 DEF Field
<1>5. e \in Nat /\ (e >= SignBit <=> x % 2 = 1)
  BY <1>1, <1>2, <1>3, <1>4
<1>6. YOf(e) = y
  <2>1. e % SignBit = y
    <3>1. Same(e, y, SignBit)
      <4>1. e = y + SignBit * 0 \/ e = y + SignBit * 1
        BY <1>1, <1>2, <1>3
      <4>2. 0 \in Int /\ 1 \in Int
        OBVIOUS
      <4> QED BY <4>1, <4>2 DEF Same
    <3>2. y \in 0 .. SignBit - 1 /\ SignBit >= 1 /\ e \in Int
      BY <1>1, <1>2, <1>4, <1>5
    <3> QED BY <1>2, <3>1, <3>2, SameRemainder
  <2>2. y % Prime = y
    BY <1>1, <1>2, <1>4
  <2> QED BY <2>1, <2>2 DEF YOf
<1>7. SetPointBytes(e) # NotAPoint
  BY <1>1, <1>5, <1>6, SetPointBytesIs
<1>8. Affine(e) \in Curve /\ z \in Field /\ (z # 0 => (z % 2 = 1 <=> e >= SignBit))
  BY <1>5, <1>7, SetPointBytesIs
<1>9. Defect(z, y) \cong 0
  BY <1>6, <1>8 DEF Affine, Curve
<1> HIDE DEF z
<1>10. z = x \/ z = Negate(x)
  BY <1>1, <1>8, <1>9, OppositeRoots
<1>11. z = x
  <2> SUFFICES ASSUME z # x PROVE FALSE
    OBVIOUS
  <2>1. z = Negate(x) /\ x # 0
    <3>1. x = 0 => Negate(x) = 0
      BY <1>1, NegateOf
    <3> QED BY <1>10, <3>1
  <2>2. z = Prime - x /\ (z % 2 = 1 <=> x % 2 = 0)
    BY <1>1, <2>1, NegateOf
  <2>3. z # 0
    BY <1>1, <1>2, <2>2 DEF Field
  <2>4. x % 2 = 1 <=> x % 2 = 0
    BY <1>5, <1>8, <2>2, <2>3
  <2> QED BY <1>1, <2>4
<1> QED BY <1>1, <1>5, <1>6, <1>7, <1>11 DEF Affine, z, e

----------------------------------------------------------------------------
(* Multiples of a point.                                                   *)
Adding(c) == [e \in Curve |-> Plus(c, e)]
Multiple(n, c) == Iterated(Adding(c), Neutral, n)

LEMMA MultipleNext ==
  ASSUME NEW c \in Curve, NEW n \in Nat
  PROVE  Multiple(n, c) \in Curve /\ Multiple(0, c) = Neutral /\ Multiple(n + 1, c) = Plus(c, Multiple(n, c))
<1>1. Adding(c) \in [Curve -> Curve] /\ Neutral \in Curve
  BY PlusOnCurve, PlusZero DEF Adding
<1>2. /\ Multiple(n, c) \in Curve /\ Multiple(0, c) = Neutral
      /\ Multiple(n + 1, c) = Adding(c)[Multiple(n, c)]
  BY <1>1, IteratedNext DEF Multiple
<1> QED BY <1>2 DEF Adding

(* Multiples add and multiply as integers do.                              *)
LEMMA MultipleSum ==
  ASSUME NEW c \in Curve, NEW m \in Nat, NEW n \in Nat
  PROVE  Multiple(m + n, c) = Plus(Multiple(m, c), Multiple(n, c))
<1> DEFINE T == {k \in Nat : Multiple(k + n, c) = Plus(Multiple(k, c), Multiple(n, c))}
<1>1. 0 \in T
  <2>1. 0 + n = n /\ Multiple(n, c) \in Curve /\ Multiple(0, c) = Neutral
    BY MultipleNext
  <2> QED BY <2>1, PlusZero
<1>2. ASSUME NEW k \in Nat, k \in T PROVE k + 1 \in T
  <2> DEFINE a == Multiple(k, c)  b == Multiple(n, c)  s == Multiple(k + n, c)
  <2>1. a \in Curve /\ b \in Curve /\ s = Plus(a, b) /\ Multiple(k + 1, c) = Plus(c, a)
    BY <1>2, MultipleNext
  <2>2. Multiple((k + n) + 1, c) = Plus(c, s) /\ (k + 1) + n = (k + n) + 1
    <3>1. k + n \in Nat
      OBVIOUS
    <3> QED BY <3>1, MultipleNext
  <2> HIDE DEF a, b, s
  <2>3. Plus(c, Plus(a, b)) = Plus(Plus(c, a), b)
    BY <2>1, PlusAssociates
  <2> QED BY <2>1, <2>2, <2>3 DEF a, b, s
<1> HIDE DEF T
<1>3. Nat \subseteq T
  BY <1>1, <1>2, SetInduction
<1> QED BY <1>3 DEF T

LEMMA MultipleProduct ==
  ASSUME NEW c \in Curve, NEW m \in Nat, NEW n \in Nat
  PROVE  Multiple(m * n, c) = Multiple(m, Multiple(n, c))
<1> DEFINE b == Multiple(n, c)  T == {k \in Nat : Multiple(k * n, c) = Multiple(k, b)}
<1>0. b \in Curve
  BY MultipleNext
<1>1. 0 \in T
  <2>1. Multiple(0, c) = Neutral /\ Multiple(0, b) = Neutral /\ 0 * n = 0
    BY <1>0, MultipleNext
  <2> QED BY <2>1
<1>2. ASSUME NEW k \in Nat, k \in T PROVE k + 1 \in T
  <2>1. k * n \in Nat /\ (k + 1) * n = k * n + n
    OBVIOUS
  <2>2. Multiple(k * n, c) = Multiple(k, b) /\ Multiple(k, b) \in Curve
        /\ Multiple(k + 1, b) = Plus(b, Multiple(k, b))
    BY <1>0, <1>2, MultipleNext
  <2> DEFINE kn == k * n
  <2>3. kn \in Nat
    BY <2>1
  <2> HIDE DEF kn
  <2>4. Multiple(kn + n, c) = Plus(Multiple(kn, c), b)
    BY <2>3, MultipleSum
  <2>5. Multiple(kn + n, c) = Plus(Multiple(k, b), b)
    BY <2>2, <2>4 DEF kn
  <2> HIDE DEF b
  <2>6. Plus(Multiple(k, b), b) = Plus(b, Multiple(k, b))
    BY <1>0, <2>2, PlusCommutes
  <2> QED BY <2>1, <2>2, <2>5, <2>6 DEF kn
<1> HIDE DEF T
<1>3. Nat \subseteq T
  BY <1>1, <1>2, SetInduction
<1> QED BY <1>3 DEF T

LEMMA MultipleOne ==
  ASSUME NEW c \in Curve
  PROVE  Multiple(1, c) = c /\ Multiple(2, c) = Plus(c, c)
<1>1. Multiple(0, c) = Neutral /\ Multiple(0 + 1, c) = Plus(c, Multiple(0, c))
  <2>1. 0 \in Nat
    OBVIOUS
  <2> QED BY <2>1, MultipleNext
<1>2. Multiple(1, c) = c
  BY <1>1, PlusZero
<1>3. Multiple(1 + 1, c) = Plus(c, Multiple(1, c))
  <2>1. 1 \in Nat
    OBVIOUS
  <2> QED BY <2>1, MultipleNext
<1> QED BY <1>2, <1>3

(* The powers of two of Spake2.                                            *)
LEMMA TwoToIs ==
  /\ TwoTo[0] = 1 /\ TwoTo[ScalarBits] \in Nat
  /\ \A i \in 1 .. ScalarBits : TwoTo[i] \in Nat /\ TwoTo[i - 1] \in Nat /\ TwoTo[i] = 2 * TwoTo[i - 1]
<1> DEFINE dbl == [x \in Nat |-> 2 * x]  g == Iterates(dbl, 1, ScalarBits)
<1>1. ScalarBits \in Nat
  BY SpakeAssumption
<1>2. dbl \in [Nat -> Nat] /\ 1 \in Nat
  OBVIOUS
<1>3. g \in [0 .. ScalarBits -> Nat] /\ g[0] = 1 /\ \A i \in 1 .. ScalarBits : g[i] = dbl[g[i - 1]]
  <2> DEFINE o == 1  N == Nat
  <2> HIDE DEF dbl
  <2>0. o \in N /\ dbl \in [N -> N]
    BY <1>2
  <2> HIDE DEF o, N
  <2>1. Stepwise(Iterates(dbl, o, ScalarBits), N, o, dbl, ScalarBits)
    BY ONLY <1>1, <2>0, IteratesRun, Zenon
  <2> QED BY <2>1, Zenon DEF g, o, N, Stepwise
<1> HIDE DEF g
<1> DEFINE At(f, i) == IF i = 0 THEN 1 ELSE 2 * f[i - 1]
           Fits(f) == f = [i \in 0 .. ScalarBits |-> At(f, i)]
           F == CHOOSE f : Fits(f)
<1>4. \A i \in 0 .. ScalarBits : g[i] = At(g, i)
  <2> SUFFICES ASSUME NEW i \in 0 .. ScalarBits, i # 0 PROVE g[i] = 2 * g[i - 1]
    BY <1>3
  <2>1. i \in 1 .. ScalarBits /\ i - 1 \in 0 .. ScalarBits
    BY <1>1
  <2>2. g[i - 1] \in Nat
    BY <1>3, <2>1
  <2> QED BY <1>3, <2>1, <2>2
<1>5. Fits(g)
  <2> HIDE DEF At
  <2> QED BY <1>3, <1>4
<1>6. Fits(F)
  BY <1>5
<1>7. TwoTo = F
  BY DEF TwoTo
<1> HIDE DEF F
<1>8. \A i \in 0 .. ScalarBits : TwoTo[i] = At(TwoTo, i)
  <2> HIDE DEF At
  <2> QED BY <1>6, <1>7
<1>9. TwoTo[0] = 1 /\ \A i \in 1 .. ScalarBits : TwoTo[i] = 2 * TwoTo[i - 1]
  <2>1. 0 \in 0 .. ScalarBits /\ \A i \in 1 .. ScalarBits : i \in 0 .. ScalarBits /\ i # 0
    BY <1>1
  <2> QED BY <1>8, <2>1
<1> DEFINE T == {m \in Nat : m <= ScalarBits => TwoTo[m] \in Nat}
<1>10. 0 \in T
  BY <1>9
<1>11. ASSUME NEW m \in Nat, m \in T PROVE m + 1 \in T
  <2> SUFFICES ASSUME m + 1 <= ScalarBits PROVE TwoTo[m + 1] \in Nat
    OBVIOUS
  <2>1. TwoTo[m] \in Nat /\ m + 1 \in 1 .. ScalarBits /\ (m + 1) - 1 = m
    BY <1>1, <1>11
  <2> QED BY <1>9, <2>1
<1> HIDE DEF T
<1>12. Nat \subseteq T
  BY <1>10, <1>11, SetInduction
<1>13. \A i \in 0 .. ScalarBits : TwoTo[i] \in Nat
  BY <1>1, <1>12 DEF T
<1> QED BY <1>1, <1>9, <1>13

----------------------------------------------------------------------------
(* Doubling and adding.                                                    *)
Points == [x : Field, y : Field, z : Field, t : Field]

(* A sum keeps its coordinates in the field.                               *)
LEMMA PointsAdd ==
  ASSUME NEW p \in Points, NEW q \in Points
  PROVE  AddPoints(p, q) \in Points
<1> DEFINE c == Cached(q)  r == AddCached(p, c)
<1>1. /\ p.x \in Int /\ p.y \in Int /\ p.z \in Int /\ p.t \in Int
      /\ q.x \in Int /\ q.y \in Int /\ q.z \in Int /\ q.t \in Int /\ CurveD \in Int
  BY PrimeIsLarge, CurveDIs DEF Points
<1>2. c.YplusX \in Int /\ c.YminusX \in Int /\ c.Z \in Int /\ c.T2d \in Int
  <2>1. q.y + q.x \in Int /\ q.y - q.x \in Int /\ 2 * CurveD \in Int
    BY <1>1
  <2> QED BY <1>1, <2>1, ModCong, CongMod, MultiplyIs, FieldInt DEF Cached
<1> HIDE DEF c
<1>3. r.x \in Int /\ r.y \in Int /\ r.z \in Int /\ r.t \in Int
  <2> DEFINE s == p.y + p.x  m == p.y - p.x  e == m % Prime
             PP == Multiply(s, c.YplusX)  MM == Multiply(e, c.YminusX)
             TT == Multiply(p.t, c.T2d)  ZZ == 2 * Multiply(p.z, c.Z)
  <2>1. s \in Int /\ m \in Int
    BY <1>1
  <2>2. e \in Int
    <3> HIDE DEF m
    <3> QED BY <2>1, CongMod, FieldInt
  <2> HIDE DEF s, e
  <2>3. PP \in Int /\ MM \in Int /\ TT \in Int /\ Multiply(p.z, c.Z) \in Int
    BY <1>1, <1>2, <2>1, <2>2, MultiplyIs, FieldInt
  <2>4. ZZ \in Int
    BY <2>3
  <2>5. r.x = (PP - MM) % Prime /\ r.y = (PP + MM) % Prime /\ r.z = (ZZ + TT) % Prime /\ r.t = (ZZ - TT) % Prime
    BY DEF AddCached, Point, s, e
  <2> HIDE DEF PP, MM, TT, ZZ
  <2>6. PP - MM \in Int /\ PP + MM \in Int /\ ZZ + TT \in Int /\ ZZ - TT \in Int
    BY <2>3, <2>4
  <2> HIDE DEF r
  <2> QED BY <2>5, <2>6, CongMod, FieldInt
<1> HIDE DEF r
<1>4. AddPoints(p, q) = fromP1xP1(r)
  BY DEF AddPoints, r, c
<1>5. /\ Multiply(r.x, r.t) \in Field /\ Multiply(r.y, r.z) \in Field
      /\ Multiply(r.z, r.t) \in Field /\ Multiply(r.x, r.y) \in Field
  BY <1>3, MultiplyIs
<1> QED BY <1>4, <1>5 DEF fromP1xP1, Point, Points

States == [result : Points, addend : Points, bits : Nat]
Halved(s) ==
  [result |-> IF s.bits % 2 = 1 THEN AddPoints(s.result, s.addend) ELSE s.result,
   addend |-> AddPoints(s.addend, s.addend), bits |-> s.bits \div 2]

(* What is still to be added, with what has been, is the multiple.         *)
OnTheWay(s, v) ==
  \E r \in Curve, a \in Curve :
    Represents(s.result, r) /\ Represents(s.addend, a) /\ Plus(r, Multiple(s.bits, a)) = v

(* A doubling, with an addition where the lowest bit is set, keeps it.     *)
LEMMA StaysOnTheWay ==
  ASSUME NEW s \in States, NEW v, OnTheWay(s, v)
  PROVE  Halved(s) \in States /\ OnTheWay(Halved(s), v)
<1>1. PICK r \in Curve, a \in Curve :
        Represents(s.result, r) /\ Represents(s.addend, a) /\ Plus(r, Multiple(s.bits, a)) = v
  BY DEF OnTheWay
<1> DEFINE n == s.bits  h == n \div 2  b == n % 2  d == Halved(s)  aa == Plus(a, a)
<1>2. s.result \in Points /\ s.addend \in Points /\ n \in Nat
  BY DEF States
<1>3. h \in Nat /\ (b = 0 \/ b = 1) /\ n = 2 * h + b
  <2> DEFINE two == 2
  <2>1. two \in Nat /\ two >= 1 /\ two = 2 /\ n \in Int /\ n >= 0
    BY <1>2
  <2>2. b = n % two /\ h = n \div two
    OBVIOUS
  <2> HIDE DEF two, n, h, b
  <2>3. b \in 0 .. two - 1 /\ h \in Int /\ n = two * h + b
    BY <2>1, <2>2, Remainder
  <2> QED BY <2>1, <2>3
<1>4. d.addend = AddPoints(s.addend, s.addend) /\ d.bits = h
      /\ d.result = IF b = 1 THEN AddPoints(s.result, s.addend) ELSE s.result
  BY DEF Halved
<1>5. Halved(s) \in States
  BY <1>2, <1>3, PointsAdd DEF Halved, States
<1> HIDE DEF d, n, h, b
<1>6. aa \in Curve /\ Represents(d.addend, aa)
  BY <1>1, <1>4, PlusOnCurve, AddPointsIs
<1>7. Multiple(h * 2, a) = Multiple(h, aa) /\ Multiple(h, aa) \in Curve
  <2> DEFINE t == 2
  <2>1. t \in Nat /\ Multiple(t, a) = aa
    BY MultipleOne
  <2> HIDE DEF t, aa
  <2>2. Multiple(h * t, a) = Multiple(h, Multiple(t, a))
    BY <1>3, <2>1, MultipleProduct
  <2> QED BY <1>3, <1>6, <2>1, <2>2, MultipleNext DEF t
<1>8. CASE b = 0
  <2>1. n = 2 * h /\ 2 * h = h * 2 /\ d.result = s.result
    <3>1. n = 2 * h /\ 2 * h = h * 2
      BY <1>2, <1>3, <1>8
    <3> QED BY <1>4, <1>8, <3>1
  <2>2. Plus(r, Multiple(h, aa)) = v
    BY <1>1, <1>7, <2>1 DEF n
  <2> QED BY <1>1, <1>4, <1>5, <1>6, <2>1, <2>2 DEF OnTheWay, d
<1>9. CASE b = 1
  <2> DEFINE m == Multiple(h, aa)  ra == Plus(r, a)
  <2>1. n = 2 * h + 1 /\ 2 * h = h * 2 /\ d.result = AddPoints(s.result, s.addend)
    <3>1. n = 2 * h + 1 /\ 2 * h = h * 2
      BY <1>2, <1>3, <1>9
    <3> QED BY <1>4, <1>9, <3>1
  <2>2. ra \in Curve /\ Represents(d.result, ra)
    BY <1>1, <2>1, PlusOnCurve, AddPointsIs
  <2>3. h * 2 \in Nat
    BY <1>3
  <2>4. Multiple(n, a) = Plus(a, m)
    <3> DEFINE k == h * 2
    <3>1. Multiple(k + 1, a) = Plus(a, Multiple(k, a))
      <4> HIDE DEF k
      <4>1. k \in Nat
        BY <2>3 DEF k
      <4> QED BY <4>1, MultipleNext
    <3> QED BY <1>7, <2>1, <3>1
  <2> HIDE DEF m, ra
  <2>5. Plus(ra, m) = v
    <3>1. Plus(Plus(r, a), m) = Plus(r, Plus(a, m))
      BY <1>7, PlusAssociates DEF m
    <3> QED BY <1>1, <2>4, <3>1 DEF ra, n
  <2> QED BY <1>4, <1>5, <1>6, <2>2, <2>5 DEF OnTheWay, d, m
<1> QED BY <1>3, <1>8, <1>9

(* The loop of scalarMultArbitrary.                                        *)
Halves(f, s, v) ==
  /\ f \in [0 .. ScalarBits -> {t \in States : OnTheWay(t, v)}]
  /\ f[0] = s
  /\ \A i \in 1 .. ScalarBits : f[i] = Halved(f[i - 1])

LEMMA HalvesRun ==
  ASSUME NEW s, NEW v, s \in States, OnTheWay(s, v)
  PROVE  \E f : Halves(f, s, v)
<1> DEFINE K == {t \in States : OnTheWay(t, v)}
           k == [t \in K |-> Halved(t)]
           g == Iterates(k, s, ScalarBits)
<1>1. ScalarBits \in Nat
  BY SpakeAssumption
<1>2. s \in K
  OBVIOUS
<1>3. k \in [K -> K]
  BY StaysOnTheWay
<1>4. g \in [0 .. ScalarBits -> K] /\ g[0] = s /\ \A i \in 1 .. ScalarBits : g[i] = k[g[i - 1]]
  <2> HIDE DEF k, K
  <2>1. Stepwise(g, K, s, k, ScalarBits)
    BY ONLY <1>1, <1>2, <1>3, IteratesRun, Zenon
  <2> QED BY <2>1, Zenon DEF Stepwise
<1> HIDE DEF g
<1>5. \A i \in 1 .. ScalarBits : g[i] = Halved(g[i - 1])
  <2> SUFFICES ASSUME NEW i \in 1 .. ScalarBits PROVE g[i] = Halved(g[i - 1])
    OBVIOUS
  <2>1. g[i - 1] \in K
    <3> HIDE DEF K, k
    <3> QED BY <1>1, <1>4
  <2> QED BY <1>4, <2>1
<1> HIDE DEF k
<1> QED BY <1>4, <1>5 DEF Halves

(* scalarMultArbitrary is the multiple of its point, for any integer of    *)
(* ScalarBits bits: every bit is in it, and none beyond is left.           *)
THEOREM ScalarMultIs ==
  ASSUME NEW c \in Curve, NEW p \in Points, Represents(p, c),
         NEW n \in Nat, n < TwoTo[ScalarBits]
  PROVE  Represents(scalarMultArbitrary(p, n), Multiple(n, c))
<1> DEFINE s0 == [result |-> Identity, addend |-> p, bits |-> n]
           K == {s \in States : OnTheWay(s, Multiple(n, c))}
           At(f, i) == IF i = 0 THEN s0 ELSE Halved(f[i - 1])
           Fits(f) == f = [i \in 0 .. ScalarBits |-> At(f, i)]
           F == CHOOSE f : Fits(f)
<1>1. ScalarBits \in Nat
  BY SpakeAssumption
<1>2. s0 \in States /\ OnTheWay(s0, Multiple(n, c))
  <2>1. s0.result = Identity /\ s0.addend = p /\ s0.bits = n
    OBVIOUS
  <2>2. Identity \in Points
    BY PrimeIsLarge DEF Identity, Point, Points
  <2>3. s0 \in States
    BY <2>2 DEF States
  <2> HIDE DEF s0
  <2>4. Multiple(n, c) \in Curve /\ Plus(Neutral, Multiple(n, c)) = Multiple(n, c)
    BY MultipleNext, PlusZero
  <2>5. OnTheWay(s0, Multiple(n, c))
    BY <2>1, <2>4, PlusZero, IdentityIs DEF OnTheWay
  <2> QED BY <2>3, <2>5
<1>3. PICK g : Halves(g, s0, Multiple(n, c))
  <2> HIDE DEF s0
  <2> QED BY <1>2, HalvesRun
<1>4. g \in [0 .. ScalarBits -> K] /\ g[0] = s0 /\ \A i \in 1 .. ScalarBits : g[i] = Halved(g[i - 1])
  BY <1>3 DEF Halves
<1> HIDE DEF K
<1>6. \A i \in 0 .. ScalarBits : g[i] = At(g, i)
  BY <1>1, <1>4
<1>7. Fits(g)
  <2> HIDE DEF At
  <2> QED BY <1>4, <1>6
<1>8. Fits(F)
  BY <1>7
<1>9. scalarMultArbitrary(p, n) = F[ScalarBits].result
  BY DEF scalarMultArbitrary, Halved
<1> HIDE DEF F, s0
<1>10. \A i \in 0 .. ScalarBits : F[i] = At(F, i)
  <2> HIDE DEF At
  <2> QED BY <1>8
<1>11. F[0] = s0 /\ \A i \in 1 .. ScalarBits : F[i] = Halved(F[i - 1])
  <2>1. 0 \in 0 .. ScalarBits /\ \A i \in 1 .. ScalarBits : i \in 0 .. ScalarBits /\ i # 0
    BY <1>1
  <2> QED BY <1>10, <2>1
<1> DEFINE T == {m \in Nat : m <= ScalarBits => F[m] \in K /\ F[m].bits < TwoTo[ScalarBits - m]}
<1>12. 0 \in T
  <2>1. F[0].bits = n /\ ScalarBits - 0 = ScalarBits
    BY <1>1, <1>11 DEF s0
  <2> QED BY <1>2, <1>11, <2>1 DEF K
<1>13. ASSUME NEW m \in Nat, m \in T PROVE m + 1 \in T
  <2> SUFFICES ASSUME m + 1 <= ScalarBits
               PROVE  F[m + 1] \in K /\ F[m + 1].bits < TwoTo[ScalarBits - (m + 1)]
    OBVIOUS
  <2>1. F[m] \in K /\ F[m].bits < TwoTo[ScalarBits - m] /\ m + 1 \in 1 .. ScalarBits /\ (m + 1) - 1 = m
    BY <1>1, <1>13
  <2>2. F[m + 1] = Halved(F[m])
    BY <1>11, <2>1
  <2>3. F[m] \in States /\ OnTheWay(F[m], Multiple(n, c))
    BY <2>1 DEF K
  <2>4. F[m + 1] \in K
    BY <2>2, <2>3, StaysOnTheWay DEF K
  <2> DEFINE j == ScalarBits - m
  <2>5. j \in 1 .. ScalarBits /\ j - 1 = ScalarBits - (m + 1)
    BY <1>1
  <2> HIDE DEF j
  <2>6. TwoTo[j] = 2 * TwoTo[j - 1] /\ TwoTo[j - 1] \in Nat
    BY <2>5, TwoToIs
  <2>7. F[m + 1].bits = F[m].bits \div 2 /\ F[m].bits \in Nat
    BY <2>2, <2>3 DEF Halved, States
  <2>8. F[m + 1].bits < TwoTo[j - 1]
    <3> DEFINE t == TwoTo[j - 1]  b == F[m].bits
    <3>1. b < 2 * t /\ b \in Nat /\ t \in Nat
      BY <2>1, <2>6, <2>7 DEF j
    <3> HIDE DEF t, b
    <3>2. b \div 2 < t
      BY <3>1
    <3> QED BY <2>7, <3>2 DEF t, b
  <2> QED BY <2>4, <2>5, <2>8
<1> HIDE DEF T
<1>14. Nat \subseteq T
  BY <1>12, <1>13, SetInduction
<1> DEFINE e == F[ScalarBits]
<1>15. e \in K /\ e.bits < 1
  <2>1. ScalarBits \in T /\ ScalarBits - ScalarBits = 0
    BY <1>1, <1>14
  <2> QED BY <1>1, <2>1, TwoToIs DEF T
<1> HIDE DEF e
<1>16. e.bits = 0 /\ OnTheWay(e, Multiple(n, c))
  BY <1>15 DEF K, States
<1>17. PICK r \in Curve, a \in Curve :
         Represents(e.result, r) /\ Represents(e.addend, a) /\ Plus(r, Multiple(0, a)) = Multiple(n, c)
  BY <1>16 DEF OnTheWay
<1>18. r = Multiple(n, c)
  <2>1. Multiple(0, a) = Neutral
    <3>1. 0 \in Nat
      OBVIOUS
    <3> QED BY <3>1, MultipleNext
  <2> QED BY <1>17, <2>1, PlusZero
<1> QED BY <1>9, <1>17, <1>18 DEF e

(* Two ends of SPAKE2.                                                     *)
PublicPoints == {GeneratorBytes, spakeMEncoded, spakeNEncoded}
ScalarOf(h) == passwordScalarHack(h % curveOrder)
Mask(e, h) == Multiple(ScalarOf(h), Affine(e))
Private(r) == 8 * (r % curveOrder)

LEMMA DecodedIs ==
  ASSUME NEW e \in Nat, SetPointBytes(e) # NotAPoint
  PROVE  /\ Affine(e) \in Curve /\ SetPointBytes(e) \in Points
         /\ Represents(SetPointBytes(e), Affine(e))
<1>1. /\ Affine(e) \in Curve /\ XOf(e) \in Field /\ YOf(e) \in Field
      /\ SetPointBytes(e) = Point(XOf(e), YOf(e), 1, Multiply(XOf(e), YOf(e)))
      /\ Represents(SetPointBytes(e), Affine(e))
  BY SetPointBytesIs
<1>2. 1 \in Field /\ Multiply(XOf(e), YOf(e)) \in Field
  BY <1>1, PrimeIsLarge, FieldInt, MultiplyIs
<1> QED BY <1>1, <1>2 DEF Point, Points

LEMMA EncodedIs ==
  ASSUME NEW e \in PublicPoints
  PROVE  e \in Nat /\ SetPointBytes(e) # NotAPoint
BY SpakeAssumption DEF PublicPoints

(* Both scalars of an end fit in the bits that are multiplied by.          *)
LEMMA ScalarsAreSmall ==
  ASSUME NEW h \in Nat
  PROVE  /\ ScalarOf(h) \in Nat /\ ScalarOf(h) < TwoTo[ScalarBits]
         /\ Private(h) \in Nat /\ Private(h) < TwoTo[ScalarBits]
         /\ ScalarOf(h) % 8 = 0 /\ ScalarOf(h) < 8 * curveOrder
         /\ ScalarOf(h) % curveOrder = h % curveOrder
<1> DEFINE m == h % curveOrder
<1>1. curveOrder \in Nat /\ curveOrder >= 1 /\ 8 * curveOrder <= TwoTo[ScalarBits]
  <2>1. curveOrder \in Nat /\ curveOrder % 2 = 1 /\ 8 * curveOrder <= TwoTo[ScalarBits]
    BY SpakeAssumption
  <2>2. curveOrder # 0
    BY <2>1
  <2> QED BY <2>1, <2>2
<1>2. m \in 0 .. curveOrder - 1
  <2>1. h \in Int
    OBVIOUS
  <2> QED BY <1>1, <2>1, Remainder
<1>3. TwoTo[ScalarBits] \in Nat
  BY TwoToIs
<1> HIDE DEF m
<1>4. /\ passwordScalarHack(m) \in 0 .. 8 * curveOrder - 1
      /\ passwordScalarHack(m) % 8 = 0 /\ passwordScalarHack(m) % curveOrder = m
  BY <1>2, PasswordIsScaled
<1>5. ScalarOf(h) = passwordScalarHack(m) /\ Private(h) = 8 * m
  BY DEF ScalarOf, Private, m
<1> DEFINE t == TwoTo[ScalarBits]  s == passwordScalarHack(m)
<1> HIDE DEF t, s
<1>6. s \in Nat /\ s < t /\ 8 * m \in Nat /\ 8 * m < t /\ s < 8 * curveOrder
  <2>1. t \in Nat /\ s \in 0 .. 8 * curveOrder - 1 /\ 8 * curveOrder <= t
    BY <1>1, <1>3, <1>4 DEF t, s
  <2> QED BY <1>1, <1>2, <2>1
<1> QED BY <1>4, <1>5, <1>6 DEF s, t, m

LEMMA MaskIs ==
  ASSUME NEW e \in PublicPoints, NEW h \in Nat
  PROVE  Mask(e, h) \in Curve /\ Represents(MaskPoint(e, h), Mask(e, h))
<1>1. Affine(e) \in Curve /\ SetPointBytes(e) \in Points /\ Represents(SetPointBytes(e), Affine(e))
  BY EncodedIs, DecodedIs
<1> DEFINE n == ScalarOf(h)  p == SetPointBytes(e)  c == Affine(e)
<1>2. n \in Nat /\ n < TwoTo[ScalarBits]
  BY ScalarsAreSmall
<1>3. MaskPoint(e, h) = scalarMultArbitrary(p, n) /\ Mask(e, h) = Multiple(n, c)
  BY DEF MaskPoint, ScalarOf, Mask
<1> HIDE DEF n, p, c
<1>4. p \in Points /\ c \in Curve /\ Represents(p, c)
  BY <1>1 DEF p, c
<1> QED BY <1>2, <1>3, <1>4, ScalarMultIs, MultipleNext

(* What an end sends, and the secret that it derives.                      *)
Sent(e, h, r) == Plus(Multiple(Private(r), Affine(GeneratorBytes)), Mask(e, h))

LEMMA SentIs ==
  ASSUME NEW e \in PublicPoints, NEW h \in Nat, NEW r \in Nat
  PROVE  /\ Multiple(Private(r), Affine(GeneratorBytes)) \in Curve /\ Sent(e, h, r) \in Curve
         /\ PointBytes(AddPoints(scalarMultArbitrary(SetPointBytes(GeneratorBytes), Private(r)), MaskPoint(e, h)))
              = Code(Sent(e, h, r))
<1> DEFINE p == SetPointBytes(GeneratorBytes)  g == Affine(GeneratorBytes)  n == Private(r)
           m == Multiple(n, g)  s == scalarMultArbitrary(p, n)  k == MaskPoint(e, h)  a == AddPoints(s, k)
<1>1. g \in Curve /\ p \in Points /\ Represents(p, g)
  <2>1. GeneratorBytes \in PublicPoints
    BY DEF PublicPoints
  <2> QED BY <2>1, EncodedIs, DecodedIs
<1>2. n \in Nat /\ n < TwoTo[ScalarBits]
  BY ScalarsAreSmall
<1>3. Mask(e, h) \in Curve /\ Represents(k, Mask(e, h))
  BY MaskIs
<1>4. Sent(e, h, r) = Plus(m, Mask(e, h))
  BY DEF Sent
<1> HIDE DEF p, g, n, k
<1>5. m \in Curve /\ Represents(s, m)
  BY <1>1, <1>2, ScalarMultIs, MultipleNext
<1> HIDE DEF m, s
<1>6. Sent(e, h, r) \in Curve /\ Represents(a, Sent(e, h, r))
  BY <1>3, <1>4, <1>5, PlusOnCurve, AddPointsIs
<1>7. PointBytes(a) = Code(Sent(e, h, r))
  <2> HIDE DEF a
  <2> QED BY <1>6, PointBytesIs
<1> QED BY <1>5, <1>6, <1>7 DEF a, s, p, n, k, m, g

(* The peer's message is decoded, its mask taken off and the rest          *)
(* multiplied.                                                             *)
LEMMA SharedIs ==
  ASSUME NEW c \in Curve, NEW e \in PublicPoints, NEW s, s.passwordHash \in Nat,
         NEW r \in Nat, s.private = Private(r)
  PROVE  /\ SetPointBytes(Code(c)) # NotAPoint
         /\ Shared(s, SetPointBytes(Code(c)), e)
              = Code(Multiple(Private(r), Plus(c, Opposite(Mask(e, s.passwordHash)))))
<1> DEFINE b == Code(c)  p == SetPointBytes(b)  h == s.passwordHash  k == MaskPoint(e, h)  n == Private(r)
           d == Plus(c, Opposite(Mask(e, h)))  q == SubtractPoints(p, k)  t == scalarMultArbitrary(q, n)
<1>1. b \in Nat /\ p # NotAPoint /\ Affine(b) = c
  BY CodeIs
<1>2. Represents(p, c)
  <2> HIDE DEF b
  <2> QED BY <1>1, DecodedIs
<1>3. Mask(e, h) \in Curve /\ Represents(k, Mask(e, h))
  BY MaskIs
<1>4. d \in Curve /\ Represents(q, d)
  <2> HIDE DEF p, h, k
  <2> QED BY <1>2, <1>3, AddPointsIs, OppositeIs, PlusOnCurve
<1>5. q \in Points
  <2>1. q.x \in Field /\ q.y \in Field /\ q.z \in Field /\ q.t \in Field
    <3> HIDE DEF q
    <3> QED BY <1>4 DEF Represents
  <2>2. q = [x |-> q.x, y |-> q.y, z |-> q.z, t |-> q.t]
    BY DEF SubtractPoints, fromP1xP1, Point
  <2> HIDE DEF q
  <2> QED BY <2>1, <2>2 DEF Points
<1>6. n \in Nat /\ n < TwoTo[ScalarBits]
  BY ScalarsAreSmall
<1>7. Shared(s, p, e) = PointBytes(t)
  BY DEF Shared
<1> HIDE DEF d, q, n
<1>8. Multiple(n, d) \in Curve /\ Represents(t, Multiple(n, d))
  BY <1>4, <1>5, <1>6, ScalarMultIs, MultipleNext
<1>9. PointBytes(t) = Code(Multiple(n, d))
  <2> HIDE DEF t
  <2> QED BY <1>8, PointBytesIs
<1> QED BY <1>1, <1>7, <1>9 DEF p, b, d, n, h

(* The mask of the other end comes off if both have the same hash.         *)
LEMMA MaskComesOff ==
  ASSUME NEW a \in Curve, NEW m \in Curve
  PROVE  Plus(Plus(a, m), Opposite(m)) = a
<1> DEFINE n == Opposite(m)
<1>1. n \in Curve /\ Plus(m, n) = Neutral
  BY OppositeIs
<1> HIDE DEF n
<1>2. Plus(Plus(a, m), n) = Plus(a, Plus(m, n))
  BY <1>1, PlusAssociates
<1> QED BY <1>1, <1>2, PlusZero DEF n

(* x times y times the base point, from either end.                        *)
LEMMA SecretsMeet ==
  ASSUME NEW h \in Nat, NEW r \in Nat, NEW s \in Nat, NEW e \in PublicPoints, NEW f \in PublicPoints
  PROVE  Multiple(Private(r), Plus(Sent(e, h, s), Opposite(Mask(e, h))))
           = Multiple(Private(s), Plus(Sent(f, h, r), Opposite(Mask(f, h))))
<1> DEFINE g == Affine(GeneratorBytes)  x == Private(r)  y == Private(s)
<1>1. g \in Curve
  <2>1. GeneratorBytes \in PublicPoints
    BY DEF PublicPoints
  <2> QED BY <2>1, EncodedIs, DecodedIs
<1>2. x \in Nat /\ y \in Nat
  BY ScalarsAreSmall
<1>3. Mask(e, h) \in Curve /\ Mask(f, h) \in Curve /\ Multiple(x, g) \in Curve /\ Multiple(y, g) \in Curve
  BY MaskIs, SentIs
<1>4. Sent(e, h, s) = Plus(Multiple(y, g), Mask(e, h)) /\ Sent(f, h, r) = Plus(Multiple(x, g), Mask(f, h))
  BY DEF Sent
<1> HIDE DEF g, x, y
<1>5. /\ Plus(Sent(e, h, s), Opposite(Mask(e, h))) = Multiple(y, g)
      /\ Plus(Sent(f, h, r), Opposite(Mask(f, h))) = Multiple(x, g)
  BY <1>3, <1>4, MaskComesOff
<1>6. Multiple(x * y, g) = Multiple(x, Multiple(y, g)) /\ Multiple(y * x, g) = Multiple(y, Multiple(x, g))
  BY <1>1, <1>2, MultipleProduct
<1>7. x * y = y * x
  BY <1>2
<1> QED BY <1>5, <1>6, <1>7 DEF x, y

(* Six texts are hashed into a key.                                        *)
LEMMA TranscriptIs ==
  ASSUME NEW s, NEW peerMsg, NEW shared
  PROVE  Transcript(s, peerMsg, shared) =
           IF s.role = "alice" THEN <<s.myName, s.theirName, s.myMsg, peerMsg, shared, s.passwordHash>>
                               ELSE <<s.theirName, s.myName, peerMsg, s.myMsg, shared, s.passwordHash>>
BY DEF Transcript

KeysAgree(h, g, r, s) ==
  LET alice == newSpake2("alice", h, r)
      bob == newSpake2("bob", g, s)
      j == Finish(alice, bob.myMsg)
      k == Finish(bob, alice.myMsg)
  IN j # <<>> /\ k # <<>> /\ (j = k <=> h = g)

(* Both ends reach a key, and it is the same exactly if both were given    *)
(* the same hash.                                                          *)
THEOREM EndsAgree ==
  ASSUME NEW h \in Nat, NEW g \in Nat, NEW r \in Nat, NEW s \in Nat
  PROVE  KeysAgree(h, g, r, s)
<1> DEFINE alice == newSpake2("alice", h, r)  bob == newSpake2("bob", g, s)
           j == Finish(alice, bob.myMsg)  k == Finish(bob, alice.myMsg)
           A == Sent(spakeMEncoded, h, r)  BB == Sent(spakeNEncoded, g, s)
           S == Code(Multiple(Private(r), Plus(BB, Opposite(Mask(spakeNEncoded, h)))))
           T == Code(Multiple(Private(s), Plus(A, Opposite(Mask(spakeMEncoded, g)))))
           a == Code(A)  b == Code(BB)
<1>1. spakeMEncoded \in PublicPoints /\ spakeNEncoded \in PublicPoints
  BY DEF PublicPoints
<1>2. A \in Curve /\ BB \in Curve
  BY <1>1, SentIs
<1>3. /\ alice.role = "alice" /\ alice.passwordHash = h /\ alice.private = Private(r)
      /\ alice.myMsg = PointBytes(AddPoints(scalarMultArbitrary(SetPointBytes(GeneratorBytes), Private(r)),
                                            MaskPoint(spakeMEncoded, h)))
      /\ alice.myName = "client" /\ alice.theirName = "server"
  BY DEF newSpake2, Private
<1>4. /\ bob.role = "bob" /\ bob.passwordHash = g /\ bob.private = Private(s)
      /\ bob.myMsg = PointBytes(AddPoints(scalarMultArbitrary(SetPointBytes(GeneratorBytes), Private(s)),
                                          MaskPoint(spakeNEncoded, g)))
      /\ bob.myName = "server" /\ bob.theirName = "client"
  BY DEF newSpake2, Private
<1> HIDE DEF alice, bob
<1>5. alice.myMsg = a /\ bob.myMsg = b
  BY <1>1, <1>3, <1>4, SentIs
<1> HIDE DEF A, BB
<1>6. SetPointBytes(b) # NotAPoint /\ Shared(alice, SetPointBytes(b), spakeNEncoded) = S
  BY <1>1, <1>2, <1>3, SharedIs
<1>7. SetPointBytes(a) # NotAPoint /\ Shared(bob, SetPointBytes(a), spakeMEncoded) = T
  BY <1>1, <1>2, <1>4, SharedIs
<1> HIDE DEF a, b
<1>8. j = Transcript(alice, b, S)
  BY <1>3, <1>5, <1>6 DEF Finish, FinishWith
<1>9. k = Transcript(bob, a, T)
  BY <1>4, <1>5, <1>7 DEF Finish, FinishWith
<1> HIDE DEF S, T, j, k
<1>10. j = <<"client", "server", a, b, S, h>>
  BY <1>3, <1>5, <1>8, TranscriptIs
<1>11. k = <<"client", "server", a, b, T, g>>
  BY <1>4, <1>5, <1>9, TranscriptIs
<1>12. h = g => S = T
  BY <1>1, SecretsMeet DEF S, T, A, BB
<1>13. j # <<>> /\ k # <<>> /\ (j = k <=> h = g)
  BY <1>10, <1>11, <1>12
<1> QED BY <1>13 DEF KeysAgree, j, k, alice, bob

(* The results for points are those of plain coordinates.                  *)
LEMMA OnCurveIs ==
  ASSUME NEW x \in Int, NEW y \in Int
  PROVE  IsOnCurve(x, y) <=> Defect(x, y) \cong 0
<1> DEFINE xx == x * x  yy == y * y  s == SquareOf(x)  t == SquareOf(y)  d == CurveD
           w == xx * yy  v == Multiply(s, t)  a == t - s  b == 1 + d * v  p == yy - xx  q == 1 + d * w
           f == Defect(x, y)
<1>1. d \in Int /\ xx \in Int /\ yy \in Int /\ f = p - q
  BY CurveDIs DEF Defect
<1>2. s \in Int /\ t \in Int /\ s \cong xx /\ t \cong yy
  BY MultiplyIs, FieldInt DEF SquareOf
<1>3. IsOnCurve(x, y) <=> a % Prime = b % Prime
  BY DEF IsOnCurve
<1> HIDE DEF s, t, xx, yy, f, d
<1>4. w \in Int /\ v \in Int /\ v \cong w
  BY <1>1, <1>2, MultiplyCong, FieldInt
<1> HIDE DEF v, w
<1>5. a \in Int /\ p \in Int /\ a \cong p
  <2>1. a \cong p
    BY <1>1, <1>2, CongSum
  <2> QED BY <1>1, <1>2, <2>1
<1>6. b \in Int /\ q \in Int /\ b \cong q
  <2> DEFINE dv == d * v  dw == d * w  o == 1
  <2>1. dv \in Int /\ dw \in Int /\ o \in Int
    BY <1>1, <1>4
  <2>2. dv \cong dw
    BY <1>1, <1>4, CongTimes
  <2>3. o \cong o
    BY <2>1, CongMod
  <2> HIDE DEF dv, dw, o
  <2>4. (o + dv) \cong (o + dw) /\ o + dv \in Int /\ o + dw \in Int
    BY <2>1, <2>2, <2>3, CongSum
  <2> QED BY <2>4 DEF o, dv, dw
<1> HIDE DEF a, b, p, q
<1>7. a \cong b <=> p \cong q
  <2>1. p \cong a /\ q \cong b
    BY <1>5, <1>6, CongSymmetric
  <2> QED BY <1>5, <1>6, <2>1, CongTransitive, CongSymmetric
<1>8. p \cong q <=> f \cong 0
  BY <1>1, <1>5, <1>6, CongDifference
<1>9. a \cong b <=> a % Prime = b % Prime
  BY <1>5, <1>6, CongRemainder
<1> QED BY <1>3, <1>7, <1>8, <1>9 DEF f

LEMMA JointIs ==
  ASSUME NEW c \in Curve, NEW e \in Curve
  PROVE  LET k == Multiply(CurveD, Multiply(Multiply(c[1], e[1]), Multiply(c[2], e[2])))
         IN k \in Int /\ k \cong JointOf(c, e)
<1> DEFINE x == c[1]  y == c[2]  u == e[1]  v == e[2]  d == CurveD
           xu == x * u  yv == y * v  p == Multiply(x, u)  q == Multiply(y, v)  m == Multiply(p, q)  w == xu * yv
           k == Multiply(d, m)  j == JointOf(c, e)
<1>1. x \in Int /\ y \in Int /\ u \in Int /\ v \in Int /\ d \in Int
  BY CurveIs, CurveDIs
<1>2. j = d * w
  BY <1>1 DEF JointOf, Joint
<1>3. d \cong d
  BY <1>1, CongMod
<1> HIDE DEF x, y, u, v, d, j
<1>4. xu \in Int /\ yv \in Int /\ p \in Int /\ q \in Int /\ p \cong xu /\ q \cong yv
  BY <1>1, MultiplyIs, FieldInt
<1> HIDE DEF xu, yv, p, q
<1>5. w \in Int /\ m \in Int /\ m \cong w
  BY <1>4, MultiplyCong
<1> HIDE DEF w, m
<1>6. k \in Int /\ k \cong (d * w)
  BY <1>1, <1>3, <1>5, MultiplyCong
<1> QED BY <1>2, <1>6 DEF k, m, p, q, x, y, u, v, d, j

(* A point that stands for a sum passes for it in the property.            *)
LEMMA SumIs ==
  ASSUME NEW c \in Curve, NEW e \in Curve, NEW r, Represents(r, Plus(c, e))
  PROVE  IsSum(r, c[1], c[2], e[1], e[2])
<1> DEFINE x == c[1]  y == c[2]  u == e[1]  v == e[2]  X == Plus(c, e)[1]  Y == Plus(c, e)[2]  z == r.z
           k == Multiply(CurveD, Multiply(Multiply(x, u), Multiply(y, v)))  j == JointOf(c, e)
           s == Skew(c, e)  h == Even(c, e)  n == 1 + k  m == (1 - k) % Prime
           a == (x * v + y * u) % Prime  b == (y * v + x * u) % Prime
           N == 1 + j  M == 1 - j  Xz == X * z  Yz == Y * z
<1>1. /\ r.x \in Field /\ r.y \in Field /\ z \in Field /\ r.t \in Field /\ ~(z \cong 0)
      /\ r.x \cong Xz /\ r.y \cong Yz /\ r.t \cong ((X * Y) * z)
  BY DEF Represents
<1>2. /\ x \in Int /\ y \in Int /\ u \in Int /\ v \in Int /\ X \in Int /\ Y \in Int
      /\ (N * X) \cong s /\ (M * Y) \cong h
  BY CurveIs, PlusParts
<1>3. k \in Int /\ k \cong j /\ j \in Int
  <2>1. j \in Int
    BY <1>2, CurveDIs DEF JointOf, Joint
  <2> QED BY <2>1, JointIs
<1>4. s = x * v + y * u /\ h = y * v + x * u
  BY <1>2 DEF Skew, Even
<1>5. IsSum(r, x, y, u, v) <=>
        /\ Multiply(r.x, n) = Multiply(a, z) /\ Multiply(r.y, m) = Multiply(b, z)
        /\ z # 0 /\ Multiply(r.x, r.y) = Multiply(z, r.t)
  BY DEF IsSum
<1> HIDE DEF j, k, s, h, x, y, u, v, X, Y, z
<1>6. s \in Int /\ h \in Int
  BY <1>2, <1>4
<1>7. n \in Int /\ N \in Int /\ M \in Int /\ n \cong N /\ m \in Int /\ m \cong M
  <2> DEFINE o == 1  q == o - k
  <2>1. o \in Int
    OBVIOUS
  <2>2. o \cong o
    BY <2>1, CongMod
  <2> HIDE DEF o
  <2>3. (o + k) \cong (o + j) /\ (o - k) \cong (o - j)
    BY <1>3, <2>1, <2>2, CongSum
  <2>4. q \in Int /\ o - j \in Int /\ q \cong (o - j)
    BY <1>3, <2>1, <2>3
  <2> HIDE DEF q
  <2>5. q % Prime \in Int /\ (q % Prime) \cong (o - j)
    BY <1>3, <2>1, <2>4, ModCong
  <2>6. n = o + k /\ N = o + j /\ M = o - j /\ m = q % Prime
    BY DEF o, q
  <2> HIDE DEF n, N, M, m
  <2> QED BY <1>3, <2>1, <2>3, <2>4, <2>5, <2>6
<1>8. a \in Int /\ a \cong s /\ b \in Int /\ b \cong h
  BY <1>4, <1>6, CongMod, FieldInt
<1> HIDE DEF n, m, a, b, N, M
<1>9. r.x \in Int /\ r.y \in Int /\ z \in Int /\ r.t \in Int /\ z \cong z
  BY <1>1, FieldInt
<1>10. Xz \in Int /\ Yz \in Int /\ Xz * N = (N * X) * z /\ Yz * M = (M * Y) * z
  BY <1>2, <1>7, <1>9
<1> DEFINE NX == N * X  MY == M * Y
<1>11. NX \in Int /\ MY \in Int
  BY <1>2, <1>7
<1>12. (Xz * N) \cong (s * z) /\ (Yz * M) \cong (h * z)
  <2>1. Xz * N = NX * z /\ Yz * M = MY * z /\ NX \cong s /\ MY \cong h
    BY <1>2, <1>10
  <2> HIDE DEF NX, MY
  <2> QED BY <1>6, <1>9, <1>11, <2>1, CongTimes
<1> HIDE DEF Xz, Yz
<1> DEFINE XN == Xz * N  YM == Yz * M  sz == s * z  hz == h * z
           A == Multiply(r.x, n)  B1 == Multiply(a, z)  C == Multiply(r.y, m)  D == Multiply(b, z)
<1>13. XN \in Int /\ YM \in Int /\ sz \in Int /\ hz \in Int
  BY <1>6, <1>7, <1>9, <1>10
<1>14. A \in Field /\ A \in Int /\ A \cong XN /\ C \in Field /\ C \in Int /\ C \cong YM
  BY <1>1, <1>7, <1>9, <1>10, MultiplyCong
<1>15. B1 \in Field /\ B1 \in Int /\ B1 \cong sz /\ D \in Field /\ D \in Int /\ D \cong hz
  BY <1>6, <1>8, <1>9, MultiplyCong
<1>16. A = B1 /\ C = D
  <2>1. XN \cong sz /\ YM \cong hz
    BY <1>12
  <2> HIDE DEF A, B1, C, D, XN, YM, sz, hz
  <2>2. A \cong sz /\ C \cong hz
    BY <1>13, <1>14, <2>1, CongTransitive
  <2> QED BY <1>13, <1>14, <1>15, <2>2, FieldEqual
<1>17. z # 0
  <2>1. 0 \cong 0
    BY CongMod
  <2> QED BY <1>1, <2>1
<1>18. Multiply(r.x, r.y) = Multiply(z, r.t)
  <2> DEFINE t == (X * Y) * z  w == Xz * Yz  zt == z * t  E == Multiply(r.x, r.y)  F == Multiply(z, r.t)
  <2>1. t \in Int /\ w \in Int /\ zt \in Int /\ w = zt
    BY <1>2, <1>9, <1>10 DEF Xz, Yz
  <2>2. r.t \cong t
    BY <1>1
  <2>3. E \in Field /\ E \cong w
    BY <1>1, <1>9, <1>10, MultiplyCong
  <2> HIDE DEF t
  <2>4. F \in Field /\ F \cong zt
    BY <1>9, <2>1, <2>2, MultiplyCong
  <2> HIDE DEF w, zt, E, F
  <2>5. E = F
    BY <2>1, <2>3, <2>4, FieldEqual
  <2> QED BY <2>5 DEF E, F
<1>19. IsSum(r, x, y, u, v)
  BY <1>5, <1>16, <1>17, <1>18
<1> QED BY <1>19 DEF x, y, u, v

(* A decoded point lies on the curve with its sign, encodes and adds as    *)
(* the curve says, and what is refused is no point of the curve.           *)
THEOREM PointsAreThose ==
  ASSUME NEW e \in Nat, NEW f \in Nat, SetPointBytes(f) # NotAPoint
  PROVE  LET p == SetPointBytes(e)  q == SetPointBytes(f)
         IN PointsAgree(e, f,
              IF p = NotAPoint THEN [ok |-> FALSE]
              ELSE [ok |-> TRUE, point |-> p, bytes |-> PointBytes(p),
                    sum |-> AddPoints(p, q), difference |-> SubtractPoints(p, q)])
<1> DEFINE p == SetPointBytes(e)  q == SetPointBytes(f)  y == YOf(e)  c == Affine(e)  d == Affine(f)
           n == Opposite(d)
           r == [ok |-> TRUE, point |-> p, bytes |-> PointBytes(p),
                 sum |-> AddPoints(p, q), difference |-> SubtractPoints(p, q)]
<1>1. y \in Field /\ y \in Int /\ y = (e % SignBit) % Prime
  BY SetPointBytesIs, FieldInt DEF YOf
<1>2. CASE p = NotAPoint
  <2>1. \A x \in Field : ~(Defect(x, y) \cong 0)
    BY <1>2, SetPointBytesIs
  <2> HIDE DEF y
  <2>2. ASSUME NEW x \in 0 .. Prime - 1 PROVE ~IsOnCurve(x, y)
    <3>1. x \in Field /\ x \in Int
      BY DEF Field
    <3> QED BY <1>1, <2>1, <3>1, OnCurveIs
  <2> QED BY <1>1, <1>2, <2>2 DEF PointsAgree
<1>3. CASE p # NotAPoint
  <2>1. /\ c \in Curve /\ Represents(p, c) /\ XOf(e) \in Field /\ c[1] = XOf(e) /\ c[2] = y
        /\ XOf(e) # 0 => (XOf(e) % 2 = 1 <=> e >= SignBit)
    BY <1>3, DecodedIs, SetPointBytesIs DEF Affine
  <2>2. p = Point(XOf(e), y, 1, Multiply(XOf(e), y))
    BY <1>3, SetPointBytesIs
  <2>3. p.x = XOf(e) /\ p.y = y /\ p.z = 1
    BY <2>2 DEF Point
  <2>4. d \in Curve /\ Represents(q, d) /\ d[1] = XOf(f) /\ d[2] = YOf(f) /\ XOf(f) \in Int
    BY DecodedIs, SetPointBytesIs, FieldInt DEF Affine
  <2>5. q.x = d[1] /\ q.y = d[2]
    BY <2>4, SetPointBytesIs DEF Point
  <2> HIDE DEF p, q, c, d, y
  <2>6. n \in Curve /\ n[1] = (-q.x) % Prime /\ n[2] = q.y
    BY <2>4, <2>5, OppositeIs DEF Opposite, Negate
  <2> HIDE DEF n
  <2>7. Represents(r.sum, Plus(c, d)) /\ Represents(r.difference, Plus(c, n))
    BY <2>1, <2>4, AddPointsIs DEF n
  <2>8. IsSum(r.sum, p.x, y, q.x, q.y)
    BY <2>1, <2>3, <2>4, <2>5, <2>7, SumIs
  <2>9. IsSum(r.difference, p.x, y, (-q.x) % Prime, q.y)
    <3> DEFINE nx == (-q.x) % Prime
    <3>1. n[1] = nx
      BY <2>6
    <3> HIDE DEF nx
    <3>2. IsSum(r.difference, p.x, y, nx, q.y)
      BY <2>1, <2>3, <2>6, <2>7, <3>1, SumIs
    <3> QED BY <3>2 DEF nx
  <2>10. r.bytes = y + IF p.x % 2 = 1 THEN SignBit ELSE 0
    <3>1. PointBytes(p) = Code(c)
      BY <2>1, PointBytesIs
    <3> QED BY <2>1, <2>3, <3>1 DEF Code
  <2>11. IsOnCurve(p.x, y)
    <3>1. Defect(c[1], c[2]) \cong 0 /\ c[1] \in Int
      BY <2>1, CurveIs
    <3> QED BY <1>1, <2>1, <2>3, <3>1, OnCurveIs
  <2>12. p.x # 0 => (p.x % 2 = 1 <=> e >= SignBit)
    BY <2>1, <2>3
  <2>13. r.ok /\ r.point = p
    OBVIOUS
  <2> HIDE DEF r
  <2>14. PointsAgree(e, f, r)
    BY <1>1, <2>3, <2>8, <2>9, <2>10, <2>11, <2>12, <2>13 DEF PointsAgree, q
  <2> QED BY <1>3, <2>14 DEF r, p, q
<1> QED BY <1>2, <1>3

----------------------------------------------------------------------------
(* The names of discovery: mdns.go.                                        *)
(* Labels put together.                                                    *)
Texts == Seq(Nat)

Joins(f, ls) ==
  /\ f[0] = <<>>
  /\ \A k \in 1 .. Len(ls) : f[k] = IF k = 1 THEN ls[1] ELSE f[k - 1] \o <<Dot>> \o ls[k]

LEMMA JoinLabelsRuns ==
  ASSUME NEW ls \in Seq(Texts)
  PROVE  \E f : Joins(f, ls) /\ f \in [0 .. Len(ls) -> Texts] /\ JoinLabels(ls) = f[Len(ls)]
<1> DEFINE n == Len(ls)
           At(f, k) == IF k = 0 THEN <<>> ELSE IF k = 1 THEN ls[1] ELSE f[k - 1] \o <<Dot>> \o ls[k]
           Fits(f) == f = [k \in 0 .. n |-> At(f, k)]
           g == [p \in (1 .. n) \X Texts |-> IF p[1] = 1 THEN ls[1] ELSE p[2] \o <<Dot>> \o ls[p[1]]]
           F == CHOOSE f : Fits(f)
           e == <<>>
<1>1. n \in Nat /\ (\A k \in 1 .. n : ls[k] \in Texts) /\ e \in Texts /\ <<Dot>> \in Texts
  BY DEF Texts, Dot
<1>2. g \in [(1 .. n) \X Texts -> Texts]
        /\ \A k \in 1 .. n, s \in Texts : g[<<k, s>>] = IF k = 1 THEN ls[1] ELSE s \o <<Dot>> \o ls[k]
  <2>1. ASSUME NEW k \in 1 .. n, NEW s \in Texts PROVE (IF k = 1 THEN ls[1] ELSE s \o <<Dot>> \o ls[k]) \in Texts
    BY <1>1 DEF Texts
  <2> QED BY <1>1, <2>1
<1> HIDE DEF g, e
<1>3. PICK f : Runs(f, Texts, e, g, n)
  BY <1>1, <1>2, RecursionRuns
<1>4. f \in [0 .. n -> Texts] /\ f[0] = <<>>
      /\ \A k \in 1 .. n : f[k] = IF k = 1 THEN ls[1] ELSE f[k - 1] \o <<Dot>> \o ls[k]
  <2>1. ASSUME NEW k \in 1 .. n PROVE f[k] = IF k = 1 THEN ls[1] ELSE f[k - 1] \o <<Dot>> \o ls[k]
    <3> HIDE DEF n
    <3>1. f[k] = g[<<k, f[k - 1]>>] /\ k - 1 \in 0 .. n /\ f[k - 1] \in Texts
      BY <1>1, <1>3 DEF Runs
    <3> QED BY <1>2, <3>1
  <2> QED BY <1>3, <2>1 DEF Runs, e
<1>5. Fits(f)
  <2>1. ASSUME NEW k \in 0 .. n PROVE f[k] = At(f, k)
    <3>1. k = 0 \/ k \in 1 .. n
      BY <1>1
    <3> QED BY <1>4, <3>1
  <2> HIDE DEF At, n
  <2> QED BY <1>4, <2>1
<1>6. Fits(F)
  BY <1>5, Zenon
<1>7. JoinLabels(ls) = F[n]
  BY DEF JoinLabels
<1> HIDE DEF F
<1>8. \A k \in 0 .. n : F[k] = At(F, k)
  <2> HIDE DEF At
  <2> QED BY <1>6
<1>9. F = [k \in 0 .. n |-> F[k]]
  <2> HIDE DEF At
  <2> QED BY <1>6
<1>10. Joins(F, ls)
  BY <1>1, <1>8 DEF Joins
<1> HIDE DEF At, Fits
<1> DEFINE T == {m \in Nat : m <= n => F[m] \in Texts}
<1>11. 0 \in T
  BY <1>1, <1>10 DEF Joins, e
<1>12. ASSUME NEW m \in Nat, m \in T PROVE m + 1 \in T
  <2> SUFFICES ASSUME m + 1 <= n PROVE F[m + 1] \in Texts
    OBVIOUS
  <2>1. F[m] \in Texts /\ m + 1 \in 1 .. n /\ (m + 1) - 1 = m
    BY <1>1, <1>12
  <2>2. F[m + 1] = IF m + 1 = 1 THEN ls[1] ELSE F[m] \o <<Dot>> \o ls[m + 1]
    BY <1>10, <2>1 DEF Joins
  <2>3. F[m] \o <<Dot>> \o ls[m + 1] \in Texts /\ ls[1] \in Texts
    BY <1>1, <2>1 DEF Texts
  <2> QED BY <2>2, <2>3
<1> HIDE DEF T
<1>13. Nat \subseteq T
  BY <1>11, <1>12, SetInduction
<1>14. \A k \in 0 .. n : F[k] \in Texts
  BY <1>13 DEF T
<1>15. F \in [0 .. n -> Texts]
  BY <1>9, <1>14
<1> QED BY <1>7, <1>10, <1>15

LEMMA JoinLabelsIs ==
  /\ JoinLabels(<<>>) = <<>>
  /\ \A ls \in Seq(Texts) : JoinLabels(ls) \in Texts
  /\ \A ls \in Seq(Texts), l \in Texts :
       JoinLabels(Append(ls, l)) = IF ls = <<>> THEN l ELSE JoinLabels(ls) \o <<Dot>> \o l
<1>1. JoinLabels(<<>>) = <<>>
  <2>1. <<>> \in Seq(Texts) /\ Len(<<>>) = 0
    OBVIOUS
  <2> DEFINE e == <<>>
  <2>2. e \in Seq(Texts) /\ Len(e) = 0
    BY <2>1
  <2> HIDE DEF e
  <2>3. PICK f : Joins(f, e) /\ JoinLabels(e) = f[Len(e)]
    BY <2>2, JoinLabelsRuns
  <2> QED BY <2>2, <2>3 DEF Joins, e
<1>2. ASSUME NEW ls \in Seq(Texts) PROVE JoinLabels(ls) \in Texts
  <2>1. PICK f : f \in [0 .. Len(ls) -> Texts] /\ JoinLabels(ls) = f[Len(ls)]
    BY JoinLabelsRuns
  <2> QED BY <2>1
<1>3. ASSUME NEW ls \in Seq(Texts), NEW l \in Texts
      PROVE  JoinLabels(Append(ls, l)) = IF ls = <<>> THEN l ELSE JoinLabels(ls) \o <<Dot>> \o l
  <2> DEFINE e == Append(ls, l)  n == Len(ls)
  <2>1. e \in Seq(Texts) /\ Len(e) = n + 1 /\ n \in Nat /\ (\A i \in 1 .. n : e[i] = ls[i]) /\ e[n + 1] = l
        /\ (ls = <<>> <=> n = 0)
    BY AppendProperties, EmptySeq
  <2> HIDE DEF e
  <2>2. PICK f : Joins(f, ls) /\ JoinLabels(ls) = f[n]
    BY JoinLabelsRuns
  <2>3. PICK g : Joins(g, e) /\ JoinLabels(e) = g[n + 1]
    BY <2>1, JoinLabelsRuns
  <2> HIDE DEF n
  <2> DEFINE T == {m \in Nat : m <= n => f[m] = g[m]}
  <2>4. 0 \in T
    BY <2>1, <2>2, <2>3 DEF Joins
  <2>5. ASSUME NEW m \in Nat, m \in T PROVE m + 1 \in T
    <3> SUFFICES ASSUME m + 1 <= n PROVE f[m + 1] = g[m + 1]
      OBVIOUS
    <3>1. f[m] = g[m] /\ m + 1 \in 1 .. n /\ m + 1 \in 1 .. n + 1 /\ (m + 1) - 1 = m /\ 1 \in 1 .. n
      BY <2>1, <2>5
    <3>2. f[m + 1] = IF m + 1 = 1 THEN ls[1] ELSE f[m] \o <<Dot>> \o ls[m + 1]
      BY <2>2, <3>1 DEF Joins, n
    <3>3. g[m + 1] = IF m + 1 = 1 THEN e[1] ELSE g[m] \o <<Dot>> \o e[m + 1]
      BY <2>1, <2>3, <3>1 DEF Joins
    <3> QED BY <2>1, <3>1, <3>2, <3>3
  <2> HIDE DEF T
  <2>6. Nat \subseteq T
    BY <2>4, <2>5, SetInduction
  <2>7. f[n] = g[n]
    BY <2>1, <2>6 DEF T
  <2>8. g[n + 1] = IF n + 1 = 1 THEN e[1] ELSE g[n] \o <<Dot>> \o e[n + 1]
    <3>1. n + 1 \in 1 .. n + 1 /\ (n + 1) - 1 = n
      BY <2>1
    <3> QED BY <2>1, <2>3, <3>1 DEF Joins
  <2> QED BY <2>1, <2>2, <2>3, <2>7, <2>8 DEF e
<1> QED BY <1>1, <1>2, <1>3

Labels == Texts \ {<<>>}

LEMMA JoinEmpty ==
  ASSUME NEW ls \in Seq(Labels)
  PROVE  /\ ls \in Seq(Texts)
         /\ JoinLabels(ls) = <<>> <=> ls = <<>>
<1>1. Labels \subseteq Texts
  BY DEF Labels
<1>2. ls \in Seq(Texts)
  BY <1>1, SeqMonotonic
<1>3. ASSUME ls # <<>> PROVE JoinLabels(ls) # <<>>
  <2>1. PICK s \in Seq(Labels), l \in Labels : ls = Append(s, l)
    BY <1>3, SequenceEmptyOrAppend
  <2>2. s \in Seq(Texts) /\ l \in Texts /\ l # <<>>
    BY <1>1, <2>1, SeqMonotonic DEF Labels
  <2>3. JoinLabels(ls) = IF s = <<>> THEN l ELSE JoinLabels(s) \o <<Dot>> \o l
    BY <2>1, <2>2, JoinLabelsIs
  <2>4. JoinLabels(s) \in Texts
    BY <2>2, JoinLabelsIs
  <2> DEFINE j == JoinLabels(s)
  <2>5. j \o <<Dot>> \o l # <<>>
    <3>1. j \in Seq(Nat) /\ l \in Seq(Nat) /\ <<Dot>> \in Seq(Nat)
      BY <2>2, <2>4 DEF Texts, Dot
    <3> HIDE DEF j
    <3>2. j \o <<Dot>> \in Seq(Nat)
      BY <3>1, ConcatProperties
    <3> QED BY <2>2, <3>1, <3>2, ConcatEqualIffEmpty, ConcatSimplifications
  <2> QED BY <2>2, <2>3, <2>5
<1> QED BY <1>2, <1>3, JoinLabelsIs

Groups(s, t, u) == (s \o t) \o u = s \o (t \o u)

LEMMA ThreeParts ==
  ASSUME NEW S, NEW s \in Seq(S), NEW t \in Seq(S), NEW u \in Seq(S)
  PROVE  Groups(s, t, u)
<1>1. (s \o t) \o u = s \o (t \o u)
  BY ConcatAssociative
<1> QED BY <1>1, Zenon DEF Groups

Regroups(s, t, u, v) == s \o ((t \o u) \o v) = ((s \o t) \o u) \o v

LEMMA FourParts ==
  ASSUME NEW S, NEW s \in Seq(S), NEW t \in Seq(S), NEW u \in Seq(S), NEW v \in Seq(S)
  PROVE  Regroups(s, t, u, v)
<1> DEFINE tu == t \o u
<1>1. tu \in Seq(S) /\ Groups(s, t, u)
  BY ConcatProperties, ThreeParts
<1> HIDE DEF tu
<1>2. Groups(s, tu, v)
  BY <1>1, ThreeParts
<1> QED BY <1>1, <1>2, Zenon DEF Regroups, Groups, tu

(* What is joined may be joined again.                                     *)
LEMMA JoinOfJoin ==
  ASSUME NEW ls \in Seq(Texts), NEW ts \in Seq(Texts), ts # <<>>
  PROVE  JoinLabels(Append(ls, JoinLabels(ts))) = JoinLabels(ls \o ts)
<1> DEFINE Good(t) == t # <<>> => JoinLabels(Append(ls, JoinLabels(t))) = JoinLabels(ls \o t)
           T == {m \in Nat : \A t \in Seq(Texts) : Len(t) = m => Good(t)}
<1>1. 0 \in T
  BY EmptySeq
<1>2. ASSUME NEW m \in Nat, m \in T PROVE m + 1 \in T
  <2> SUFFICES ASSUME NEW t \in Seq(Texts), Len(t) = m + 1, t # <<>>
               PROVE  JoinLabels(Append(ls, JoinLabels(t))) = JoinLabels(ls \o t)
    OBVIOUS
  <2>1. PICK s \in Seq(Texts), l \in Texts : t = Append(s, l)
    BY SequenceEmptyOrAppend
  <2>2. Len(s) = m
    <3>1. Len(Append(s, l)) = Len(s) + 1 /\ Len(s) \in Nat
      BY AppendProperties
    <3> QED BY <2>1, <3>1
  <2> DEFINE j == JoinLabels(ls)  k == JoinLabels(s)
  <2>3. j \in Texts /\ k \in Texts
    BY JoinLabelsIs
  <2>4. JoinLabels(t) = IF s = <<>> THEN l ELSE k \o <<Dot>> \o l
    BY <2>1, JoinLabelsIs
  <2>5. ls \o t = Append(ls \o s, l) /\ ls \o s \in Seq(Texts)
    <3>1. t = s \o <<l>> /\ <<l>> \in Seq(Texts)
      BY <2>1, AppendIsConcat
    <3>2. ls \o (s \o <<l>>) = (ls \o s) \o <<l>>
      BY <3>1, ConcatAssociative
    <3>3. ls \o s \in Seq(Texts)
      BY ConcatProperties
    <3> QED BY <3>1, <3>2, <3>3, AppendIsConcat
  <2>6. JoinLabels(ls \o t) = IF ls \o s = <<>> THEN l ELSE JoinLabels(ls \o s) \o <<Dot>> \o l
    BY <2>5, JoinLabelsIs
  <2>7. CASE s = <<>>
    <3>1. ls \o s = ls
      BY <2>7, ConcatEmptySeq
    <3> QED BY <2>4, <2>5, <2>7, <3>1
  <2>8. CASE s # <<>>
    <3>1. JoinLabels(Append(ls, k)) = JoinLabels(ls \o s)
      BY <1>2, <2>2, <2>8
    <3>2. ls \o s # <<>>
      BY <2>8, ConcatEqualIffEmpty
    <3> DEFINE d == <<Dot>>  kd == k \o d
    <3>3. d \in Seq(Nat) /\ k \in Seq(Nat) /\ l \in Seq(Nat) /\ j \in Seq(Nat)
      BY <2>3 DEF Texts, Dot
    <3>4. JoinLabels(Append(ls, k)) = IF ls = <<>> THEN k ELSE j \o <<Dot>> \o k
      BY <2>3, JoinLabelsIs
    <3>5. JoinLabels(t) = kd \o l
      BY <2>4, <2>8
    <3> HIDE DEF d, j, k
    <3>6. kd \in Seq(Nat) /\ kd \o l \in Seq(Nat)
      BY <3>3, ConcatProperties
    <3>7. JoinLabels(Append(ls, kd \o l)) = IF ls = <<>> THEN kd \o l ELSE (j \o d) \o (kd \o l)
      BY <3>6, JoinLabelsIs DEF Texts, j, d
    <3>8. (j \o d) \o (kd \o l) = (((j \o d) \o k) \o d) \o l
      <4>1. j \o d \in Seq(Nat)
        BY <3>3, ConcatProperties
      <4> DEFINE jd == j \o d
      <4>2. jd \in Seq(Nat)
        BY <4>1
      <4> HIDE DEF jd
      <4>3. Regroups(jd, k, d, l)
        BY <3>3, <4>2, FourParts
      <4> QED BY <4>3 DEF Regroups, jd
    <3> QED BY <2>6, <3>1, <3>2, <3>4, <3>5, <3>7, <3>8 DEF d
  <2> QED BY <2>7, <2>8
<1> HIDE DEF T
<1>3. Nat \subseteq T
  BY <1>1, <1>2, SetInduction
<1>4. Len(ts) \in Nat
  OBVIOUS
<1> QED BY <1>3, <1>4 DEF T

(* A label at an offset of a message, and where the next one may start.    *)
Bytes == 0 .. 255
HasLabel(msg, off) == ByteAt(msg, off) \in 1 .. 63 /\ off + 1 + ByteAt(msg, off) <= Len(msg)
LabelAt(msg, off) == SubSeq(msg, off + 2, off + 1 + ByteAt(msg, off))
After(msg, off) == off + 1 + ByteAt(msg, off)

LEMMA ByteIs ==
  ASSUME NEW msg \in Seq(Bytes), NEW off \in Nat
  PROVE  /\ ByteAt(msg, off) \in Bytes
         /\ off < Len(msg) => ByteAt(msg, off) = msg[off + 1]
         /\ off >= Len(msg) => ByteAt(msg, off) = 64
<1>1. Len(msg) \in Nat /\ \A i \in 1 .. Len(msg) : msg[i] \in Bytes
  BY ElementOfSeq, LenProperties
<1>2. CASE off < Len(msg)
  <2>1. off + 1 \in 1 .. Len(msg)
    BY <1>1, <1>2
  <2> QED BY <1>1, <1>2, <2>1 DEF ByteAt
<1>3. CASE ~(off < Len(msg))
  BY <1>1, <1>3 DEF ByteAt, Bytes
<1> QED BY <1>1, <1>2, <1>3

LEMMA LabelIs ==
  ASSUME NEW msg \in Seq(Bytes), NEW off \in Nat, HasLabel(msg, off)
  PROVE  /\ LabelAt(msg, off) \in Labels /\ off < Len(msg)
         /\ After(msg, off) \in Nat /\ After(msg, off) > off + 1 /\ After(msg, off) <= Len(msg)
<1> DEFINE b == ByteAt(msg, off)  n == Len(msg)
<1>1. b \in 1 .. 63 /\ off + 1 + b <= n
  BY DEF HasLabel
<1>2. n \in Nat /\ \A i \in 1 .. n : msg[i] \in Nat
  <2>1. n \in Nat /\ \A i \in 1 .. n : msg[i] \in Bytes
    BY ElementOfSeq, LenProperties
  <2>2. \A x \in Bytes : x \in Nat
    BY DEF Bytes
  <2> QED BY <2>1, <2>2
<1> HIDE DEF b, n
<1>3. \A i \in off + 2 .. off + 1 + b : msg[i] \in Nat
  <2>1. \A i \in off + 2 .. off + 1 + b : i \in 1 .. n
    BY <1>1, <1>2
  <2> QED BY <1>2, <2>1
<1> DEFINE l == SubSeq(msg, off + 2, off + 1 + b)
<1>4. l \in Seq(Nat) /\ Len(l) = b
  <2> DEFINE p == off + 2  q == off + 1 + b
  <2>1. p \in Int /\ q \in Int /\ p <= q /\ q - p + 1 = b
    BY <1>1
  <2>2. \A i \in p .. q : msg[i] \in Nat
    BY <1>3
  <2> HIDE DEF p, q
  <2>3. SubSeq(msg, p, q) \in Seq(Nat) /\ Len(SubSeq(msg, p, q)) = q - p + 1
    BY <2>1, <2>2, SubSeqProperties
  <2> QED BY <2>1, <2>3 DEF p, q
<1>5. l # <<>>
  <2> HIDE DEF l
  <2> QED BY <1>1, <1>4, EmptySeq
<1>6. l \in Labels
  BY <1>4, <1>5 DEF Labels, Texts
<1>7. LabelAt(msg, off) = l /\ After(msg, off) = off + 1 + b
  BY DEF LabelAt, After, b
<1> HIDE DEF l
<1> QED BY <1>1, <1>2, <1>6, <1>7 DEF n

Loop(msg, f, off) ==
  IF HasLabel(msg, off)
  THEN [labels |-> <<LabelAt(msg, off)>> \o f[After(msg, off)].labels, stop |-> f[After(msg, off)].stop]
  ELSE [labels |-> <<>>, stop |-> off]

LEMMA LoopRuns ==
  ASSUME NEW msg \in Seq(Bytes)
  PROVE  \E f : f = [off \in 0 .. Len(msg) |-> Loop(msg, f, off)]
<1> DEFINE n == Len(msg)
           Good(f, m) == f = [off \in n - m .. n |-> Loop(msg, f, off)]
           T == {m \in Nat : m <= n => \E f : Good(f, m)}
<1>1. n \in Nat
  OBVIOUS
<1>2. \A off \in 0 .. n : HasLabel(msg, off) => After(msg, off) \in off + 1 .. n
  <2> SUFFICES ASSUME NEW off \in 0 .. n, HasLabel(msg, off) PROVE After(msg, off) \in off + 1 .. n
    OBVIOUS
  <2>1. off \in Nat
    OBVIOUS
  <2> QED BY <2>1, LabelIs
<1> HIDE DEF n
<1>3. 0 \in T
  <2> DEFINE f == [off \in n - 0 .. n |-> [labels |-> <<>>, stop |-> off]]
  <2>1. ASSUME NEW off \in n - 0 .. n PROVE f[off] = Loop(msg, f, off)
    <3>1. off = n /\ off \in 0 .. n
      BY <1>1
    <3>2. ~HasLabel(msg, off)
      BY <1>1, <1>2, <3>1
    <3> QED BY <3>2 DEF Loop
  <2>2. f = [off \in n - 0 .. n |-> f[off]]
    OBVIOUS
  <2> HIDE DEF f
  <2>3. Good(f, 0)
    BY <2>1, <2>2
  <2> QED BY <2>3
<1>4. ASSUME NEW m \in Nat, m \in T PROVE m + 1 \in T
  <2> SUFFICES ASSUME m + 1 <= n PROVE \E f : Good(f, m + 1)
    OBVIOUS
  <2>1. PICK f : Good(f, m)
    BY <1>1, <1>4
  <2> DEFINE k == n - (m + 1)  D == k .. n
             g == [off \in D |-> IF off = k THEN Loop(msg, f, off) ELSE f[off]]
  <2>2. \A off \in n - m .. n : f[off] = Loop(msg, f, off)
    BY <2>1
  <2>3. ASSUME NEW off \in D PROVE g[off] = Loop(msg, g, off)
    <3>1. off \in 0 .. n /\ (off = k \/ off \in n - m .. n) /\ (off = k => ~(off \in n - m .. n))
      BY <1>1
    <3>2. g[off] = Loop(msg, f, off)
      BY <2>2, <3>1
    <3>3. ASSUME HasLabel(msg, off) PROVE g[After(msg, off)] = f[After(msg, off)]
      <4>1. After(msg, off) \in off + 1 .. n
        BY <1>2, <3>1, <3>3
      <4>2. After(msg, off) \in D /\ After(msg, off) # k
        BY <1>1, <4>1
      <4> QED BY <4>2
    <3> HIDE DEF g
    <3> QED BY <3>2, <3>3 DEF Loop
  <2>4. g = [off \in D |-> g[off]]
    OBVIOUS
  <2> HIDE DEF g
  <2>5. Good(g, m + 1)
    BY <2>3, <2>4
  <2> QED BY <2>5
<1> HIDE DEF T
<1>5. Nat \subseteq T
  BY <1>3, <1>4, SetInduction
<1>6. PICK f : Good(f, n)
  BY <1>1, <1>5 DEF T
<1>7. n - n = 0
  BY <1>1
<1> QED BY <1>6, <1>7 DEF n

LEMMA LoopIs ==
  ASSUME NEW msg \in Seq(Bytes), NEW off \in 0 .. Len(msg)
  PROVE  LabelsFrom(msg)[off] = Loop(msg, LabelsFrom(msg), off)
<1> DEFINE Fits(f) == f = [i \in 0 .. Len(msg) |-> Loop(msg, f, i)]
           F == CHOOSE f : Fits(f)
<1>1. \E f : Fits(f)
  BY LoopRuns
<1>2. Fits(F)
  BY <1>1
<1>3. LabelsFrom(msg) = F
  BY DEF LabelsFrom, Loop, HasLabel, LabelAt, After
<1> HIDE DEF F
<1>4. F[off] = Loop(msg, F, off)
  BY <1>2
<1> QED BY <1>3, <1>4

(* Paths that go on, and paths that are over.                              *)
Going(at, ls, h, nx) == [at |-> at, labels |-> ls, hops |-> h, next |-> nx, over |-> FALSE]
Ended(at, ls, h, nx) == [at |-> at, labels |-> ls, hops |-> h, next |-> nx, over |-> TRUE]
PointerAt(msg, at) == (ByteAt(msg, at) - 192) * 256 + ByteAt(msg, at + 1)
HasPointer(msg, at) == ByteAt(msg, at) >= 192 /\ at + 1 < Len(msg)
Behind(h, nx, next) == IF h = 0 THEN next ELSE nx

LEMMA PathsAre ==
  ASSUME NEW at \in Nat, NEW ls \in Seq(Texts), NEW h \in Nat, NEW nx \in Nat
  PROVE  Going(at, ls, h, nx) \in Paths /\ Ended(at, ls, h, nx) \in Paths /\ NoPath \in Paths
<1>1. ls \in Seq(Seq(Nat)) /\ <<>> \in Seq(Seq(Nat))
  BY DEF Texts
<1>2. NoPath = Ended(0, <<>>, 17, 0)
  BY DEF NoPath, Ended
<1> QED BY <1>1, <1>2 DEF Going, Ended, Paths

LEMMA PathIsOne ==
  ASSUME NEW p \in Paths
  PROVE  /\ p.at \in Nat /\ p.labels \in Seq(Texts) /\ p.hops \in Nat /\ p.next \in Nat /\ p.over \in BOOLEAN
         /\ p = IF p.over THEN Ended(p.at, p.labels, p.hops, p.next) ELSE Going(p.at, p.labels, p.hops, p.next)
BY DEF Paths, Ended, Going, Texts

(* One step along a path.                                                  *)
NextOf(msg, at, ls, h, nx) ==
  IF HasLabel(msg, at) THEN Going(After(msg, at), Append(ls, LabelAt(msg, at)), h, nx)
  ELSE IF ByteAt(msg, at) = 0 THEN Ended(at, ls, h, Behind(h, nx, at + 1))
  ELSE IF HasPointer(msg, at) /\ h < 16
    THEN Going(PointerAt(msg, at), ls, h + 1, Behind(h, nx, at + 2))
  ELSE NoPath

LEMMA AlongIs ==
  ASSUME NEW msg \in Seq(Bytes), NEW at \in Nat, NEW ls \in Seq(Texts), NEW h \in Nat, NEW nx \in Nat
  PROVE  Along(msg, Going(at, ls, h, nx)) = NextOf(msg, at, ls, h, nx)
<1> USE DEF NextOf
<1> DEFINE p == Going(at, ls, h, nx)  b == ByteAt(msg, at)
<1>1. b \in 0 .. 255 /\ Len(msg) \in Nat
  BY ByteIs DEF Bytes
<1>2. p.at = at /\ p.labels = ls /\ p.hops = h /\ p.next = nx /\ p.over = FALSE
  BY DEF Going
<1>3. HasLabel(msg, at) <=> (b # 0 /\ b < 64 /\ at + b < Len(msg))
  <2> HIDE DEF b
  <2>1. HasLabel(msg, at) <=> b \in 1 .. 63 /\ at + 1 + b <= Len(msg)
    BY DEF HasLabel, b
  <2> QED BY <1>1, <2>1
<1>4. CASE HasLabel(msg, at)
  <2>1. Along(msg, p) = [p EXCEPT !.at = at + 1 + b, !.labels = Append(ls, SubSeq(msg, at + 2, at + 1 + b))]
    BY <1>2, <1>3, <1>4 DEF Along
  <2> QED BY <1>4, <2>1 DEF Going, After, LabelAt
<1>5. CASE b = 0
  <2>1. Along(msg, p) = [p EXCEPT !.over = TRUE, !.next = Behind(h, nx, at + 1)]
    BY <1>2, <1>5 DEF Along, Behind
  <2> QED BY <1>3, <1>5, <2>1 DEF Going, Ended
<1>6. CASE ~HasLabel(msg, at) /\ b # 0 /\ HasPointer(msg, at) /\ h < 16
  <2>1. b >= 192 /\ at + 1 < Len(msg)
    BY <1>6 DEF HasPointer
  <2>2. ByteAt(msg, at + 1) = msg[at + 2]
    <3>1. at + 1 \in Nat /\ (at + 1) + 1 = at + 2
      OBVIOUS
    <3> QED BY <2>1, <3>1, ByteIs
  <2>3. Along(msg, p) = [p EXCEPT !.at = (b - 192) * 256 + msg[at + 2], !.hops = h + 1,
                                  !.next = Behind(h, nx, at + 2)]
    <3> HIDE DEF b, p
    <3> QED BY <1>2, <1>3, <1>6, <2>1 DEF Along, Behind, b
  <2>4. Along(msg, p) = Going((b - 192) * 256 + msg[at + 2], ls, h + 1, Behind(h, nx, at + 2))
    <3> DEFINE ptr == (b - 192) * 256 + msg[at + 2]  h1 == h + 1  nx2 == Behind(h, nx, at + 2)
    <3>1. Along(msg, p) = [p EXCEPT !.at = ptr, !.hops = h1, !.next = nx2]
      BY <2>3
    <3> HIDE DEF ptr, h1, nx2
    <3>2. Along(msg, p) = Going(ptr, ls, h1, nx2)
      BY <3>1 DEF Going
    <3> QED BY <3>2 DEF ptr, h1, nx2
  <2> QED BY <1>6, <2>2, <2>4 DEF PointerAt
<1>7. CASE ~HasLabel(msg, at) /\ b # 0 /\ ~(HasPointer(msg, at) /\ h < 16)
  <2>1. ~(b >= 192 /\ at + 1 < Len(msg) /\ h < 16)
    BY <1>7 DEF HasPointer
  <2>2. Along(msg, p) = NoPath
    <3> HIDE DEF b, p
    <3> QED BY <1>2, <1>3, <1>7, <2>1 DEF Along, b
  <2> QED BY <1>7, <2>2
<1> QED BY <1>4, <1>5, <1>6, <1>7

LEMMA PointerIs ==
  ASSUME NEW msg \in Seq(Bytes), NEW at \in Nat, HasPointer(msg, at)
  PROVE  PointerAt(msg, at) \in Nat /\ (ByteAt(msg, at) % 64) * 256 + ByteAt(msg, at + 1) = PointerAt(msg, at)
<1> DEFINE b == ByteAt(msg, at)  c == ByteAt(msg, at + 1)
<1>1. b \in 0 .. 255 /\ c \in 0 .. 255 /\ b >= 192
  <2>1. at + 1 \in Nat
    OBVIOUS
  <2> QED BY <2>1, ByteIs DEF Bytes, HasPointer
<1>2. PointerAt(msg, at) = (b - 192) * 256 + c
  BY DEF PointerAt
<1> HIDE DEF b, c
<1> DEFINE m == b % 64
<1>3. m = b - 192
  BY <1>1
<1> HIDE DEF m
<1>4. (b - 192) * 256 + c \in Nat /\ m * 256 + c = (b - 192) * 256 + c
  BY <1>1, <1>3
<1> QED BY <1>2, <1>4 DEF b, c, m

LEMMA AlongStays ==
  ASSUME NEW msg \in Seq(Bytes), NEW p \in Paths, ~p.over
  PROVE  Along(msg, p) \in Paths
<1> DEFINE at == p.at  ls == p.labels  h == p.hops  nx == p.next
<1>1. at \in Nat /\ ls \in Seq(Texts) /\ h \in Nat /\ nx \in Nat /\ p = Going(at, ls, h, nx)
  BY PathIsOne
<1> HIDE DEF at, ls, h, nx
<1>2. CASE HasLabel(msg, at)
  <2>1. After(msg, at) \in Nat /\ LabelAt(msg, at) \in Texts
    BY <1>1, <1>2, LabelIs DEF Labels
  <2>2. Append(ls, LabelAt(msg, at)) \in Seq(Texts)
    BY <1>1, <2>1, AppendProperties
  <2>3. Along(msg, Going(at, ls, h, nx)) = Going(After(msg, at), Append(ls, LabelAt(msg, at)), h, nx)
    BY <1>1, <1>2, AlongIs DEF NextOf
  <2> QED BY <1>1, <2>1, <2>2, <2>3, PathsAre
<1>3. CASE ~HasLabel(msg, at)
  <2>1. Behind(h, nx, at + 1) \in Nat /\ Behind(h, nx, at + 2) \in Nat /\ h + 1 \in Nat
    BY <1>1 DEF Behind
  <2>2. HasPointer(msg, at) => PointerAt(msg, at) \in Nat
    BY <1>1, PointerIs
  <2>3. Along(msg, Going(at, ls, h, nx)) =
           IF ByteAt(msg, at) = 0 THEN Ended(at, ls, h, Behind(h, nx, at + 1))
           ELSE IF HasPointer(msg, at) /\ h < 16
             THEN Going(PointerAt(msg, at), ls, h + 1, Behind(h, nx, at + 2))
           ELSE NoPath
    BY <1>1, <1>3, AlongIs DEF NextOf
  <2> QED BY <1>1, <2>1, <2>2, <2>3, PathsAre
<1> QED BY <1>2, <1>3

(* The end of a path, n steps on.                                          *)
Onward(msg, f, n) == [p \in Paths |-> IF n = 0 \/ p.over THEN p ELSE f[n - 1][Along(msg, p)]]
Trail(msg) == CHOOSE f : f = [n \in 0 .. Limit(msg) |-> Onward(msg, f, n)]

LEMMA TrailIs ==
  ASSUME NEW msg \in Seq(Bytes), NEW n \in 0 .. Limit(msg), NEW p \in Paths
  PROVE  Trail(msg)[n][p] = IF n = 0 \/ p.over THEN p ELSE Trail(msg)[n - 1][Along(msg, p)]
<1> DEFINE m == Limit(msg)  S == [Paths -> Paths]  id == [q \in Paths |-> q]
           Move(t) == [q \in Paths |-> IF q.over THEN q ELSE t[Along(msg, q)]]
           g == [x \in (1 .. m) \X S |-> Move(x[2])]
           Fits(f) == f = [i \in 0 .. m |-> Onward(msg, f, i)]
<1>1. m \in Nat
  <2>1. Len(msg) \in Nat
    OBVIOUS
  <2> QED BY <2>1 DEF Limit
<1> HIDE DEF m
<1>2. id \in S
  OBVIOUS
<1>3. \A t \in S : Move(t) \in S
  <2> SUFFICES ASSUME NEW t \in S PROVE Move(t) \in S
    OBVIOUS
  <2>1. ASSUME NEW q \in Paths PROVE (IF q.over THEN q ELSE t[Along(msg, q)]) \in Paths
    <3>1. CASE q.over
      BY <3>1
    <3>2. CASE ~q.over
      BY <3>2, AlongStays
    <3> QED BY <3>1, <3>2
  <2> QED BY <2>1
<1> HIDE DEF Move, S, id
<1>4. g \in [(1 .. m) \X S -> S] /\ \A i \in 1 .. m, t \in S : g[<<i, t>>] = Move(t)
  BY <1>3
<1> HIDE DEF g
<1>5. PICK f : Runs(f, S, id, g, m)
  BY <1>1, <1>2, <1>4, RecursionRuns
<1>6. ASSUME NEW i \in 0 .. m PROVE f[i] = Onward(msg, f, i)
  <2>1. CASE i = 0
    <3>1. f[0] = id
      BY <1>5 DEF Runs
    <3> QED BY <2>1, <3>1 DEF Onward, id
  <2>2. CASE i # 0
    <3>1. i \in 1 .. m /\ i - 1 \in 0 .. m
      BY <1>1, <2>2
    <3>2. f[i - 1] \in S /\ f[i] = g[<<i, f[i - 1]>>]
      BY <1>5, <3>1 DEF Runs
    <3>3. f[i] = Move(f[i - 1])
      BY <1>4, <3>1, <3>2
    <3> QED BY <2>2, <3>3 DEF Move, Onward
  <2> QED BY <2>1, <2>2
<1>7. Fits(f)
  <2>1. f = [i \in 0 .. m |-> f[i]]
    BY <1>5 DEF Runs
  <2> QED BY <1>6, <2>1
<1>8. Fits(Trail(msg))
  <2>1. Trail(msg) = CHOOSE e : Fits(e)
    BY DEF Trail, m
  <2> HIDE DEF Fits
  <2> QED BY <1>7, <2>1
<1>9. Trail(msg)[n] = Onward(msg, Trail(msg), n)
  <2> DEFINE F == Trail(msg)
  <2> HIDE DEF F
  <2>1. Fits(F) /\ n \in 0 .. m
    BY <1>8 DEF F, m
  <2>2. F[n] = Onward(msg, F, n)
    BY <2>1
  <2> QED BY <2>2 DEF F
<1> QED BY <1>9 DEF Onward

(* Whatever the limit, p is at q after k steps.                            *)
LeadsTo(msg, p, k, q) ==
  \A n \in Nat : k <= n /\ n <= Limit(msg) => Trail(msg)[n][p] = Trail(msg)[n - k][q]

LEMMA LeadsOn ==
  ASSUME NEW msg \in Seq(Bytes), NEW p \in Paths, NEW q, NEW r, NEW j \in Nat, NEW k \in Nat,
         LeadsTo(msg, p, j, q), LeadsTo(msg, q, k, r)
  PROVE  LeadsTo(msg, p, j + k, r)
<1> DEFINE t == Trail(msg)  m == Limit(msg)
<1>1. /\ \A n \in Nat : j <= n /\ n <= m => t[n][p] = t[n - j][q]
      /\ \A n \in Nat : k <= n /\ n <= m => t[n][q] = t[n - k][r]
  BY DEF LeadsTo
<1>2. m \in Nat
  <2>1. Len(msg) \in Nat
    OBVIOUS
  <2> QED BY <2>1 DEF Limit
<1>3. LeadsTo(msg, p, j + k, r) <=> \A n \in Nat : j + k <= n /\ n <= m => t[n][p] = t[n - (j + k)][r]
  BY DEF LeadsTo
<1> HIDE DEF t, m
<1>4. ASSUME NEW n \in Nat, j + k <= n, n <= m PROVE t[n][p] = t[n - (j + k)][r]
  <2> DEFINE i == n - j
  <2>1. i \in Nat /\ k <= i /\ i <= m /\ j <= n /\ i - k = n - (j + k)
    BY <1>2, <1>4
  <2>2. t[n][p] = t[i][q]
    BY <1>1, <1>4, <2>1
  <2> HIDE DEF i
  <2>3. t[i][q] = t[i - k][r]
    BY <1>1, <2>1
  <2> QED BY <2>1, <2>2, <2>3
<1> QED BY <1>3, <1>4

LEMMA LeadsAlong ==
  ASSUME NEW msg \in Seq(Bytes), NEW p \in Paths, ~p.over
  PROVE  LeadsTo(msg, p, 1, Along(msg, p)) /\ LeadsTo(msg, p, 0, p)
<1>1. Limit(msg) \in Nat
  <2>1. Len(msg) \in Nat
    OBVIOUS
  <2> QED BY <2>1 DEF Limit
<1>2. ASSUME NEW n \in Nat, 1 <= n, n <= Limit(msg)
      PROVE  Trail(msg)[n][p] = Trail(msg)[n - 1][Along(msg, p)]
  <2>1. n \in 0 .. Limit(msg) /\ n # 0
    BY <1>1, <1>2
  <2> QED BY <2>1, TrailIs
<1>3. \A n \in Nat : n - 0 = n
  OBVIOUS
<1> QED BY <1>2, <1>3 DEF LeadsTo

LEMMA LeadsEnd ==
  ASSUME NEW msg \in Seq(Bytes), NEW p \in Paths, NEW q \in Paths, q.over, NEW k \in Nat, k <= Limit(msg),
         LeadsTo(msg, p, k, q)
  PROVE  Trail(msg)[Limit(msg)][p] = q
<1> DEFINE m == Limit(msg)
<1>1. m \in Nat
  <2>1. Len(msg) \in Nat
    OBVIOUS
  <2> QED BY <2>1 DEF Limit
<1>2. Trail(msg)[m][p] = Trail(msg)[m - k][q]
  BY <1>1 DEF LeadsTo
<1>3. m - k \in 0 .. m
  BY <1>1
<1>4. Trail(msg)[m - k][q] = q
  BY <1>3, TrailIs
<1> QED BY <1>2, <1>4

(* A loop over labels goes where the path goes.                            *)
LoopEnds(msg, off) ==
  LET r == LabelsFrom(msg)[off]
  IN r.labels \in Seq(Labels) /\ r.stop \in Nat /\ off <= r.stop /\ r.stop <= Len(msg) /\ ~HasLabel(msg, r.stop)

LoopLeads(msg, off) ==
  LET r == LabelsFrom(msg)[off]
  IN \A ls \in Seq(Texts), h \in Nat, nx \in Nat : \E k \in Nat :
       /\ k <= r.stop - off
       /\ LeadsTo(msg, Going(off, ls, h, nx), k, Going(r.stop, ls \o r.labels, h, nx))

LEMMA LoopStops ==
  ASSUME NEW msg \in Seq(Bytes), NEW off \in 0 .. Len(msg), ~HasLabel(msg, off)
  PROVE  LoopEnds(msg, off) /\ LoopLeads(msg, off)
<1> DEFINE r == LabelsFrom(msg)[off]
<1>1. r = [labels |-> <<>>, stop |-> off]
  BY LoopIs DEF Loop
<1>2. r.labels = <<>> /\ r.stop = off /\ off \in Nat /\ off <= Len(msg)
  BY <1>1
<1> HIDE DEF r
<1>3. LoopEnds(msg, off)
  <2>1. <<>> \in Seq(Labels)
    OBVIOUS
  <2> QED BY <1>2, <2>1 DEF LoopEnds, r
<1>4. ASSUME NEW ls \in Seq(Texts), NEW h \in Nat, NEW nx \in Nat
      PROVE  LeadsTo(msg, Going(off, ls, h, nx), 0, Going(off, ls, h, nx)) /\ ls \o <<>> = ls
  <2>1. Going(off, ls, h, nx) \in Paths /\ ~Going(off, ls, h, nx).over
    <3>1. Going(off, ls, h, nx) \in Paths
      BY <1>2, PathsAre
    <3> QED BY <3>1 DEF Going
  <2> QED BY <2>1, LeadsAlong, ConcatEmptySeq
<1>5. 0 \in Nat /\ 0 <= off - off
  BY <1>2
<1> QED BY <1>2, <1>3, <1>4, <1>5 DEF LoopLeads, r

LEMMA LoopGoesOn ==
  ASSUME NEW msg \in Seq(Bytes), NEW off \in 0 .. Len(msg), HasLabel(msg, off),
         LoopEnds(msg, After(msg, off)), LoopLeads(msg, After(msg, off))
  PROVE  LoopEnds(msg, off) /\ LoopLeads(msg, off)
<1> DEFINE a == After(msg, off)  r == LabelsFrom(msg)[off]  s == LabelsFrom(msg)[a]  l == LabelAt(msg, off)
<1>1. off \in Nat /\ a \in Nat /\ a > off + 1 /\ a <= Len(msg) /\ l \in Labels /\ Len(msg) \in Nat
  BY LabelIs
<1>2. r = [labels |-> <<l>> \o s.labels, stop |-> s.stop]
  BY LoopIs DEF Loop
<1>3. r.labels = <<l>> \o s.labels /\ r.stop = s.stop
  <2> DEFINE x == <<l>> \o s.labels
  <2>1. r = [labels |-> x, stop |-> s.stop]
    BY <1>2
  <2> HIDE DEF x, r
  <2>2. r.labels = x /\ r.stop = s.stop
    BY <2>1
  <2> QED BY <2>2 DEF x
<1> HIDE DEF r
<1>4. s.labels \in Seq(Labels) /\ s.stop \in Nat /\ a <= s.stop /\ s.stop <= Len(msg) /\ ~HasLabel(msg, s.stop)
  BY DEF LoopEnds
<1>5. \A ls \in Seq(Texts), h \in Nat, nx \in Nat : \E k \in Nat :
        k <= s.stop - a /\ LeadsTo(msg, Going(a, ls, h, nx), k, Going(s.stop, ls \o s.labels, h, nx))
  BY DEF LoopLeads
<1> HIDE DEF s, l
<1>6. LoopEnds(msg, off)
  <2>1. <<l>> \in Seq(Labels)
    BY <1>1
  <2>2. r.labels \in Seq(Labels)
    BY <1>3, <1>4, <2>1, ConcatProperties
  <2>3. off <= s.stop
    <3> HIDE DEF a
    <3> QED BY <1>1, <1>4
  <2> QED BY <1>3, <1>4, <2>2, <2>3 DEF LoopEnds, r
<1>7. ASSUME NEW ls \in Seq(Texts), NEW h \in Nat, NEW nx \in Nat
      PROVE  \E k \in Nat : /\ k <= r.stop - off
                            /\ LeadsTo(msg, Going(off, ls, h, nx), k, Going(r.stop, ls \o r.labels, h, nx))
  <2> DEFINE p == Going(off, ls, h, nx)  e == Append(ls, l)  q == Going(a, e, h, nx)
  <2>1. p \in Paths /\ ~p.over
    <3>1. p \in Paths
      BY <1>1, PathsAre
    <3> QED BY <3>1 DEF Going
  <2>2. Along(msg, p) = q
    BY <1>1, AlongIs DEF NextOf, l
  <2>3. l \in Texts /\ e \in Seq(Texts)
    <3>1. l \in Texts
      BY <1>1 DEF Labels
    <3> QED BY <3>1, AppendProperties
  <2> HIDE DEF a, e
  <2>4. q \in Paths
    BY <1>1, <2>3, PathsAre
  <2>5. PICK k \in Nat : k <= s.stop - a /\ LeadsTo(msg, q, k, Going(s.stop, e \o s.labels, h, nx))
    BY <1>5, <2>3
  <2>6. LeadsTo(msg, p, 1, q)
    BY <2>1, <2>2, LeadsAlong
  <2>7. e \o s.labels = ls \o r.labels
    <3>1. <<l>> \in Seq(Texts) /\ e = ls \o <<l>>
      BY <2>3, AppendIsConcat DEF e
    <3>2. s.labels \in Seq(Texts)
      BY <1>4, JoinEmpty
    <3> DEFINE y == s.labels  z == <<l>>
    <3>3. y \in Seq(Texts) /\ z \in Seq(Texts)
      BY <3>1, <3>2
    <3> HIDE DEF y, z
    <3>4. (ls \o z) \o y = ls \o (z \o y)
      BY <3>3, ConcatAssociative
    <3> QED BY <1>3, <3>1, <3>4, Zenon DEF y, z
  <2>8. LeadsTo(msg, p, 1 + k, Going(s.stop, e \o s.labels, h, nx))
    <3> HIDE DEF p, q
    <3> QED BY <2>1, <2>5, <2>6, LeadsOn
  <2>9. 1 + k \in Nat /\ 1 + k <= s.stop - off
    BY <1>1, <1>4, <2>5
  <2> QED BY <1>3, <2>7, <2>8, <2>9
<1> QED BY <1>6, <1>7 DEF LoopLeads, r

LEMMA LoopsAre ==
  ASSUME NEW msg \in Seq(Bytes), NEW off \in 0 .. Len(msg)
  PROVE  LoopEnds(msg, off) /\ LoopLeads(msg, off)
<1> DEFINE n == Len(msg)
           Good(i) == LoopEnds(msg, i) /\ LoopLeads(msg, i)
           T == {m \in Nat : \A i \in 0 .. n : n - i <= m => Good(i)}
<1>1. n \in Nat
  OBVIOUS
<1>2. 0 \in T
  <2> SUFFICES ASSUME NEW i \in 0 .. n, n - i <= 0 PROVE Good(i)
    OBVIOUS
  <2>1. ~HasLabel(msg, i)
    <3>1. i \in Nat /\ ~(i < n)
      BY <1>1
    <3> QED BY <3>1, LabelIs
  <2> QED BY <2>1, LoopStops
<1>3. ASSUME NEW m \in Nat, m \in T PROVE m + 1 \in T
  <2> SUFFICES ASSUME NEW i \in 0 .. n, n - i <= m + 1 PROVE Good(i)
    OBVIOUS
  <2>1. CASE HasLabel(msg, i)
    <3>1. After(msg, i) \in 0 .. n /\ n - After(msg, i) <= m
      <4>1. i \in Nat
        OBVIOUS
      <4>2. After(msg, i) \in Nat /\ After(msg, i) > i + 1 /\ After(msg, i) <= n
        BY <2>1, <4>1, LabelIs
      <4> QED BY <1>1, <4>1, <4>2
    <3>2. Good(After(msg, i))
      BY <1>3, <3>1
    <3> QED BY <2>1, <3>2, LoopGoesOn
  <2>2. CASE ~HasLabel(msg, i)
    BY <2>2, LoopStops
  <2> QED BY <2>1, <2>2
<1> HIDE DEF T
<1>4. Nat \subseteq T
  BY <1>2, <1>3, SetInduction
<1>5. n \in T /\ off \in 0 .. n /\ n - off <= n
  BY <1>1, <1>4
<1> QED BY <1>5 DEF T

(* What a call within others finds, given what the calls within it find.   *)
Name(name, next) == [ok |-> TRUE, name |-> name, next |-> next]
NameSet == {NotName} \cup [ok : {TRUE}, name : Texts, next : Nat]
TailAt(msg, tails, off) == IF PointerAt(msg, off) < Len(msg) THEN tails[PointerAt(msg, off)] ELSE NotName
Appended(labels, name) == IF name = <<>> THEN labels ELSE Append(labels, name)

Found(msg, tails, labels, off) ==
  IF ByteAt(msg, off) = 0 THEN Name(JoinLabels(labels), off + 1)
  ELSE IF HasPointer(msg, off) /\ TailAt(msg, tails, off).ok
    THEN Name(JoinLabels(Appended(labels, TailAt(msg, tails, off).name)), off + 2)
  ELSE NotName

LEMMA FoundIs ==
  ASSUME NEW msg \in Seq(Bytes), NEW tails \in [0 .. Len(msg) - 1 -> NameSet], NEW start \in 0 .. Len(msg) - 1
  PROVE  /\ NamesWith(msg, tails, 2)[start] = Found(msg, tails, LabelsFrom(msg)[start].labels, LabelsFrom(msg)[start].stop)
         /\ NamesWith(msg, tails, 2)[start] \in NameSet
<1> DEFINE r == LabelsFrom(msg)[start]  labels == r.labels  off == r.stop  b == ByteAt(msg, off)
           ptr == (b % 64) * 256 + ByteAt(msg, off + 1)
           tail == IF ptr < Len(msg) THEN tails[ptr] ELSE NotName
           t == TailAt(msg, tails, off)
           D == NamesWith(msg, tails, 2)[start]
<1>1. start \in 0 .. Len(msg) /\ Len(msg) \in Nat
  OBVIOUS
<1>2. labels \in Seq(Labels) /\ off \in Nat /\ off <= Len(msg)
  BY <1>1, LoopsAre DEF LoopEnds
<1>3. labels \in Seq(Texts)
  BY <1>2, JoinEmpty
<1>4. D = IF b = 0 THEN IsName(labels, off + 1)
          ELSE IF b >= 192 /\ off + 1 < Len(msg) /\ tail.ok
            THEN IsName(labels \o (IF tail.name = <<>> THEN <<>> ELSE <<tail.name>>), off + 2)
          ELSE NotName
  BY DEF NamesWith
<1> HIDE DEF r
<1>5. b >= 192 /\ off + 1 < Len(msg) <=> HasPointer(msg, off)
  BY DEF HasPointer
<1>6. HasPointer(msg, off) => tail = t
  BY <1>2, PointerIs DEF TailAt
<1>7. HasPointer(msg, off) => t \in NameSet
  <2> SUFFICES ASSUME HasPointer(msg, off) PROVE t \in NameSet
    OBVIOUS
  <2>1. PointerAt(msg, off) < Len(msg) => PointerAt(msg, off) \in 0 .. Len(msg) - 1
    BY <1>1, <1>2, PointerIs
  <2> QED BY <2>1 DEF TailAt, NameSet
<1>8. t \in NameSet /\ t.ok => t.name \in Texts
  BY DEF NameSet, NotName
<1> DEFINE tn == IF t.name = <<>> THEN <<>> ELSE <<t.name>>
<1>9. labels \o tn = Appended(labels, t.name)
  <2>1. labels \o <<>> = labels
    BY <1>3, ConcatEmptySeq
  <2>2. labels \o <<t.name>> = Append(labels, t.name)
    OBVIOUS
  <2> QED BY <2>1, <2>2 DEF Appended
<1>10. t.name \in Texts => Appended(labels, t.name) \in Seq(Texts)
  BY <1>3 DEF Appended
<1>11. D = Found(msg, tails, labels, off)
  <2>1. CASE HasPointer(msg, off)
    <3>1. tail = t
      BY <1>6, <2>1
    <3> HIDE DEF tail, t, D, b
    <3> QED BY <1>4, <1>5, <1>9, <2>1, <3>1 DEF Found, IsName, Name, t, b
  <2>2. CASE ~HasPointer(msg, off)
    <3> HIDE DEF tail, t, D, b
    <3> QED BY <1>4, <1>5, <2>2 DEF Found, IsName, Name, b
  <2> QED BY <2>1, <2>2
<1>12. \A ts \in Seq(Texts), nx \in Nat : Name(JoinLabels(ts), nx) \in NameSet
  BY JoinLabelsIs DEF Name, NameSet
<1>13. Found(msg, tails, labels, off) \in NameSet
  <2>1. off + 1 \in Nat /\ off + 2 \in Nat /\ NotName \in NameSet
    BY <1>2 DEF NameSet
  <2>2. CASE ByteAt(msg, off) = 0
    BY <1>3, <1>12, <2>1, <2>2 DEF Found
  <2>3. CASE ByteAt(msg, off) # 0 /\ HasPointer(msg, off) /\ t.ok
    <3>1. Appended(labels, t.name) \in Seq(Texts)
      BY <1>7, <1>8, <1>10, <2>3
    <3> DEFINE ap == Appended(labels, t.name)
    <3> HIDE DEF ap
    <3>2. Name(JoinLabels(ap), off + 2) \in NameSet
      BY <1>12, <2>1, <3>1 DEF ap
    <3> QED BY <2>3, <3>2 DEF Found, ap
  <2>4. CASE ByteAt(msg, off) # 0 /\ ~(HasPointer(msg, off) /\ t.ok)
    BY <2>1, <2>4 DEF Found
  <2> QED BY <2>2, <2>3, <2>4
<1> QED BY <1>11, <1>13 DEF r

(* The calls that are left answer what a path with h hops leads to.        *)
Answers(msg, D, h, m) ==
  \A start \in 0 .. Len(msg) - 1, ls \in Seq(Texts), nx \in Nat :
    IF D[start].ok
    THEN \E ts \in Seq(Labels), k \in 0 .. m, at \in Nat, hh \in 0 .. 16 :
           /\ LeadsTo(msg, Going(start, ls, h, nx), k, Ended(at, ls \o ts, hh, Behind(h, nx, D[start].next)))
           /\ D[start].name = JoinLabels(ts)
    ELSE \E k \in 0 .. m : LeadsTo(msg, Going(start, ls, h, nx), k, NoPath)

(* One step from where a loop stops.                                       *)
LEMMA StopLeads ==
  ASSUME NEW msg \in Seq(Bytes), NEW start \in 0 .. Len(msg) - 1, NEW ls \in Seq(Texts), NEW h \in Nat, NEW nx \in Nat,
         NEW off, off = LabelsFrom(msg)[start].stop, NEW lb, lb = LabelsFrom(msg)[start].labels
  PROVE  /\ lb \in Seq(Labels) /\ off \in start .. Len(msg) /\ ls \o lb \in Seq(Texts) /\ lb \in Seq(Texts)
         /\ \E k \in 0 .. off - start + 1 :
              LeadsTo(msg, Going(start, ls, h, nx), k,
                    IF ByteAt(msg, off) = 0 THEN Ended(off, ls \o lb, h, Behind(h, nx, off + 1))
                    ELSE IF HasPointer(msg, off) /\ h < 16
                      THEN Going(PointerAt(msg, off), ls \o lb, h + 1, Behind(h, nx, off + 2))
                    ELSE NoPath)
<1>1. Len(msg) \in Nat /\ start \in Nat /\ start \in 0 .. Len(msg)
  OBVIOUS
<1>2. LoopEnds(msg, start) /\ LoopLeads(msg, start)
  BY <1>1, LoopsAre
<1>3. lb \in Seq(Labels) /\ off \in Nat /\ start <= off /\ off <= Len(msg) /\ ~HasLabel(msg, off)
  BY <1>2 DEF LoopEnds
<1>4. PICK k \in Nat : k <= off - start /\ LeadsTo(msg, Going(start, ls, h, nx), k, Going(off, ls \o lb, h, nx))
  BY <1>2 DEF LoopLeads
<1>5. lb \in Seq(Texts) /\ ls \o lb \in Seq(Texts)
  <2>1. lb \in Seq(Texts)
    BY <1>3, JoinEmpty
  <2> QED BY <2>1, ConcatProperties
<1> DEFINE e == ls \o lb  q == Going(off, e, h, nx)
           a == IF ByteAt(msg, off) = 0 THEN Ended(off, e, h, Behind(h, nx, off + 1))
                ELSE IF HasPointer(msg, off) /\ h < 16
                  THEN Going(PointerAt(msg, off), e, h + 1, Behind(h, nx, off + 2))
                ELSE NoPath
<1>6. e \in Seq(Texts)
  BY <1>5
<1>7. LeadsTo(msg, Going(start, ls, h, nx), k, q)
  BY <1>4
<1> HIDE DEF e
<1>8. Along(msg, q) = a
  <2>1. off \in Nat /\ ~HasLabel(msg, off)
    BY <1>3
  <2>2. Along(msg, Going(off, e, h, nx)) = NextOf(msg, off, e, h, nx)
    BY <1>6, <2>1, AlongIs
  <2> QED BY <2>1, <2>2, Zenon DEF NextOf
<1>9. q \in Paths /\ ~q.over
  <2>1. q \in Paths
    BY <1>3, <1>6, PathsAre
  <2> QED BY <2>1 DEF Going
<1> HIDE DEF q, a
<1>10. LeadsTo(msg, q, 1, a)
  BY <1>8, <1>9, LeadsAlong
<1>11. Going(start, ls, h, nx) \in Paths
  BY <1>1, PathsAre
<1> DEFINE p == Going(start, ls, h, nx)
<1> HIDE DEF p
<1>12. LeadsTo(msg, p, k + 1, a)
  BY <1>7, <1>10, <1>11, LeadsOn DEF p
<1>13. k + 1 \in 0 .. off - start + 1 /\ off \in start .. Len(msg)
  <2>1. off \in Nat /\ start <= off /\ off <= Len(msg) /\ k <= off - start
    BY <1>3, <1>4
  <2> QED BY <1>1, <2>1
<1> QED BY <1>3, <1>5, <1>12, <1>13 DEF p, a, e

LEMMA CallAnswers ==
  ASSUME NEW msg \in Seq(Bytes), NEW t \in [0 .. Len(msg) - 1 -> NameSet], NEW h \in 0 .. 16, NEW m \in Nat,
         h = 16 => \A i \in 0 .. Len(msg) - 1 : t[i] = NotName,
         h < 16 => Answers(msg, t, h + 1, m)
  PROVE  Answers(msg, NamesWith(msg, t, 2), h, m + Len(msg) + 1)
<1> DEFINE n == Len(msg)  E == NamesWith(msg, t, 2)  M == m + n + 1
<1>1. n \in Nat /\ h \in Nat
  OBVIOUS
<1> SUFFICES ASSUME NEW start \in 0 .. n - 1, NEW ls \in Seq(Texts), NEW nx \in Nat
             PROVE  IF E[start].ok
                    THEN \E ts \in Seq(Labels), k \in 0 .. M, at \in Nat, hh \in 0 .. 16 :
                           /\ LeadsTo(msg, Going(start, ls, h, nx), k, Ended(at, ls \o ts, hh, Behind(h, nx, E[start].next)))
                           /\ E[start].name = JoinLabels(ts)
                    ELSE \E k \in 0 .. M : LeadsTo(msg, Going(start, ls, h, nx), k, NoPath)
  BY DEF Answers
<1> DEFINE p == Going(start, ls, h, nx)  D == E[start]
           off == LabelsFrom(msg)[start].stop  lb == LabelsFrom(msg)[start].labels  e == ls \o lb
           b == ByteAt(msg, off)  ptr == PointerAt(msg, off)  tl == TailAt(msg, t, off)
           q == Going(ptr, e, h + 1, Behind(h, nx, off + 2))
<1>2. D = Found(msg, t, lb, off) /\ D \in NameSet
  BY FoundIs
<1>3. lb \in Seq(Labels) /\ off \in start .. n /\ e \in Seq(Texts) /\ lb \in Seq(Texts)
  <2>1. start \in 0 .. n
    BY <1>1
  <2>2. lb \in Seq(Labels) /\ off \in Nat /\ start <= off /\ off <= n
    BY <2>1, LoopsAre DEF LoopEnds
  <2> HIDE DEF lb, off, n
  <2>3. lb \in Seq(Texts)
    BY <2>2, JoinEmpty
  <2> QED BY <2>1, <2>2, <2>3, ConcatProperties
<1>4. PICK k \in 0 .. off - start + 1 :
        LeadsTo(msg, p, k, IF b = 0 THEN Ended(off, e, h, Behind(h, nx, off + 1))
                         ELSE IF HasPointer(msg, off) /\ h < 16 THEN q ELSE NoPath)
  BY <1>1, StopLeads
<1>5. p \in Paths
  BY <1>1, PathsAre
<1> HIDE DEF p, off, lb, b, n, E
<1>6. start \in Nat /\ off \in Nat /\ k \in 0 .. M
  BY <1>1, <1>3, <1>4
<1>7. CASE b = 0
  <2>1. D = Name(JoinLabels(lb), off + 1)
    BY <1>2, <1>7 DEF Found, b
  <2>2. D.ok /\ D.next = off + 1 /\ D.name = JoinLabels(lb)
    BY <2>1 DEF Name
  <2>3. LeadsTo(msg, p, k, Ended(off, e, h, Behind(h, nx, off + 1)))
    BY <1>4, <1>7
  <2> HIDE DEF D
  <2> QED BY <1>1, <1>3, <1>6, <2>2, <2>3 DEF D, p
<1>8. CASE b # 0 /\ ~HasPointer(msg, off)
  <2>1. D = NotName
    BY <1>2, <1>8 DEF Found, b
  <2>2. ~D.ok
    BY <2>1 DEF NotName
  <2>3. LeadsTo(msg, p, k, NoPath)
    BY <1>4, <1>8
  <2> HIDE DEF D
  <2> QED BY <1>6, <2>2, <2>3 DEF D, p
<1>9. CASE b # 0 /\ HasPointer(msg, off) /\ h = 16
  <2>0. ptr < n => ptr \in 0 .. n - 1
    BY <1>1, <1>6, <1>9, PointerIs
  <2>1. ~tl.ok
    BY <1>9, <2>0 DEF TailAt, NotName, n
  <2>2. D = NotName
    BY <1>2, <1>9, <2>1 DEF Found, b
  <2>3. ~D.ok
    BY <2>2 DEF NotName
  <2>4. LeadsTo(msg, p, k, NoPath)
    BY <1>4, <1>9
  <2> HIDE DEF D
  <2> QED BY <1>6, <2>3, <2>4 DEF D, p
<1>10. CASE b # 0 /\ HasPointer(msg, off) /\ h < 16
  <2>1. LeadsTo(msg, p, k, q)
    BY <1>4, <1>10
  <2>2. ptr \in Nat /\ off + 1 < n
    BY <1>6, <1>10, PointerIs DEF HasPointer, n
  <2> DEFINE nx2 == Behind(h, nx, off + 2)  h2 == h + 1
  <2>3. nx2 \in Nat /\ h2 \in Nat /\ h2 # 0 /\ h2 \in 1 .. 16
    BY <1>1, <1>6, <1>10 DEF Behind
  <2>4. q = Going(ptr, e, h2, nx2)
    OBVIOUS
  <2> HIDE DEF ptr, q, e, nx2, h2, D
  <2>5. q \in Paths
    BY <1>3, <2>2, <2>3, <2>4, PathsAre DEF e
  <2>6. CASE ptr >= n
    <3>1. tl = NotName
      BY <2>2, <2>6, <1>1 DEF TailAt, n, ptr
    <3>2. ~D.ok
      <4>1. D = NotName
        BY <1>2, <1>10, <3>1 DEF Found, b, NotName, D
      <4> QED BY <4>1 DEF NotName
    <3>3. Along(msg, q) = NoPath
      <4>1. ByteAt(msg, ptr) = 64
        BY <2>2, <2>6, ByteIs DEF n
      <4>2. ~HasLabel(msg, ptr) /\ ~HasPointer(msg, ptr)
        BY <4>1 DEF HasLabel, HasPointer
      <4>3. e \in Seq(Texts)
        BY <1>3 DEF e
      <4>4. Along(msg, Going(ptr, e, h2, nx2)) = NoPath
        BY <2>2, <2>3, <4>1, <4>2, <4>3, AlongIs DEF NextOf
      <4> QED BY <2>4, <4>4
    <3>4. ~q.over
      BY <2>4 DEF Going
    <3>5. LeadsTo(msg, q, 1, NoPath)
      BY <2>5, <3>3, <3>4, LeadsAlong
    <3>6. LeadsTo(msg, p, k + 1, NoPath)
      BY <1>5, <1>6, <2>1, <3>5, LeadsOn
    <3>7. k + 1 \in 0 .. M
      BY <1>1, <1>3, <1>4, <1>6, <2>2
    <3> QED BY <3>2, <3>6, <3>7 DEF D, p
  <2>7. CASE ptr < n
    <3>1. ptr \in 0 .. n - 1
      BY <1>1, <2>2, <2>7
    <3>2. tl = t[ptr]
      BY <2>7 DEF TailAt, n, ptr
    <3>3. IF t[ptr].ok
          THEN \E ts \in Seq(Labels), j \in 0 .. m, at \in Nat, hh \in 0 .. 16 :
                 /\ LeadsTo(msg, Going(ptr, e, h2, nx2), j, Ended(at, e \o ts, hh, Behind(h2, nx2, t[ptr].next)))
                 /\ t[ptr].name = JoinLabels(ts)
          ELSE \E j \in 0 .. m : LeadsTo(msg, Going(ptr, e, h2, nx2), j, NoPath)
      <4>1. Answers(msg, t, h2, m)
        BY <1>10 DEF h2
      <4>2. e \in Seq(Texts)
        BY <1>3 DEF e
      <4> HIDE DEF tl
      <4> QED BY <2>3, <3>1, <4>1, <4>2 DEF Answers, n
    <3>4. \A j \in 0 .. m : j \in Nat /\ k + j \in 0 .. M /\ k \in Nat
      BY <1>1, <1>3, <1>4, <1>6, <2>2
    <3>5. CASE ~t[ptr].ok
      <4>1. PICK j \in 0 .. m : LeadsTo(msg, q, j, NoPath)
        BY <2>4, <3>3, <3>5
      <4>2. LeadsTo(msg, p, k + j, NoPath)
        BY <1>5, <2>1, <3>4, <4>1, LeadsOn
      <4>3. ~D.ok
        <5>1. D = NotName
          BY <1>2, <1>10, <3>2, <3>5 DEF Found, b, D
        <5> QED BY <5>1 DEF NotName
      <4> QED BY <3>4, <4>2, <4>3 DEF D, p
    <3>6. CASE t[ptr].ok
      <4>1. PICK ts \in Seq(Labels), j \in 0 .. m, at \in Nat, hh \in 0 .. 16 :
                 /\ LeadsTo(msg, q, j, Ended(at, e \o ts, hh, Behind(h2, nx2, t[ptr].next)))
                 /\ t[ptr].name = JoinLabels(ts)
        BY <2>4, <3>3, <3>6
      <4>2. Behind(h2, nx2, t[ptr].next) = nx2
        BY <2>3 DEF Behind
      <4> DEFINE name == t[ptr].name  us == lb \o ts
      <4>3. D = Name(JoinLabels(Appended(lb, name)), off + 2)
        BY <1>2, <1>10, <3>2, <3>6 DEF Found, b, D
      <4>4. D.ok /\ D.next = off + 2 /\ D.name = JoinLabels(Appended(lb, name))
        BY <4>3 DEF Name
      <4>5. ts \in Seq(Texts) /\ us \in Seq(Labels) /\ (JoinLabels(ts) = <<>> <=> ts = <<>>)
        BY <1>3, <4>1, JoinEmpty, ConcatProperties
      <4>6. e \o ts = ls \o us
        <5>1. ls \in Seq(Texts) /\ lb \in Seq(Texts) /\ ts \in Seq(Texts)
          BY <1>3, <4>5
        <5>2. Groups(ls, lb, ts)
          BY <5>1, ThreeParts
        <5> QED BY <5>2, Zenon DEF e, Groups
      <4>7. JoinLabels(Appended(lb, name)) = JoinLabels(us)
        <5>1. CASE ts = <<>>
          <6>1. us = lb
            BY <1>3, <5>1, ConcatEmptySeq
          <6> QED BY <4>1, <4>5, <5>1, <6>1 DEF Appended
        <5>2. CASE ts # <<>>
          <6>1. Appended(lb, name) = Append(lb, JoinLabels(ts))
            BY <4>1, <4>5, <5>2 DEF Appended
          <6>2. JoinLabels(Append(lb, JoinLabels(ts))) = JoinLabels(lb \o ts)
            BY <1>3, <4>5, <5>2, JoinOfJoin
          <6> QED BY <6>1, <6>2
        <5> QED BY <5>1, <5>2
      <4> HIDE DEF us, name
      <4>8. LeadsTo(msg, p, k + j, Ended(at, ls \o us, hh, nx2))
        <5> DEFINE r == Ended(at, e \o ts, hh, Behind(h2, nx2, t[ptr].next))
        <5>1. LeadsTo(msg, q, j, r) /\ r = Ended(at, ls \o us, hh, nx2)
          BY <4>1, <4>2, <4>6
        <5> HIDE DEF r
        <5>2. LeadsTo(msg, p, k + j, r)
          BY <1>5, <2>1, <3>4, <5>1, LeadsOn
        <5> QED BY <5>1, <5>2
      <4>9. Behind(h, nx, D.next) = nx2 /\ D.name = JoinLabels(us) /\ k + j \in 0 .. M
        BY <3>4, <4>4, <4>7 DEF nx2
      <4> QED BY <4>4, <4>5, <4>8, <4>9 DEF D, p
    <3> QED BY <3>5, <3>6
  <2> QED BY <1>1, <2>2, <2>6, <2>7
<1> QED BY <1>1, <1>7, <1>8, <1>9, <1>10

(* n calls within one another.                                             *)
Calls(msg) ==
  CHOOSE f : f = [n \in 0 .. MaxDepth + 1 |->
                    IF n = 0 THEN [start \in 0 .. Len(msg) - 1 |-> NotName] ELSE NamesWith(msg, f[n - 1], 2)]

CallsRun(msg, F) ==
  /\ F[0] = [start \in 0 .. Len(msg) - 1 |-> NotName]
  /\ \A n \in 0 .. 17 : F[n] \in [0 .. Len(msg) - 1 -> NameSet]
  /\ \A n \in 1 .. 17 : F[n] = NamesWith(msg, F[n - 1], 2)

LEMMA CallsAre ==
  ASSUME NEW msg \in Seq(Bytes)
  PROVE  CallsRun(msg, Calls(msg))
<1> DEFINE D == 0 .. Len(msg) - 1  S == [D -> NameSet]  none == [start \in D |-> NotName]
           Step(t) == NamesWith(msg, t, 2)
           g == [x \in (1 .. 17) \X S |-> Step(x[2])]
           At(f, n) == IF n = 0 THEN none ELSE Step(f[n - 1])
           Fits(f) == f = [n \in 0 .. MaxDepth + 1 |-> At(f, n)]
           F == Calls(msg)
<1>1. none \in S
  BY DEF NameSet
<1>2. ASSUME NEW t \in S PROVE Step(t) \in S
  <2>1. \A start \in D : Step(t)[start] \in NameSet
    BY FoundIs
  <2>2. Step(t) = [start \in D |-> Step(t)[start]]
    BY DEF NamesWith
  <2> QED BY <2>1, <2>2
<1> HIDE DEF S, none, Step
<1>3. g \in [(1 .. 17) \X S -> S] /\ \A i \in 1 .. 17, t \in S : g[<<i, t>>] = Step(t)
  BY <1>2
<1> HIDE DEF g
<1>4. PICK f : Runs(f, S, none, g, 17)
  BY <1>1, <1>3, RecursionRuns
<1>5. ASSUME NEW i \in 0 .. 17 PROVE f[i] = At(f, i)
  <2>1. CASE i = 0
    BY <1>4, <2>1 DEF Runs
  <2>2. CASE i # 0
    <3>1. i \in 1 .. 17 /\ i - 1 \in 0 .. 17
      BY <2>2
    <3>2. f[i - 1] \in S /\ f[i] = g[<<i, f[i - 1]>>]
      BY <1>4, <3>1 DEF Runs
    <3> QED BY <1>3, <2>2, <3>1, <3>2
  <2> QED BY <2>1, <2>2
<1>6. MaxDepth + 1 = 17
  BY DEF MaxDepth
<1>7. Fits(f)
  <2>1. f = [i \in 0 .. 17 |-> f[i]]
    BY <1>4 DEF Runs
  <2> QED BY <1>5, <1>6, <2>1
<1>8. Fits(F)
  <2>1. F = CHOOSE e : Fits(e)
    BY DEF Calls, none, Step
  <2> HIDE DEF Fits, F
  <2> QED BY <1>7, <2>1
<1> HIDE DEF F
<1>9. \A i \in 0 .. 17 : F[i] = At(F, i)
  BY <1>6, <1>8
<1>10. F[0] = none /\ \A i \in 1 .. 17 : F[i] = Step(F[i - 1])
  BY <1>9
<1> DEFINE T == {m \in Nat : m <= 17 => F[m] \in S}
<1>11. 0 \in T
  BY <1>1, <1>10
<1>12. ASSUME NEW m \in Nat, m \in T PROVE m + 1 \in T
  <2> SUFFICES ASSUME m + 1 <= 17 PROVE F[m + 1] \in S
    OBVIOUS
  <2>1. F[m] \in S /\ m + 1 \in 1 .. 17 /\ (m + 1) - 1 = m
    BY <1>12
  <2>2. F[m + 1] = Step(F[m])
    BY <1>10, <2>1
  <2> QED BY <1>2, <2>1, <2>2
<1> HIDE DEF T
<1>13. Nat \subseteq T
  BY <1>11, <1>12, SetInduction
<1>14. \A i \in 0 .. 17 : F[i] \in S
  BY <1>13 DEF T
<1> HIDE DEF F
<1>15. CallsRun(msg, F)
  BY <1>10, <1>14 DEF CallsRun, S, none, Step
<1> QED BY <1>15 DEF F

LEMMA CallsAnswer ==
  ASSUME NEW msg \in Seq(Bytes)
  PROVE  Answers(msg, Calls(msg)[17], 0, Limit(msg))
<1> DEFINE F == Calls(msg)  L == Len(msg) + 1
           T == {m \in Nat : m <= 16 => Answers(msg, F[m + 1], 16 - m, (m + 1) * L)}
<1>1. Len(msg) \in Nat /\ L \in Nat
  OBVIOUS
<1>0. CallsRun(msg, F)
  BY CallsAre, Zenon
<1>2. 0 \in T
  <2>1. F[1] = NamesWith(msg, F[0], 2) /\ F[0] \in [0 .. Len(msg) - 1 -> NameSet]
        /\ (\A i \in 0 .. Len(msg) - 1 : F[0][i] = NotName)
    <3>1. 1 \in 1 .. 17 /\ 0 \in 0 .. 17 /\ 1 - 1 = 0
      OBVIOUS
    <3> HIDE DEF F
    <3> QED BY <1>0, <3>1 DEF CallsRun
  <2> HIDE DEF F
  <2>2. Answers(msg, NamesWith(msg, F[0], 2), 16, 0 + Len(msg) + 1)
    <3> DEFINE z == F[0]  h == 16  m == 0
    <3>1. h \in 0 .. 16 /\ m \in Nat /\ ~(h < 16) /\ z \in [0 .. Len(msg) - 1 -> NameSet]
          /\ (\A i \in 0 .. Len(msg) - 1 : z[i] = NotName)
      BY <2>1
    <3> HIDE DEF z, h, m
    <3>2. Answers(msg, NamesWith(msg, z, 2), h, m + Len(msg) + 1)
      BY <3>1, CallAnswers
    <3> QED BY <3>2 DEF z, h, m
  <2>3. 0 + Len(msg) + 1 = (0 + 1) * L /\ 16 - 0 = 16 /\ 0 + 1 = 1
    BY <1>1
  <2> QED BY <2>1, <2>2, <2>3
<1>3. ASSUME NEW m \in Nat, m \in T PROVE m + 1 \in T
  <2> SUFFICES ASSUME m + 1 <= 16 PROVE Answers(msg, F[m + 1 + 1], 16 - (m + 1), (m + 1 + 1) * L)
    OBVIOUS
  <2> DEFINE h == 16 - (m + 1)  j == m + 1  w == j * L
  <2>1. h \in 0 .. 16 /\ h < 16 /\ h # 16 /\ h + 1 = 16 - m /\ j \in 0 .. 17 /\ j + 1 \in 1 .. 17 /\ (j + 1) - 1 = j /\ w \in Nat
    <3>1. j \in Nat /\ w \in Nat
      BY <1>1
    <3> HIDE DEF w, L
    <3> QED BY <1>3, <3>1
  <2>2. F[j + 1] = NamesWith(msg, F[j], 2) /\ F[j] \in [0 .. Len(msg) - 1 -> NameSet]
    <3> HIDE DEF F, h, j, w
    <3> QED BY <1>0, <2>1 DEF CallsRun
  <2>3. Answers(msg, F[j], h + 1, w)
    BY <1>3, <2>1
  <2>4. w + Len(msg) + 1 = (j + 1) * L
    <3>1. j \in Nat /\ (j + 1) * L = j * L + L
      BY <1>1
    <3> HIDE DEF j
    <3>2. w = j * L
      OBVIOUS
    <3> HIDE DEF w
    <3> QED BY <1>1, <2>1, <3>1, <3>2
  <2> HIDE DEF F, h, j, w, L
  <2>5. Answers(msg, NamesWith(msg, F[j], 2), h, w + Len(msg) + 1)
    BY <2>1, <2>2, <2>3, CallAnswers
  <2>6. Answers(msg, F[j + 1], h, (j + 1) * L)
    BY <2>2, <2>4, <2>5
  <2> QED BY <2>6 DEF h, j
<1> HIDE DEF T
<1>4. Nat \subseteq T
  BY <1>2, <1>3, SetInduction
<1>5. Answers(msg, F[16 + 1], 16 - 16, (16 + 1) * L)
  BY <1>4 DEF T
<1> QED BY <1>5 DEF Limit

LEMMA DecodeIs ==
  ASSUME NEW msg, NEW at
  PROVE  decodeDNSName(msg, at) = IF at < Len(msg) THEN Calls(msg)[17][at] ELSE NotName
<1>1. MaxDepth + 1 = 17
  BY DEF MaxDepth
<1>2. decodeDNSName(msg, at) = IF at < Len(msg) THEN Calls(msg)[MaxDepth + 1][at] ELSE NotName
  BY DEF decodeDNSName, DecodeWith, Calls
<1> QED BY <1>1, <1>2

LEMMA PathFromIs ==
  ASSUME NEW msg, NEW at
  PROVE  PathFrom(msg, at) = Trail(msg)[Limit(msg)][Start(at)]
BY DEF PathFrom, Trail, Onward

LEMMA NameOfEnd ==
  ASSUME NEW at, NEW ts, NEW h \in 0 .. 16, NEW nx
  PROVE  NameOf(Ended(at, ts, h, nx)) = Name(JoinLabels(ts), nx)
<1>2. h < 17
  OBVIOUS
<1> DEFINE p == Ended(at, ts, h, nx)
<1>3. p.over = TRUE /\ p.hops = h /\ p.labels = ts /\ p.next = nx
  BY DEF Ended
<1> HIDE DEF p
<1>4. NameOf(p) = Name(JoinLabels(ts), nx)
  BY <1>2, <1>3 DEF NameOf, Name
<1> QED BY <1>4 DEF p

LEMMA NoName == NameOf(NoPath) = NotName
BY DEF NameOf, NoPath, NotName

LEMMA NameIs ==
  ASSUME NEW D \in NameSet
  PROVE  IF D.ok THEN D.next \in Nat /\ D = Name(D.name, D.next) ELSE D = NotName
<1>1. CASE D = NotName
  BY <1>1 DEF NotName
<1>2. CASE D \in [ok : {TRUE}, name : Texts, next : Nat]
  BY <1>2 DEF Name
<1> QED BY <1>1, <1>2 DEF NameSet

(* Decoding is walking the paths of the message.                           *)
THEOREM MessagesDecode ==
  \A msg \in Seq(0 .. 255), at \in Nat : decodeDNSName(msg, at) = NameOf(PathFrom(msg, at))
<1> SUFFICES ASSUME NEW msg \in Seq(Bytes), NEW at \in Nat
             PROVE  decodeDNSName(msg, at) = NameOf(PathFrom(msg, at))
  BY DEF Bytes
<1> DEFINE m == Limit(msg)  p == Going(at, <<>>, 0, 0)  t == Trail(msg)[m]
<1>1. Len(msg) \in Nat /\ m \in Nat /\ 1 <= m
  <2>1. Len(msg) \in Nat
    OBVIOUS
  <2> QED BY <2>1 DEF Limit
<1>2. <<>> \in Seq(Texts) /\ 0 \in Nat
  OBVIOUS
<1>3. p \in Paths /\ ~p.over /\ NoPath \in Paths /\ NoPath.over
  <2>1. p \in Paths /\ NoPath \in Paths
    BY <1>2, PathsAre
  <2> QED BY <2>1 DEF Going, NoPath
<1>4. PathFrom(msg, at) = t[p]
  <2>1. Start(at) = p
    BY DEF Start, Going
  <2> QED BY <2>1, PathFromIs
<1> HIDE DEF p, t, m
<1>5. CASE at >= Len(msg)
  <2>1. decodeDNSName(msg, at) = NotName
    BY <1>1, <1>5, DecodeIs
  <2>2. ByteAt(msg, at) = 64
    BY <1>5, ByteIs
  <2>3. ~HasLabel(msg, at) /\ ~HasPointer(msg, at)
    BY <1>1, <1>5 DEF HasLabel, HasPointer, ByteAt
  <2>4. Along(msg, p) = NoPath
    <3> DEFINE e == <<>>  z == 0
    <3>1. e \in Seq(Texts) /\ z \in Nat /\ p = Going(at, e, z, z)
      BY <1>2 DEF p
    <3> HIDE DEF e, z
    <3>2. Along(msg, Going(at, e, z, z)) = NoPath
      BY <2>2, <2>3, <3>1, AlongIs DEF NextOf
    <3> QED BY <3>1, <3>2
  <2>5. LeadsTo(msg, p, 1, NoPath)
    BY <1>3, <2>4, LeadsAlong
  <2>6. t[p] = NoPath
    BY <1>1, <1>3, <2>5, LeadsEnd DEF t, m
  <2> QED BY <1>4, <2>1, <2>6, NoName
<1>6. CASE at < Len(msg)
  <2> DEFINE D == Calls(msg)[17][at]  e == <<>>  z == 0
  <2>1. decodeDNSName(msg, at) = D /\ at \in 0 .. Len(msg) - 1
    BY <1>1, <1>6, DecodeIs
  <2>2. D \in NameSet
    <3>1. 17 \in 0 .. 17
      OBVIOUS
    <3> DEFINE F == Calls(msg)
    <3>2. CallsRun(msg, F)
      BY CallsAre, Zenon
    <3> HIDE DEF F
    <3>3. F[17] \in [0 .. Len(msg) - 1 -> NameSet]
      BY <3>1, <3>2 DEF CallsRun
    <3> QED BY <2>1, <3>3 DEF F
  <2>3. Answers(msg, Calls(msg)[17], 0, m)
    BY CallsAnswer DEF m
  <2>4. e \in Seq(Texts) /\ z \in Nat /\ p = Going(at, e, z, z)
    BY <1>2 DEF p
  <2>5. Answers(msg, Calls(msg)[17], z, m)
    BY <2>3
  <2>6. D.ok => D.next \in Nat /\ D = Name(D.name, D.next)
    BY <2>2, NameIs
  <2>7. ~D.ok => D = NotName
    BY <2>2, NameIs
  <2> HIDE DEF e, z
  <2>8. IF D.ok
        THEN \E ts \in Seq(Labels), k \in 0 .. m, a \in Nat, hh \in 0 .. 16 :
               /\ LeadsTo(msg, p, k, Ended(a, e \o ts, hh, Behind(z, z, D.next)))
               /\ D.name = JoinLabels(ts)
        ELSE \E k \in 0 .. m : LeadsTo(msg, p, k, NoPath)
    BY <2>1, <2>4, <2>5 DEF Answers
  <2> HIDE DEF D
  <2>9. CASE ~D.ok
    <3>1. PICK k \in 0 .. m : LeadsTo(msg, p, k, NoPath)
      BY <2>8, <2>9
    <3>2. k \in Nat /\ k <= m
      BY <1>1
    <3>3. t[p] = NoPath
      BY <1>3, <3>1, <3>2, LeadsEnd DEF t, m
    <3> QED BY <1>4, <2>1, <2>7, <2>9, <3>3, NoName DEF D
  <2>10. CASE D.ok
    <3>1. PICK ts \in Seq(Labels), k \in 0 .. m, a \in Nat, hh \in 0 .. 16 :
               /\ LeadsTo(msg, p, k, Ended(a, e \o ts, hh, Behind(z, z, D.next)))
               /\ D.name = JoinLabels(ts)
      BY <2>8, <2>10
    <3>2. e \o ts = ts /\ ts \in Seq(Texts)
      BY JoinEmpty, ConcatEmptySeq DEF e
    <3>3. Behind(z, z, D.next) = D.next
      BY DEF Behind, z
    <3> DEFINE q == Ended(a, ts, hh, D.next)
    <3>4. LeadsTo(msg, p, k, q)
      BY <3>1, <3>2, <3>3
    <3>5. q \in Paths /\ q.over
      <4>1. hh \in Nat /\ D.next \in Nat
        BY <2>6, <2>10
      <4>2. q \in Paths
        BY <3>2, <4>1, PathsAre
      <4> QED BY <4>2 DEF Ended
    <3>6. k \in Nat /\ k <= m
      BY <1>1
    <3> HIDE DEF q
    <3>7. t[p] = q
      BY <1>3, <3>4, <3>5, <3>6, LeadsEnd DEF t, m
    <3>8. NameOf(q) = Name(JoinLabels(ts), D.next)
      BY NameOfEnd DEF q
    <3> QED BY <1>4, <2>1, <2>6, <2>10, <3>1, <3>7, <3>8 DEF D
  <2> QED BY <2>9, <2>10
<1> QED BY <1>1, <1>5, <1>6

(* What a function over a sequence ends with.                              *)
Folds(f, S, x, g, s) ==
  f \in [0 .. Len(s) -> S] /\ f[0] = x /\ \A k \in 1 .. Len(s) : f[k] = g[<<f[k - 1], s[k]>>]
FoldOf(S, x, g, s) == (CHOOSE f : Folds(f, S, x, g, s))[Len(s)]

LEMMA FoldRuns ==
  ASSUME NEW S, NEW E, NEW x \in S, NEW g \in [S \X E -> S], NEW s \in Seq(E)
  PROVE  \E f : Folds(f, S, x, g, s)
<1> DEFINE n == Len(s)  h == [p \in (1 .. n) \X S |-> g[<<p[2], s[p[1]]>>]]
<1>1. n \in Nat /\ \A k \in 1 .. n : s[k] \in E
  OBVIOUS
<1> HIDE DEF n
<1>2. h \in [(1 .. n) \X S -> S] /\ \A k \in 1 .. n, y \in S : h[<<k, y>>] = g[<<y, s[k]>>]
  BY <1>1
<1> HIDE DEF h
<1>3. PICK f : Runs(f, S, x, h, n)
  BY <1>1, <1>2, RecursionRuns
<1>4. ASSUME NEW k \in 1 .. n PROVE f[k] = g[<<f[k - 1], s[k]>>]
  <2>1. k - 1 \in 0 .. n
    BY <1>1
  <2>2. f[k - 1] \in S /\ f[k] = h[<<k, f[k - 1]>>]
    BY <1>3, <2>1 DEF Runs
  <2> QED BY <1>2, <2>2
<1> QED BY <1>3, <1>4 DEF Runs, Folds, n

Follows(F, S, x, g, s) == F[0] = x /\ \A k \in 1 .. Len(s) : F[k - 1] \in S => F[k] = g[<<F[k - 1], s[k]>>]
Starts(e, s, m) == m <= Len(s) /\ m <= Len(e) /\ \A k \in 1 .. m : e[k] = s[k]

LEMMA FoldsAlike ==
  ASSUME NEW S, NEW E, NEW x, NEW g, NEW s \in Seq(E), NEW F, Follows(F, S, x, g, s),
         NEW e \in Seq(E), NEW f, Folds(f, S, x, g, e), NEW m \in Nat, Starts(e, s, m)
  PROVE  F[m] = f[m]
<1>0. /\ F[0] = x /\ \A k \in 1 .. Len(s) : F[k - 1] \in S => F[k] = g[<<F[k - 1], s[k]>>]
      /\ m <= Len(s) /\ m <= Len(e) /\ Len(e) \in Nat /\ \A k \in 1 .. m : e[k] = s[k]
  BY DEF Follows, Starts
<1> DEFINE T == {i \in Nat : i <= m => F[i] = f[i]}
<1>1. 0 \in T
  BY <1>0 DEF Folds
<1>2. ASSUME NEW i \in Nat, i \in T PROVE i + 1 \in T
  <2> SUFFICES ASSUME i + 1 <= m PROVE F[i + 1] = f[i + 1]
    OBVIOUS
  <2>1. F[i] = f[i] /\ i + 1 \in 1 .. m /\ (i + 1) - 1 = i
    BY <1>2
  <2>2. Len(s) \in Nat
    OBVIOUS
  <2>3. i + 1 \in 1 .. Len(s) /\ i + 1 \in 1 .. Len(e) /\ i \in 0 .. Len(e)
    BY <1>0, <2>1, <2>2
  <2>4. f[i] \in S /\ f[i + 1] = g[<<f[i], e[i + 1]>>]
    BY <2>1, <2>3 DEF Folds
  <2>5. F[i + 1] = g[<<F[i], s[i + 1]>>]
    BY <1>0, <2>1, <2>3, <2>4
  <2> QED BY <1>0, <2>1, <2>4, <2>5
<1> HIDE DEF T
<1>3. Nat \subseteq T
  BY <1>1, <1>2, SetInduction
<1> QED BY <1>3 DEF T

FoldGoesOn(S, E, x, g) ==
  /\ FoldOf(S, x, g, <<>>) = x
  /\ \A s \in Seq(E) : FoldOf(S, x, g, s) \in S
  /\ \A s \in Seq(E), c \in E : FoldOf(S, x, g, Append(s, c)) = g[<<FoldOf(S, x, g, s), c>>]

LEMMA FoldIs ==
  ASSUME NEW S, NEW E, NEW x \in S, NEW g \in [S \X E -> S]
  PROVE  FoldGoesOn(S, E, x, g)
<1> DEFINE At(s) == CHOOSE f : Folds(f, S, x, g, s)
<1>1. \A s \in Seq(E) : Folds(At(s), S, x, g, s) /\ FoldOf(S, x, g, s) = At(s)[Len(s)]
  BY FoldRuns DEF FoldOf
<1> HIDE DEF At
<1>2. FoldOf(S, x, g, <<>>) = x
  <2> DEFINE e == <<>>
  <2>1. e \in Seq(E) /\ Len(e) = 0
    OBVIOUS
  <2> HIDE DEF e
  <2>2. FoldOf(S, x, g, e) = x
    BY <1>1, <2>1 DEF Folds
  <2> QED BY <2>2 DEF e
<1>3. ASSUME NEW s \in Seq(E) PROVE FoldOf(S, x, g, s) \in S
  <2>1. Len(s) \in 0 .. Len(s)
    OBVIOUS
  <2> QED BY <1>1, <2>1 DEF Folds
<1>4. ASSUME NEW s \in Seq(E), NEW c \in E
      PROVE  FoldOf(S, x, g, Append(s, c)) = g[<<FoldOf(S, x, g, s), c>>]
  <2> DEFINE e == Append(s, c)  n == Len(s)  F == At(e)  f == At(s)
  <2>1. e \in Seq(E) /\ Len(e) = n + 1 /\ n \in Nat /\ (\A i \in 1 .. n : e[i] = s[i]) /\ e[n + 1] = c
    BY AppendProperties
  <2>2. Folds(F, S, x, g, e) /\ FoldOf(S, x, g, e) = F[n + 1]
    BY <1>1, <2>1
  <2>3. Folds(f, S, x, g, s) /\ FoldOf(S, x, g, s) = f[n]
    BY <1>1
  <2> HIDE DEF e, n, F, f
  <2>4. Follows(F, S, x, g, e)
    BY <2>2 DEF Folds, Follows
  <2>5. Starts(s, e, n)
    BY <2>1 DEF n, Starts
  <2>6. F[n] = f[n]
    BY <2>1, <2>3, <2>4, <2>5, FoldsAlike
  <2>7. n + 1 \in 1 .. Len(e) /\ (n + 1) - 1 = n
    BY <2>1
  <2>8. F[n + 1] = g[<<F[n], e[n + 1]>>]
    BY <2>1, <2>2, <2>7 DEF Folds
  <2> QED BY <2>1, <2>2, <2>3, <2>6, <2>8 DEF e
<1> QED BY <1>2, <1>3, <1>4 DEF FoldGoesOn

(* The parts of a name, byte by byte.                                      *)
Parts == Seq(Texts) \ {<<>>}
Put(ps, c) == IF c = Dot THEN Append(ps, <<>>) ELSE [ps EXCEPT ![Len(ps)] = Append(@, c)]
Puts == [p \in Parts \X Nat |-> Put(p[1], p[2])]

LEMMA PutIs ==
  ASSUME NEW ls \in Seq(Texts), NEW t \in Texts, NEW c \in Nat
  PROVE  /\ Append(ls, t) \in Parts
         /\ Put(Append(ls, t), c) = IF c = Dot THEN Append(Append(ls, t), <<>>) ELSE Append(ls, Append(t, c))
         /\ Put(Append(ls, t), c) \in Parts
<1> DEFINE ps == Append(ls, t)  n == Len(ls)  tc == Append(t, c)
<1>1. ps \in Seq(Texts) /\ ps # <<>> /\ Len(ps) = n + 1 /\ n \in Nat /\ ps[n + 1] = t
      /\ \A i \in 1 .. n : ps[i] = ls[i]
  BY AppendProperties
<1>2. tc \in Texts /\ <<>> \in Texts
  BY DEF Texts
<1>3. CASE c = Dot
  <2>1. Put(ps, c) = Append(ps, <<>>)
    BY <1>3 DEF Put
  <2>2. Append(ps, <<>>) \in Parts
    BY <1>1, <1>2, AppendProperties DEF Parts
  <2> QED BY <1>1, <1>3, <2>1, <2>2 DEF Parts
<1>4. CASE c # Dot
  <2> DEFINE r == [ps EXCEPT ![n + 1] = tc]  q == Append(ls, tc)
  <2>1. Put(ps, c) = r
    <3> HIDE DEF ps
    <3> QED BY <1>1, <1>4 DEF Put
  <2>2. q \in Seq(Texts) /\ q # <<>> /\ Len(q) = n + 1 /\ q[n + 1] = tc /\ \A i \in 1 .. n : q[i] = ls[i]
    BY <1>2, AppendProperties
  <2> HIDE DEF ps, tc, q, n
  <2>3. n + 1 \in 1 .. Len(ps)
    BY <1>1
  <2>4. r \in Seq(Texts) /\ Len(r) = n + 1 /\ \A i \in 1 .. n + 1 : r[i] = IF i = n + 1 THEN tc ELSE ps[i]
    <3>1. /\ r \in Seq(Texts) /\ Len(r) = Len(ps)
          /\ \A i \in 1 .. Len(ps) : r[i] = IF i = n + 1 THEN tc ELSE ps[i]
      BY <1>1, <1>2, <2>3, ExceptSeq
    <3> QED BY <1>1, <3>1
  <2> HIDE DEF r
  <2>5. \A i \in 1 .. n + 1 : r[i] = q[i]
    <3>1. \A i \in 1 .. n + 1 : i = n + 1 \/ i \in 1 .. n
      BY <1>1
    <3>2. \A i \in 1 .. n : i # n + 1 /\ i \in 1 .. n + 1
      BY <1>1
    <3> QED BY <1>1, <2>2, <2>4, <3>1, <3>2
  <2>6. r = q
    BY <2>2, <2>4, <2>5, SeqEqual
  <2> QED BY <1>1, <1>4, <2>1, <2>2, <2>6 DEF Parts, ps, q, tc
<1> QED BY <1>3, <1>4

LEMMA PutsAre ==
  /\ << <<>> >> \in Parts
  /\ Puts \in [Parts \X Nat -> Parts]
  /\ \A ps \in Parts, c \in Nat : Puts[<<ps, c>>] = Put(ps, c)
<1>1. << <<>> >> \in Parts
  <2>1. <<>> \in Texts
    BY DEF Texts
  <2> QED BY <2>1 DEF Parts
<1>2. ASSUME NEW ps \in Parts, NEW c \in Nat PROVE Put(ps, c) \in Parts
  <2>1. PICK s \in Seq(Texts), t \in Texts : ps = Append(s, t)
    BY SequenceEmptyOrAppend DEF Parts
  <2> QED BY <2>1, PutIs
<1> QED BY <1>1, <1>2 DEF Puts

LEMMA SplitNameIs ==
  ASSUME NEW name \in Texts
  PROVE  SplitName(name) = FoldOf(Parts, << <<>> >>, Puts, name)
<1> DEFINE n == Len(name)  one == << <<>> >>
           Body(f, k) == IF k = 0 THEN << <<>> >> ELSE Put(f[k - 1], name[k])
           Fits(f) == f = [k \in 0 .. n |-> Body(f, k)]
           F == CHOOSE f : Fits(f)
<1>1. name \in Seq(Nat) /\ n \in Nat /\ \A k \in 1 .. n : name[k] \in Nat
  BY DEF Texts
<1>2. one \in Parts /\ Puts \in [Parts \X Nat -> Parts] /\ \A ps \in Parts, c \in Nat : Puts[<<ps, c>>] = Put(ps, c)
  BY PutsAre
<1> DEFINE f == CHOOSE f : Folds(f, Parts, one, Puts, name)
<1>3. Folds(f, Parts, one, Puts, name)
  BY <1>1, <1>2, FoldRuns
<1>4. FoldOf(Parts, one, Puts, name) = f[n]
  BY DEF FoldOf
<1>5. SplitName(name) = F[n]
  BY DEF SplitName, Put
<1> HIDE DEF f
<1>6. Fits(f)
  <2>1. f = [k \in 0 .. n |-> f[k]]
    BY <1>3 DEF Folds
  <2>2. ASSUME NEW k \in 0 .. n PROVE f[k] = Body(f, k)
    <3>1. CASE k = 0
      BY <1>3, <3>1 DEF Folds
    <3>2. CASE k # 0
      <4>1. k \in 1 .. n /\ k - 1 \in 0 .. n
        BY <1>1, <3>2
      <4>2. f[k - 1] \in Parts /\ f[k] = Puts[<<f[k - 1], name[k]>>]
        BY <1>3, <4>1 DEF Folds
      <4> QED BY <1>1, <1>2, <3>2, <4>1, <4>2
    <3> QED BY <3>1, <3>2
  <2> QED BY <2>1, <2>2
<1>7. Fits(F)
  BY <1>6
<1> HIDE DEF F
<1>8. \A k \in 0 .. n : F[k] = Body(F, k)
  BY <1>7
<1>9. F[0] = one /\ \A k \in 1 .. n : F[k - 1] \in Parts => F[k] = Puts[<<F[k - 1], name[k]>>]
  <2>1. 0 \in 0 .. n /\ \A k \in 1 .. n : k \in 0 .. n /\ k # 0
    BY <1>1
  <2>2. F[0] = one
    BY <1>8, <2>1
  <2>3. ASSUME NEW k \in 1 .. n, F[k - 1] \in Parts PROVE F[k] = Puts[<<F[k - 1], name[k]>>]
    BY <1>1, <1>2, <1>8, <2>1, <2>3
  <2> QED BY <2>2, <2>3
<1> HIDE DEF n, Body, Fits, one
<1>10. F[n] = f[n]
  <2>1. Starts(name, name, n)
    BY <1>1 DEF n, Starts
  <2>2. Follows(F, Parts, one, Puts, name)
    BY <1>9 DEF Follows, n
  <2> QED BY <1>1, <1>3, <2>1, <2>2, FoldsAlike
<1> QED BY <1>4, <1>5, <1>10 DEF one

Plain == Seq(Nat \ {Dot})

LEMMA PlainIs ==
  /\ Plain \subseteq Texts
  /\ \A ls \in Seq(Plain) : ls \in Seq(Texts)
<1>1. Plain \subseteq Texts
  <2>1. Nat \ {Dot} \subseteq Nat
    OBVIOUS
  <2> QED BY <2>1, SeqMonotonic DEF Plain, Texts
<1> QED BY <1>1, SeqMonotonic

LEMMA SplitSteps ==
  /\ SplitName(<<>>) = << <<>> >>
  /\ \A s \in Texts : SplitName(s) \in Parts
  /\ \A s \in Texts, c \in Nat : SplitName(Append(s, c)) = Put(SplitName(s), c)
<1> DEFINE x == << <<>> >>
<1>1. x \in Parts /\ Puts \in [Parts \X Nat -> Parts] /\ \A ps \in Parts, c \in Nat : Puts[<<ps, c>>] = Put(ps, c)
  BY PutsAre
<1>2. <<>> \in Texts /\ \A s \in Texts, c \in Nat : Append(s, c) \in Texts
  BY DEF Texts
<1> HIDE DEF x
<1>3. /\ FoldOf(Parts, x, Puts, <<>>) = x
      /\ \A s \in Seq(Nat) : FoldOf(Parts, x, Puts, s) \in Parts
      /\ \A s \in Seq(Nat), c \in Nat : FoldOf(Parts, x, Puts, Append(s, c)) = Puts[<<FoldOf(Parts, x, Puts, s), c>>]
  <2> DEFINE E == Nat
  <2>1. Puts \in [Parts \X E -> Parts] /\ x \in Parts
    BY <1>1
  <2> HIDE DEF E
  <2>2. FoldGoesOn(Parts, E, x, Puts)
    BY <2>1, FoldIs
  <2> QED BY <2>2 DEF E, FoldGoesOn
<1>4. \A s \in Texts : SplitName(s) = FoldOf(Parts, x, Puts, s)
  BY SplitNameIs DEF x
<1>5. SplitName(<<>>) = x
  BY <1>2, <1>3, <1>4
<1>6. \A s \in Texts : SplitName(s) \in Parts
  BY <1>3, <1>4 DEF Texts
<1>7. ASSUME NEW s \in Texts, NEW c \in Nat PROVE SplitName(Append(s, c)) = Put(SplitName(s), c)
  <2>1. SplitName(Append(s, c)) = Puts[<<SplitName(s), c>>]
    BY <1>2, <1>3, <1>4 DEF Texts
  <2> QED BY <1>1, <1>6, <2>1
<1> QED BY <1>5, <1>6, <1>7 DEF x

LEMMA AppendOnto ==
  ASSUME NEW S, NEW s \in Seq(S), NEW q \in Seq(S), NEW c \in S
  PROVE  s \o Append(q, c) = Append(s \o q, c) /\ s \o q \in Seq(S)
<1> DEFINE d == <<c>>
<1>1. d \in Seq(S) /\ Append(q, c) = q \o d /\ s \o q \in Seq(S)
  BY AppendIsConcat, ConcatProperties
<1>2. Append(s \o q, c) = (s \o q) \o d
  BY <1>1, AppendIsConcat
<1> HIDE DEF d
<1>3. (s \o q) \o d = s \o (q \o d)
  BY <1>1, ConcatAssociative
<1> QED BY <1>1, <1>2, <1>3, Zenon

(* Bytes without a dot lengthen the last part.                             *)
LEMMA SplitPlain ==
  ASSUME NEW s \in Texts, NEW ls \in Seq(Texts), NEW t \in Texts, SplitName(s) = Append(ls, t), NEW l \in Plain
  PROVE  SplitName(s \o l) = Append(ls, t \o l)
<1> DEFINE T == {m \in Nat : \A r \in Plain : Len(r) = m => SplitName(s \o r) = Append(ls, t \o r)}
<1>0. s \in Seq(Nat) /\ t \in Seq(Nat) /\ Plain \subseteq Seq(Nat)
  BY PlainIs DEF Texts
<1>1. 0 \in T
  <2> SUFFICES ASSUME NEW r \in Plain, Len(r) = 0 PROVE SplitName(s \o r) = Append(ls, t \o r)
    OBVIOUS
  <2>1. r = <<>>
    BY EmptySeq DEF Plain
  <2>2. s \o r = s /\ t \o r = t
    BY <1>0, <2>1, ConcatEmptySeq
  <2> QED BY <2>2
<1>2. ASSUME NEW m \in Nat, m \in T PROVE m + 1 \in T
  <2> SUFFICES ASSUME NEW r \in Plain, Len(r) = m + 1 PROVE SplitName(s \o r) = Append(ls, t \o r)
    OBVIOUS
  <2>1. PICK q \in Plain, c \in Nat \ {Dot} : r = Append(q, c)
    <3>1. r # <<>>
      BY EmptySeq DEF Plain
    <3> DEFINE N == Nat \ {Dot}
    <3>2. r \in Seq(N)
      BY DEF Plain
    <3> HIDE DEF N
    <3>3. PICK q \in Seq(N), c \in N : r = Append(q, c)
      BY ONLY <3>1, <3>2, SequenceEmptyOrAppend
    <3> QED BY <3>3 DEF Plain, N
  <2>2. Len(q) = m
    <3>1. Len(Append(q, c)) = Len(q) + 1 /\ Len(q) \in Nat
      BY AppendProperties DEF Plain
    <3> QED BY <2>1, <3>1
  <2>3. SplitName(s \o q) = Append(ls, t \o q)
    BY <1>2, <2>2
  <2>4. q \in Seq(Nat) /\ c \in Nat /\ c # Dot
    BY <1>0, <2>1
  <2>5. s \o r = Append(s \o q, c) /\ t \o r = Append(t \o q, c) /\ s \o q \in Texts /\ t \o q \in Texts
    <3> DEFINE N == Nat
    <3>1. s \in Seq(N) /\ t \in Seq(N) /\ q \in Seq(N) /\ c \in N
      BY <1>0, <2>4
    <3> HIDE DEF N
    <3>2. s \o Append(q, c) = Append(s \o q, c) /\ s \o q \in Seq(N)
      BY <3>1, AppendOnto
    <3>3. t \o Append(q, c) = Append(t \o q, c) /\ t \o q \in Seq(N)
      BY <3>1, AppendOnto
    <3> QED BY <2>1, <3>2, <3>3 DEF N, Texts
  <2> DEFINE tq == t \o q  sq == s \o q
  <2>6. SplitName(sq) = Append(ls, tq) /\ tq \in Texts /\ sq \in Texts
    BY <2>3, <2>5
  <2> HIDE DEF tq, sq
  <2>7. SplitName(Append(sq, c)) = Append(ls, Append(tq, c))
    <3>1. SplitName(Append(sq, c)) = Put(Append(ls, tq), c)
      BY <2>4, <2>6, SplitSteps
    <3> QED BY <2>4, <2>6, <3>1, PutIs
  <2> QED BY <2>5, <2>7 DEF tq, sq
<1> HIDE DEF T
<1>3. Nat \subseteq T
  BY <1>1, <1>2, SetInduction
<1>4. Len(l) \in Nat
  BY DEF Plain
<1> QED BY <1>3, <1>4 DEF T

(* Splitting undoes joining.                                               *)
LEMMA SplitJoin ==
  ASSUME NEW ls \in Seq(Plain), ls # <<>>
  PROVE  SplitName(JoinLabels(ls)) = ls
<1> DEFINE Good(r) == r # <<>> => SplitName(JoinLabels(r)) = r
           T == {m \in Nat : \A r \in Seq(Plain) : Len(r) = m => Good(r)}
<1>1. 0 \in T
  BY EmptySeq
<1>2. ASSUME NEW m \in Nat, m \in T PROVE m + 1 \in T
  <2> SUFFICES ASSUME NEW r \in Seq(Plain), Len(r) = m + 1, r # <<>> PROVE SplitName(JoinLabels(r)) = r
    OBVIOUS
  <2>1. PICK q \in Seq(Plain), l \in Plain : r = Append(q, l)
    BY SequenceEmptyOrAppend
  <2>2. Len(q) = m
    <3>1. Len(Append(q, l)) = Len(q) + 1 /\ Len(q) \in Nat
      BY AppendProperties
    <3> QED BY <2>1, <3>1
  <2>3. q \in Seq(Texts) /\ l \in Texts /\ <<>> \in Texts /\ <<>> \in Seq(Texts) /\ l \in Seq(Nat)
    BY PlainIs DEF Texts
  <2>4. JoinLabels(r) = IF q = <<>> THEN l ELSE JoinLabels(q) \o <<Dot>> \o l
    BY <2>1, <2>3, JoinLabelsIs
  <2>5. <<>> \o l = l
    BY <2>3, ConcatEmptySeq
  <2> DEFINE e == <<>>
  <2>6. e \o l = l /\ e \in Texts
    BY <2>3, <2>5
  <2>7. CASE q = <<>>
    <3>1. SplitName(e) = Append(q, e)
      BY <2>7, SplitSteps
    <3> HIDE DEF e
    <3>2. SplitName(e \o l) = Append(q, e \o l)
      BY <2>3, <2>6, <3>1, SplitPlain
    <3> QED BY <2>1, <2>4, <2>6, <2>7, <3>2
  <2>8. CASE q # <<>>
    <3> DEFINE j == JoinLabels(q)  jd == Append(j, Dot)
    <3>1. SplitName(j) = q
      BY <1>2, <2>2, <2>8
    <3>2. j \in Texts /\ Dot \in Nat /\ q \in Parts
      BY <2>3, <2>8, JoinLabelsIs DEF Dot, Parts
    <3>3. j \o <<Dot>> = jd
      BY <3>2, AppendIsConcat DEF Texts
    <3> HIDE DEF j, e
    <3>4. jd \in Texts
      BY <3>2, AppendProperties DEF Texts
    <3>5. SplitName(jd) = Append(q, e)
      <4>1. SplitName(jd) = Put(q, Dot)
        BY <3>1, <3>2, SplitSteps
      <4> QED BY <4>1 DEF Put, e
    <3> HIDE DEF jd
    <3>6. SplitName(jd \o l) = Append(q, e \o l)
      BY <2>3, <2>6, <3>4, <3>5, SplitPlain
    <3> QED BY <2>1, <2>4, <2>6, <2>8, <3>3, <3>6 DEF j
  <2> QED BY <2>7, <2>8
<1> HIDE DEF T
<1>3. Nat \subseteq T
  BY <1>1, <1>2, SetInduction
<1>4. Len(ls) \in Nat
  OBVIOUS
<1> QED BY <1>3, <1>4 DEF T

LEMMA FrontIs ==
  ASSUME NEW S, NEW s \in Seq(S), NEW c \in S
  PROVE  SubSeq(Append(s, c), 1, Len(Append(s, c)) - 1) = s
<1> DEFINE a == Append(s, c)  n == Len(s)  f == SubSeq(a, 1, n)
<1>1. a \in Seq(S) /\ Len(a) = n + 1 /\ n \in Nat /\ \A i \in 1 .. n : a[i] = s[i]
  BY AppendProperties
<1>2. Len(a) - 1 = n
  BY <1>1
<1> HIDE DEF a, n
<1>3. \A i \in 1 .. n : a[i] \in S
  BY <1>1 DEF n
<1>4. f \in Seq(S) /\ Len(f) = (IF 1 <= n THEN n - 1 + 1 ELSE 0) /\ \A i \in 1 .. n - 1 + 1 : f[i] = a[1 + i - 1]
  BY <1>1, <1>3, SubSeqProperties
<1> HIDE DEF f
<1>5. n - 1 + 1 = n /\ \A i \in 1 .. n : 1 + i - 1 = i
  BY <1>1
<1>6. Len(f) = n /\ \A i \in 1 .. n : f[i] = s[i]
  BY <1>1, <1>4, <1>5
<1>7. f = s
  BY <1>4, <1>6, SeqEqual DEF n
<1> QED BY <1>2, <1>7 DEF a, f

(* The last dot is dropped, and nothing else.                              *)
LEMMA LastIs ==
  ASSUME NEW s \in Texts, NEW l \in Plain, l # <<>>
  PROVE  TrimDot(s \o l) = s \o l /\ TrimDot(l) = l
<1> DEFINE e == s \o l  n == Len(l)
<1>1. l \in Seq(Nat) /\ s \in Seq(Nat) /\ Len(s) \in Nat
  BY PlainIs DEF Texts
<1>2. n \in Nat /\ n # 0 /\ l[n] # Dot
  <2> DEFINE N == Nat \ {Dot}
  <2>1. l \in Seq(N)
    BY DEF Plain
  <2> HIDE DEF N
  <2>2. n \in Nat /\ n # 0
    BY <2>1, EmptySeq
  <2>3. l[n] \in N
    BY <2>1, <2>2, ElementOfSeq
  <2> QED BY <2>2, <2>3 DEF N
<1>3. Len(e) = Len(s) + n /\ e[Len(s) + n] = l[n]
  <2>1. Len(e) = Len(s) + Len(l) /\ \A i \in 1 .. Len(s) + Len(l) :
          e[i] = IF i <= Len(s) THEN s[i] ELSE l[i - Len(s)]
    BY <1>1, ConcatProperties
  <2> HIDE DEF e
  <2>2. Len(s) + n \in 1 .. Len(s) + Len(l) /\ ~(Len(s) + n <= Len(s)) /\ Len(s) + n - Len(s) = n
    BY <1>1, <1>2
  <2> QED BY <2>1, <2>2
<1> HIDE DEF e
<1>4. e[Len(e)] # Dot
  BY <1>2, <1>3
<1> QED BY <1>2, <1>4 DEF TrimDot, e

LEMMA TrimIs ==
  ASSUME NEW ls \in Seq(Plain), ls # <<>>
  PROVE  /\ Meant(ls) \in Seq(Plain) /\ Meant(ls) # <<>>
         /\ TrimDot(JoinLabels(ls)) = JoinLabels(Meant(ls))
<1>1. PICK q \in Seq(Plain), l \in Plain : ls = Append(q, l)
  BY SequenceEmptyOrAppend
<1>2. Len(ls) = Len(q) + 1 /\ Len(q) \in Nat /\ ls[Len(ls)] = l /\ (q = <<>> <=> Len(q) = 0)
  BY <1>1, AppendProperties, EmptySeq
<1>3. q \in Seq(Texts) /\ l \in Texts
  BY PlainIs
<1>4. JoinLabels(ls) = IF q = <<>> THEN l ELSE JoinLabels(q) \o <<Dot>> \o l
  BY <1>1, <1>3, JoinLabelsIs
<1> DEFINE j == JoinLabels(q)  jd == Append(j, Dot)
<1>5. j \in Texts /\ Dot \in Nat
  BY <1>3, JoinLabelsIs DEF Dot
<1> HIDE DEF j
<1>6. j \o <<Dot>> = jd /\ jd \in Texts
  BY <1>5, AppendIsConcat, AppendProperties DEF Texts
<1>7. CASE q # <<>> /\ l = <<>>
  <2>1. Meant(ls) = q
    <3>1. Meant(ls) = SubSeq(ls, 1, Len(ls) - 1)
      BY <1>2, <1>7 DEF Meant
    <3> QED BY <1>1, <3>1, FrontIs
  <2>2. JoinLabels(ls) = jd
    <3>1. jd \o <<>> = jd
      BY <1>6, ConcatEmptySeq DEF Texts
    <3> QED BY <1>4, <1>6, <1>7, <3>1 DEF j
  <2>3. TrimDot(jd) = j
    <3>1. jd # <<>> /\ jd[Len(jd)] = Dot
      <4> DEFINE N == Nat
      <4>1. j \in Seq(N) /\ Dot \in N
        BY <1>5 DEF Texts
      <4> HIDE DEF N
      <4>2. Append(j, Dot) # <<>> /\ Len(Append(j, Dot)) = Len(j) + 1 /\ Append(j, Dot)[Len(j) + 1] = Dot
        BY <4>1, AppendProperties
      <4> QED BY <4>2
    <3>2. SubSeq(jd, 1, Len(jd) - 1) = j
      BY <1>5, FrontIs DEF Texts
    <3> QED BY <3>1, <3>2 DEF TrimDot
  <2> QED BY <1>7, <2>1, <2>2, <2>3 DEF j
<1>8. CASE ~(q # <<>> /\ l = <<>>)
  <2>1. Meant(ls) = ls
    BY <1>2, <1>8 DEF Meant
  <2>2. TrimDot(JoinLabels(ls)) = JoinLabels(ls)
    <3>1. CASE q = <<>> /\ l = <<>>
      BY <1>4, <3>1 DEF TrimDot
    <3>2. CASE q = <<>> /\ l # <<>>
      BY <1>4, <1>5, <3>2, LastIs
    <3>3. CASE q # <<>> /\ l # <<>>
      <4>1. JoinLabels(ls) = jd \o l
        BY <1>4, <1>6, <3>3 DEF j
      <4> HIDE DEF jd
      <4> QED BY <1>6, <3>3, <4>1, LastIs
    <3> QED BY <1>8, <3>1, <3>2, <3>3
  <2> QED BY <2>1, <2>2
<1> QED BY <1>7, <1>8

LEMMA SplitIsMeant ==
  ASSUME NEW ls \in Seq(Plain), ls # <<>>
  PROVE  SplitName(TrimDot(JoinLabels(ls))) = Meant(ls) /\ Meant(ls) \in Seq(Plain)
BY TrimIs, SplitJoin

(* The bytes of labels, each behind its length.                            *)
Add(s, l) == s \o <<Len(l)>> \o l
Adds == [p \in Texts \X Texts |-> Add(p[1], p[2])]
Out(ls) == FoldOf(Texts, <<>>, Adds, ls)

LEMMA AddsAre ==
  /\ <<>> \in Texts /\ Adds \in [Texts \X Texts -> Texts]
  /\ \A s, l \in Texts : Adds[<<s, l>>] = Add(s, l)
<1>1. ASSUME NEW s \in Texts, NEW l \in Texts PROVE Add(s, l) \in Texts
  BY DEF Add, Texts
<1>2. <<>> \in Texts
  BY DEF Texts
<1> QED BY <1>1, <1>2 DEF Adds

LEMMA OutSteps ==
  /\ Out(<<>>) = <<>>
  /\ \A ls \in Seq(Texts) : Out(ls) \in Texts
  /\ \A ls \in Seq(Texts), l \in Texts : Out(Append(ls, l)) = Out(ls) \o <<Len(l)>> \o l
<1> DEFINE x == <<>>
<1>1. x \in Texts /\ Adds \in [Texts \X Texts -> Texts] /\ \A s, l \in Texts : Adds[<<s, l>>] = Add(s, l)
  BY AddsAre
<1> HIDE DEF x
<1>2. FoldGoesOn(Texts, Texts, x, Adds)
  BY <1>1, FoldIs
<1>3. \A ls : Out(ls) = FoldOf(Texts, x, Adds, ls)
  BY DEF Out, x
<1>4. /\ Out(<<>>) = x /\ \A ls \in Seq(Texts) : Out(ls) \in Texts
      /\ \A ls \in Seq(Texts), l \in Texts : Out(Append(ls, l)) = Adds[<<Out(ls), l>>]
  BY <1>2, <1>3 DEF FoldGoesOn
<1>5. \A ls \in Seq(Texts), l \in Texts : Out(Append(ls, l)) = Add(Out(ls), l)
  BY <1>1, <1>4
<1> QED BY <1>4, <1>5 DEF x, Add

LEMMA EncodedLabelsIs ==
  ASSUME NEW ls \in Seq(Texts)
  PROVE  EncodedLabels(ls) = Out(ls) \o <<0>>
<1> DEFINE n == Len(ls)  e == <<>>
           Body(f, k) == IF k = 0 THEN <<>> ELSE Add(f[k - 1], ls[k])
           Fits(f) == f = [k \in 0 .. n |-> Body(f, k)]
           F == CHOOSE f : Fits(f)
           g == CHOOSE f : Folds(f, Texts, e, Adds, ls)
<1>1. n \in Nat /\ \A k \in 1 .. n : ls[k] \in Texts
  OBVIOUS
<1>2. e \in Texts /\ Adds \in [Texts \X Texts -> Texts] /\ \A s, l \in Texts : Adds[<<s, l>>] = Add(s, l)
  BY AddsAre
<1>3. Folds(g, Texts, e, Adds, ls)
  BY <1>1, <1>2, FoldRuns
<1>4. Out(ls) = g[n]
  BY DEF FoldOf, Out
<1>5. EncodedLabels(ls) = F[n] \o <<0>>
  BY DEF EncodedLabels, Add
<1> HIDE DEF g
<1>6. Fits(g)
  <2>1. g = [k \in 0 .. n |-> g[k]]
    BY <1>3 DEF Folds
  <2>2. ASSUME NEW k \in 0 .. n PROVE g[k] = Body(g, k)
    <3>1. CASE k = 0
      BY <1>3, <3>1 DEF Folds
    <3>2. CASE k # 0
      <4>1. k \in 1 .. n /\ k - 1 \in 0 .. n
        BY <1>1, <3>2
      <4>2. g[k - 1] \in Texts /\ g[k] = Adds[<<g[k - 1], ls[k]>>]
        BY <1>3, <4>1 DEF Folds
      <4> QED BY <1>1, <1>2, <3>2, <4>1, <4>2
    <3> QED BY <3>1, <3>2
  <2> QED BY <2>1, <2>2
<1>7. Fits(F)
  BY <1>6
<1> HIDE DEF F
<1>8. \A k \in 0 .. n : F[k] = Body(F, k)
  BY <1>7
<1>9. F[0] = e /\ \A k \in 1 .. n : F[k - 1] \in Texts => F[k] = Adds[<<F[k - 1], ls[k]>>]
  <2>1. 0 \in 0 .. n /\ \A k \in 1 .. n : k \in 0 .. n /\ k # 0
    BY <1>1
  <2>2. F[0] = e
    BY <1>8, <2>1
  <2>3. ASSUME NEW k \in 1 .. n, F[k - 1] \in Texts PROVE F[k] = Adds[<<F[k - 1], ls[k]>>]
    BY <1>1, <1>2, <1>8, <2>1, <2>3
  <2> QED BY <2>2, <2>3
<1> HIDE DEF n, Body, Fits, e
<1>10. F[n] = g[n]
  <2>1. Starts(ls, ls, n)
    BY <1>1 DEF n, Starts
  <2>2. Follows(F, Texts, e, Adds, ls)
    BY <1>9 DEF Follows, n
  <2> QED BY <1>1, <1>3, <2>1, <2>2, FoldsAlike
<1> QED BY <1>4, <1>5, <1>10

(* The bytes of s are those of the message behind its first a.             *)
Sits(msg, a, s) == a + Len(s) <= Len(msg) /\ \A i \in 1 .. Len(s) : msg[a + i] = s[i]

LEMMA TripleIs ==
  ASSUME NEW s \in Texts, NEW c \in Nat, NEW l \in Texts, NEW e, e = s \o <<c>> \o l
  PROVE  /\ e \in Texts /\ Len(e) = Len(s) + 1 + Len(l) /\ Len(s) \in Nat /\ Len(l) \in Nat
         /\ \A i \in 1 .. Len(s) : e[i] = s[i]
         /\ e[Len(s) + 1] = c
         /\ \A i \in 1 .. Len(l) : e[Len(s) + 1 + i] = l[i]
<1> DEFINE sc == Append(s, c)  n == Len(s)  m == Len(l)
<1>1. s \in Seq(Nat) /\ l \in Seq(Nat) /\ n \in Nat /\ m \in Nat
  BY DEF Texts
<1>2. sc \in Seq(Nat) /\ Len(sc) = n + 1 /\ (\A i \in 1 .. n : sc[i] = s[i]) /\ sc[n + 1] = c
  BY <1>1, AppendProperties
<1>3. e = sc \o l
  BY <1>1, AppendIsConcat
<1> HIDE DEF sc
<1>4. /\ e \in Seq(Nat) /\ Len(e) = Len(sc) + m
      /\ \A i \in 1 .. Len(sc) + m : e[i] = IF i <= Len(sc) THEN sc[i] ELSE l[i - Len(sc)]
  <2> DEFINE N == Nat
  <2>1. sc \in Seq(N) /\ l \in Seq(N)
    BY <1>1, <1>2
  <2> HIDE DEF N
  <2>2. /\ sc \o l \in Seq(N) /\ Len(sc \o l) = Len(sc) + Len(l)
        /\ \A i \in 1 .. Len(sc) + Len(l) : (sc \o l)[i] = IF i <= Len(sc) THEN sc[i] ELSE l[i - Len(sc)]
    BY <2>1, ConcatProperties
  <2> QED BY <1>3, <2>2 DEF N
<1> HIDE DEF n, m
<1>5. \A i \in 1 .. n : i \in 1 .. (n + 1) + m /\ i <= n + 1
  BY <1>1
<1>6. n + 1 \in 1 .. (n + 1) + m /\ n + 1 <= n + 1
  BY <1>1
<1>7. \A i \in 1 .. m : n + 1 + i \in 1 .. (n + 1) + m /\ ~(n + 1 + i <= n + 1) /\ (n + 1 + i) - (n + 1) = i
  BY <1>1
<1>8. \A i \in 1 .. n : e[i] = s[i]
  BY <1>2, <1>4, <1>5
<1>9. e[n + 1] = c
  BY <1>2, <1>4, <1>6
<1>10. \A i \in 1 .. m : e[n + 1 + i] = l[i]
  BY <1>2, <1>4, <1>7
<1> QED BY <1>1, <1>2, <1>4, <1>8, <1>9, <1>10 DEF n, m, Texts

(* One more label is one more step.                                        *)
LEMMA LabelSits ==
  ASSUME NEW msg \in Seq(Bytes), NEW a \in Nat, NEW s \in Texts, NEW l \in Texts, Len(l) \in 1 .. 63,
         Sits(msg, a, Add(s, l)), NEW at, at = a + Len(s)
  PROVE  /\ Sits(msg, a, s) /\ at \in Nat
         /\ HasLabel(msg, at) /\ LabelAt(msg, at) = l /\ After(msg, at) = at + 1 + Len(l)
<1> DEFINE e == s \o <<Len(l)>> \o l  n == Len(s)  m == Len(l)
<1>1. /\ Len(e) = n + 1 + m /\ n \in Nat /\ m \in 1 .. 63 /\ m \in Nat /\ e[n + 1] = m
      /\ (\A i \in 1 .. n : e[i] = s[i]) /\ \A i \in 1 .. m : e[n + 1 + i] = l[i]
  BY TripleIs
<1>2. a + Len(e) <= Len(msg) /\ \A i \in 1 .. Len(e) : msg[a + i] = e[i]
  BY DEF Sits, Add
<1> HIDE DEF e
<1>3. l \in Seq(Nat) /\ Len(msg) \in Nat
  BY DEF Texts
<1> HIDE DEF n, m
<1>4. at \in Nat /\ at = a + n /\ at + 1 + m <= Len(msg) /\ at < Len(msg)
  BY <1>1, <1>2, <1>3 DEF n
<1>10. Len(e) = n + 1 + m /\ n \in Nat /\ m \in Nat /\ m >= 1 /\ a \in Nat
  <2>1. Len(e) = n + 1 + m /\ n \in Nat /\ m \in 1 .. 63
    BY <1>1
  <2> QED BY <2>1
<1>11. at = a + n
  BY <1>4
<1>5. Sits(msg, a, s)
  <2>1. \A i \in 1 .. n : i \in 1 .. Len(e)
    BY <1>1
  <2>2. \A i \in 1 .. n : msg[a + i] = s[i]
    BY <1>1, <1>2, <2>1
  <2>3. a + n <= Len(msg)
    BY <1>1, <1>3, <1>4
  <2> QED BY <2>2, <2>3 DEF Sits, n
<1>6. ByteAt(msg, at) = m
  <2>1. n + 1 \in 1 .. Len(e) /\ a + (n + 1) = at + 1
    BY <1>10, <1>11
  <2>2. msg[at + 1] = m
    BY <1>1, <1>2, <2>1
  <2> QED BY <1>4, <2>2, ByteIs
<1>7. HasLabel(msg, at)
  BY <1>1, <1>4, <1>6 DEF HasLabel
<1>8. After(msg, at) = at + 1 + m
  BY <1>6 DEF After
<1>9. LabelAt(msg, at) = l
  <2> DEFINE f == at + 2  t == at + 1 + m  b == SubSeq(msg, f, t)
  <2>1. LabelAt(msg, at) = b
    BY <1>6 DEF LabelAt
  <2>2. LabelAt(msg, at) \in Seq(Nat)
    BY <1>4, <1>7, LabelIs DEF Labels, Texts
  <2>3. \A i \in f .. t : msg[i] \in Bytes
    <3>1. at \in Nat /\ at + 1 + m <= Len(msg) /\ Len(msg) \in Nat
      BY <1>3, <1>4
    <3>2. \A i \in f .. t : i \in Int /\ i >= at + 2 /\ i <= at + 1 + m
      BY <1>10, <3>1
    <3> HIDE DEF f, t
    <3>3. \A i \in f .. t : i \in 1 .. Len(msg)
      BY <1>10, <3>1, <3>2
    <3> QED BY <3>3, ElementOfSeq
  <2>4. f \in Int /\ t \in Int /\ f <= t /\ t - f + 1 = m
    BY <1>1, <1>4
  <2>5. \A i \in 1 .. m : f + i - 1 = a + (n + 1 + i) /\ n + 1 + i \in 1 .. Len(e)
    BY <1>10, <1>11
  <2> HIDE DEF f, t
  <2>6. Len(b) = m /\ \A i \in 1 .. m : b[i] = msg[f + i - 1]
    BY <2>3, <2>4, SubSeqProperties
  <2> HIDE DEF b
  <2>7. \A i \in 1 .. m : b[i] = l[i]
    BY <1>1, <1>2, <2>5, <2>6
  <2> QED BY <1>3, <2>1, <2>2, <2>6, <2>7, SeqEqual DEF m
<1> QED BY <1>4, <1>5, <1>7, <1>8, <1>9 DEF m

LEMMA WalkIs ==
  ASSUME NEW msg \in Seq(Bytes), NEW a \in Nat, NEW ls \in Seq(Texts), IsMeant(ls), Sits(msg, a, Out(ls))
  PROVE  \E k \in 0 .. Len(Out(ls)) :
           LeadsTo(msg, Going(a, <<>>, 0, 0), k, Going(a + Len(Out(ls)), ls, 0, 0))
<1> DEFINE p == Going(a, <<>>, 0, 0)
           Good(r) == IsMeant(r) /\ Sits(msg, a, Out(r)) =>
                        \E k \in 0 .. Len(Out(r)) : LeadsTo(msg, p, k, Going(a + Len(Out(r)), r, 0, 0))
           T == {m \in Nat : \A r \in Seq(Texts) : Len(r) = m => Good(r)}
<1>1. p \in Paths /\ ~p.over
  <2>1. <<>> \in Seq(Texts) /\ 0 \in Nat
    OBVIOUS
  <2>2. p \in Paths
    BY <2>1, PathsAre
  <2> QED BY <2>2 DEF Going
<1>2. 0 \in T
  <2> SUFFICES ASSUME NEW r \in Seq(Texts), Len(r) = 0
               PROVE  \E k \in 0 .. Len(Out(r)) : LeadsTo(msg, p, k, Going(a + Len(Out(r)), r, 0, 0))
    OBVIOUS
  <2>1. r = <<>>
    BY EmptySeq
  <2>2. Len(Out(r)) = 0
    BY <2>1, OutSteps
  <2>3. a + 0 = a /\ 0 \in 0 .. 0
    OBVIOUS
  <2>4. LeadsTo(msg, p, 0, p)
    BY <1>1, LeadsAlong
  <2> QED BY <2>1, <2>2, <2>3, <2>4
<1>3. ASSUME NEW m \in Nat, m \in T PROVE m + 1 \in T
  <2> SUFFICES ASSUME NEW r \in Seq(Texts), Len(r) = m + 1, IsMeant(r), Sits(msg, a, Out(r))
               PROVE  \E k \in 0 .. Len(Out(r)) : LeadsTo(msg, p, k, Going(a + Len(Out(r)), r, 0, 0))
    OBVIOUS
  <2>1. PICK q \in Seq(Texts), l \in Texts : r = Append(q, l)
    <3>1. r # <<>>
      BY EmptySeq
    <3> QED BY <3>1, SequenceEmptyOrAppend
  <2>2. Len(r) = Len(q) + 1 /\ Len(q) \in Nat /\ r[Len(q) + 1] = l /\ \A i \in 1 .. Len(q) : r[i] = q[i]
    BY <2>1, AppendProperties
  <2>3. Len(q) = m
    BY <2>2
  <2>4. IsMeant(q) /\ Len(l) \in 1 .. 63
    <3>1. DOMAIN r = 1 .. m + 1 /\ DOMAIN q = 1 .. m
      BY <2>3, LenProperties
    <3>2. m + 1 \in 1 .. m + 1 /\ \A i \in 1 .. m : i \in 1 .. m + 1
      OBVIOUS
    <3> QED BY <2>2, <2>3, <3>1, <3>2 DEF IsMeant
  <2> DEFINE s == Out(q)  n == Len(s)  at == a + n
  <2>5. Out(r) = s \o <<Len(l)>> \o l /\ s \in Texts
    BY <2>1, OutSteps
  <2> HIDE DEF s
  <2>6. /\ Sits(msg, a, s) /\ at \in Nat
        /\ HasLabel(msg, at) /\ LabelAt(msg, at) = l /\ After(msg, at) = at + 1 + Len(l)
    <3>1. Sits(msg, a, Add(s, l))
      BY <2>5 DEF Add
    <3> DEFINE c == at
    <3>2. c = a + Len(s)
      OBVIOUS
    <3> HIDE DEF c
    <3>3. /\ Sits(msg, a, s) /\ c \in Nat
          /\ HasLabel(msg, c) /\ LabelAt(msg, c) = l /\ After(msg, c) = c + 1 + Len(l)
      <4>1. s \in Texts /\ l \in Texts /\ Len(l) \in 1 .. 63
        BY <2>4, <2>5
      <4> QED BY <4>1, <3>1, <3>2, LabelSits
    <3> QED BY <3>3 DEF c
  <2>7. Len(Out(r)) = n + 1 + Len(l) /\ n \in Nat /\ Len(l) \in Nat
    BY <2>4, <2>5, TripleIs
  <2>8. PICK k \in 0 .. n : LeadsTo(msg, p, k, Going(at, q, 0, 0))
    BY <1>3, <2>3, <2>4, <2>6 DEF s
  <2> HIDE DEF p, at, n
  <2>9. Along(msg, Going(at, q, 0, 0)) = Going(at + 1 + Len(l), r, 0, 0)
    <3> DEFINE z == 0
    <3>1. z \in Nat
      OBVIOUS
    <3> HIDE DEF z
    <3>2. Along(msg, Going(at, q, z, z)) = Going(After(msg, at), Append(q, LabelAt(msg, at)), z, z)
      BY <2>6, <3>1, AlongIs DEF NextOf
    <3> QED BY <2>1, <2>6, <3>2 DEF z
  <2> DEFINE g == Going(at, q, 0, 0)  w == Going(at + 1 + Len(l), r, 0, 0)
  <2>10. g \in Paths /\ ~g.over
    <3>1. 0 \in Nat
      OBVIOUS
    <3>2. g \in Paths
      BY <2>6, <3>1, PathsAre
    <3> QED BY <3>2 DEF Going
  <2>11. LeadsTo(msg, p, k, g) /\ Along(msg, g) = w
    BY <2>8, <2>9
  <2> HIDE DEF g, w
  <2>12. LeadsTo(msg, g, 1, w)
    BY <2>10, <2>11, LeadsAlong
  <2>13. k \in Nat /\ k + 1 \in 0 .. Len(Out(r)) /\ at + 1 + Len(l) = a + Len(Out(r))
    BY <2>7, <2>8 DEF at
  <2>14. LeadsTo(msg, p, k + 1, w)
    BY <1>1, <2>11, <2>12, <2>13, LeadsOn
  <2> QED BY <2>13, <2>14 DEF w
<1> HIDE DEF T
<1>4. Nat \subseteq T
  BY <1>2, <1>3, SetInduction
<1>5. Len(ls) \in Nat
  OBVIOUS
<1>6. Good(ls)
  BY <1>4, <1>5 DEF T
<1> QED BY <1>6

(* An encoded name is read back wherever it sits.                          *)
LEMMA EncodedReads ==
  ASSUME NEW msg \in Seq(Bytes), NEW a \in Nat, NEW ls \in Seq(Texts), IsMeant(ls),
         Sits(msg, a, EncodedLabels(ls))
  PROVE  decodeDNSName(msg, a) = Name(JoinLabels(ls), a + Len(EncodedLabels(ls)))
<1> DEFINE s == Out(ls)  n == Len(s)  e == Append(s, 0)  at == a + n  z == 0  m == Limit(msg)
           p == Going(a, <<>>, z, z)  g == Going(at, ls, z, z)  w == Ended(at, ls, z, at + 1)
<1>1. s \in Seq(Nat) /\ n \in Nat /\ at \in Nat /\ z \in Nat /\ EncodedLabels(ls) = e /\ Len(msg) \in Nat
  <2>1. s \in Seq(Nat)
    BY OutSteps DEF Texts
  <2>2. EncodedLabels(ls) = s \o <<0>>
    BY EncodedLabelsIs
  <2> HIDE DEF s
  <2> QED BY <2>1, <2>2
<1> HIDE DEF s
<1>2. Len(e) = n + 1 /\ (\A i \in 1 .. n : e[i] = s[i]) /\ e[n + 1] = 0
  BY <1>1, AppendProperties
<1>3. a + Len(e) <= Len(msg) /\ \A i \in 1 .. Len(e) : msg[a + i] = e[i]
  BY <1>1 DEF Sits
<1> HIDE DEF e
<1>4. at < Len(msg) /\ msg[at + 1] = 0 /\ n + 1 <= Len(msg)
  <2>1. n + 1 \in 1 .. Len(e) /\ a + (n + 1) = at + 1
    BY <1>1, <1>2
  <2> QED BY <1>1, <1>2, <1>3, <2>1
<1>5. Sits(msg, a, s)
  <2>1. \A i \in 1 .. n : i \in 1 .. Len(e)
    BY <1>1, <1>2
  <2>2. \A i \in 1 .. n : msg[a + i] = s[i]
    BY <1>2, <1>3, <2>1
  <2>3. a + n <= Len(msg)
    BY <1>1, <1>4
  <2> QED BY <2>2, <2>3 DEF Sits
<1>6. ByteAt(msg, at) = 0
  BY <1>1, <1>4, ByteIs
<1>7. PICK k \in 0 .. n : LeadsTo(msg, p, k, g)
  BY <1>5, WalkIs DEF s
<1>8. p \in Paths /\ g \in Paths /\ ~g.over /\ w \in Paths /\ w.over
  <2>1. <<>> \in Seq(Texts) /\ at + 1 \in Nat
    BY <1>1
  <2>2. p \in Paths /\ g \in Paths /\ w \in Paths
    <3> HIDE DEF at, z
    <3> QED BY <1>1, <2>1, PathsAre
  <2> QED BY <2>2 DEF Going, Ended
<1>9. Along(msg, g) = w
  <2> HIDE DEF at, z
  <2>1. ~HasLabel(msg, at)
    <3> DEFINE b == ByteAt(msg, at)
    <3>1. b = 0
      BY <1>6
    <3> HIDE DEF b
    <3>2. ~(b \in 1 .. 63)
      BY <3>1
    <3> QED BY <3>2 DEF HasLabel, b
  <2>2. Along(msg, g) = Ended(at, ls, z, Behind(z, z, at + 1))
    BY <1>1, <1>6, <2>1, AlongIs DEF NextOf
  <2>3. Behind(z, z, at + 1) = at + 1
    BY DEF Behind, z
  <2> QED BY <2>2, <2>3
<1>10. PathFrom(msg, a) = Trail(msg)[m][p]
  <2>1. Start(a) = p
    BY DEF Start, Going
  <2> QED BY <2>1, PathFromIs
<1>11. decodeDNSName(msg, a) = NameOf(PathFrom(msg, a))
  BY MessagesDecode DEF Bytes
<1> HIDE DEF p, g, w
<1>12. LeadsTo(msg, g, 1, w)
  BY <1>8, <1>9, LeadsAlong
<1>13. k \in Nat /\ k + 1 \in Nat /\ k + 1 <= m
  BY <1>1, <1>4, <1>7 DEF Limit
<1>14. LeadsTo(msg, p, k + 1, w)
  BY <1>7, <1>8, <1>12, <1>13, LeadsOn
<1> HIDE DEF m
<1>15. Trail(msg)[m][p] = w
  BY <1>8, <1>13, <1>14, LeadsEnd DEF m
<1>16. NameOf(w) = Name(JoinLabels(ls), at + 1)
  <2>1. z \in 0 .. 16
    OBVIOUS
  <2> HIDE DEF z
  <2> QED BY <2>1, NameOfEnd DEF w
<1>17. at + 1 = a + Len(e)
  BY <1>1, <1>2
<1> QED BY <1>1, <1>10, <1>11, <1>15, <1>16, <1>17

Wire == Seq(Bytes \ {Dot})

LEMMA WireIs ==
  /\ Wire \subseteq Seq(Bytes) /\ Wire \subseteq Plain /\ Wire \subseteq Texts
  /\ \A ls \in Seq(Wire) : ls \in Seq(Plain) /\ ls \in Seq(Texts)
<1> DEFINE U == Bytes \ {Dot}  N == Nat \ {Dot}
<1>1. U \subseteq Bytes /\ U \subseteq N
  BY DEF Bytes
<1>2. Wire = Seq(U) /\ Plain = Seq(N)
  BY DEF Wire, Plain
<1> HIDE DEF U, N
<1>3. Wire \subseteq Seq(Bytes) /\ Wire \subseteq Plain
  BY <1>1, <1>2, SeqMonotonic
<1>4. \A ls \in Seq(Wire) : ls \in Seq(Plain)
  BY <1>3, SeqMonotonic
<1> QED BY <1>3, <1>4, PlainIs

LEMMA OutOnWire ==
  ASSUME NEW ls \in Seq(Wire), IsMeant(ls)
  PROVE  Out(ls) \in Seq(Bytes)
<1> DEFINE T == {m \in Nat : \A r \in Seq(Wire) : Len(r) = m /\ IsMeant(r) => Out(r) \in Seq(Bytes)}
<1>1. 0 \in T
  <2>1. \A r \in Seq(Wire) : Len(r) = 0 => r = <<>>
    BY EmptySeq
  <2>2. Out(<<>>) \in Seq(Bytes)
    <3>1. <<>> \in Seq(Bytes)
      OBVIOUS
    <3>2. Out(<<>>) = <<>>
      BY OutSteps
    <3> QED BY <3>1, <3>2, Zenon
  <2> QED BY <2>1, <2>2
<1>2. ASSUME NEW m \in Nat, m \in T PROVE m + 1 \in T
  <2> SUFFICES ASSUME NEW r \in Seq(Wire), Len(r) = m + 1, IsMeant(r) PROVE Out(r) \in Seq(Bytes)
    OBVIOUS
  <2>1. PICK q \in Seq(Wire), l \in Wire : r = Append(q, l)
    <3>1. r # <<>>
      BY EmptySeq
    <3> QED BY <3>1, SequenceEmptyOrAppend
  <2>2. Len(r) = Len(q) + 1 /\ Len(q) \in Nat /\ r[Len(q) + 1] = l /\ \A i \in 1 .. Len(q) : r[i] = q[i]
    BY <2>1, AppendProperties
  <2>3. Len(q) = m
    BY <2>2
  <2>4. IsMeant(q) /\ Len(l) \in 1 .. 63
    <3>1. DOMAIN r = 1 .. m + 1 /\ DOMAIN q = 1 .. m
      BY <2>3, LenProperties
    <3>2. m + 1 \in 1 .. m + 1 /\ \A i \in 1 .. m : i \in 1 .. m + 1
      OBVIOUS
    <3> QED BY <2>2, <2>3, <3>1, <3>2 DEF IsMeant
  <2>5. Out(q) \in Seq(Bytes)
    BY <1>2, <2>3, <2>4
  <2>6. l \in Seq(Bytes) /\ l \in Texts /\ q \in Seq(Texts)
    BY WireIs
  <2>7. Out(r) = Out(q) \o <<Len(l)>> \o l
    BY <2>1, <2>6, OutSteps
  <2>8. <<Len(l)>> \in Seq(Bytes)
    <3>1. Len(l) \in Bytes
      BY <2>4 DEF Bytes
    <3> QED BY <3>1
  <2>9. (Out(q) \o <<Len(l)>>) \o l \in Seq(Bytes)
    <3> DEFINE a == Out(q)  b == <<Len(l)>>
    <3>1. a \in Seq(Bytes) /\ b \in Seq(Bytes)
      BY <2>5, <2>8
    <3> HIDE DEF a, b
    <3>2. (a \o b) \o l \in Seq(Bytes)
      BY <2>6, <3>1, ConcatProperties
    <3> QED BY <3>2 DEF a, b
  <2> QED BY <2>7, <2>9
<1> HIDE DEF T
<1>3. Nat \subseteq T
  BY <1>1, <1>2, SetInduction
<1>4. Len(ls) \in Nat
  OBVIOUS
<1> QED BY <1>3, <1>4 DEF T

Around(p, e, t) == (p \o e) \o t

LEMMA MiddleSits ==
  ASSUME NEW p \in Seq(Bytes), NEW e \in Seq(Bytes), NEW t \in Seq(Bytes)
  PROVE  /\ Around(p, e, t) \in Seq(Bytes) /\ Sits(Around(p, e, t), Len(p), e)
         /\ Len(Around(p, e, t)) = Len(p) + Len(e) + Len(t)
<1> DEFINE pe == p \o e  n == Len(p)  m == Len(e)  k == Len(t)  q == Around(p, e, t)
<1>1. n \in Nat /\ m \in Nat /\ k \in Nat
  OBVIOUS
<1>2. /\ pe \in Seq(Bytes) /\ Len(pe) = n + m
      /\ \A i \in 1 .. n + m : pe[i] = IF i <= n THEN p[i] ELSE e[i - n]
  BY ConcatProperties
<1>3. q = pe \o t
  BY DEF Around
<1> HIDE DEF pe, q
<1>4. /\ q \in Seq(Bytes) /\ Len(q) = Len(pe) + k
      /\ \A i \in 1 .. Len(pe) + k : q[i] = IF i <= Len(pe) THEN pe[i] ELSE t[i - Len(pe)]
  <2>1. /\ pe \o t \in Seq(Bytes) /\ Len(pe \o t) = Len(pe) + Len(t)
        /\ \A i \in 1 .. Len(pe) + Len(t) : (pe \o t)[i] = IF i <= Len(pe) THEN pe[i] ELSE t[i - Len(pe)]
    <3>1. pe \in Seq(Bytes)
      BY <1>2
    <3> QED BY <3>1, ConcatProperties
  <2> QED BY <1>3, <2>1
<1> HIDE DEF n, m, k
<1>5. \A i \in 1 .. m : /\ n + i \in 1 .. n + m /\ ~(n + i <= n) /\ (n + i) - n = i
                        /\ n + i \in 1 .. (n + m) + k /\ n + i <= n + m
  BY <1>1
<1>6. \A i \in 1 .. m : q[n + i] = e[i]
  BY <1>2, <1>4, <1>5
<1>7. Len(q) = n + m + k /\ n + m <= Len(q)
  BY <1>1, <1>2, <1>4
<1> QED BY <1>4, <1>6, <1>7 DEF Sits, n, m, k, q

LEMMA MeantIs ==
  ASSUME NEW ls \in Seq(Wire), ls # <<>>
  PROVE  Meant(ls) \in Seq(Wire) /\ SplitName(TrimDot(JoinLabels(ls))) = Meant(ls)
<1>1. ls \in Seq(Plain)
  BY WireIs
<1>2. SplitName(TrimDot(JoinLabels(ls))) = Meant(ls)
  BY <1>1, SplitIsMeant
<1>3. SubSeq(ls, 1, Len(ls) - 1) \in Seq(Wire)
  <2>1. Len(ls) - 1 \in Int /\ \A i \in 1 .. Len(ls) - 1 : ls[i] \in Wire
    OBVIOUS
  <2> QED BY <2>1, SubSeqProperties
<1> QED BY <1>2, <1>3 DEF Meant

(* An encoder takes exactly the names whose labels have 1 to 63 bytes, and *)
(* a decoder gives them back, alone or inside a query.                     *)
THEOREM NamesSurvive ==
  ASSUME NEW labels \in Seq(Seq((0 .. 255) \ {Dot})), labels # <<>>, NEW id \in Seq(0 .. 255), Len(id) = 2
  PROVE  LET ls == Meant(labels)
             encoded == encodeDNSName(JoinLabels(labels))
             query == buildMDNSQuery(id, JoinLabels(labels))
         IN IF ~IsMeant(ls) THEN encoded = <<>> /\ query = <<>>
            ELSE /\ decodeDNSName(encoded, 0)
                      = [ok |-> TRUE, name |-> JoinLabels(ls), next |-> Len(encoded)]
                 /\ decodeDNSName(query, 12)
                      = [ok |-> TRUE, name |-> JoinLabels(ls), next |-> Len(query) - 4]
<1> DEFINE ls == Meant(labels)  encoded == encodeDNSName(JoinLabels(labels))
           query == buildMDNSQuery(id, JoinLabels(labels))  e == EncodedLabels(ls)
<1>1. labels \in Seq(Wire) /\ id \in Seq(Bytes)
  BY DEF Wire, Bytes
<1>2. ls \in Seq(Wire) /\ SplitName(TrimDot(JoinLabels(labels))) = ls
  BY <1>1, MeantIs
<1> HIDE DEF ls
<1>3. encoded = IF \E k \in DOMAIN ls : Len(ls[k]) \notin 1 .. 63 THEN <<>> ELSE e
  BY <1>2 DEF encodeDNSName
<1>4. IsMeant(ls) <=> ~ \E k \in DOMAIN ls : Len(ls[k]) \notin 1 .. 63
  BY DEF IsMeant
<1>5. encoded = IF IsMeant(ls) THEN e ELSE <<>>
  BY <1>3, <1>4
<1> DEFINE head == <<0, 0, 0, 1, 0, 0, 0, 0, 0, 0>>  last == <<0, 12, 128, 1>>
<1>6. query = IF encoded = <<>> THEN <<>> ELSE id \o head \o encoded \o last
  BY DEF buildMDNSQuery
<1>7. head \in Seq(Bytes) /\ Len(head) = 10 /\ last \in Seq(Bytes) /\ Len(last) = 4
  BY DEF Bytes
<1> HIDE DEF encoded, query, e, head, last
<1>8. CASE ~IsMeant(ls)
  BY <1>5, <1>6, <1>8 DEF ls, encoded, query
<1>9. CASE IsMeant(ls)
  <2>1. e = Out(ls) \o <<0>> /\ ls \in Seq(Texts) /\ Out(ls) \in Seq(Bytes)
    <3>1. ls \in Seq(Texts)
      BY <1>2, WireIs
    <3> QED BY <1>2, <1>9, <3>1, EncodedLabelsIs, OutOnWire DEF e
  <2>2. e \in Seq(Bytes) /\ e # <<>> /\ Len(e) \in Nat
    <3> DEFINE o == Out(ls)  z == 0
    <3>1. z \in Bytes /\ o \in Seq(Bytes) /\ e = o \o <<z>>
      BY <2>1 DEF Bytes
    <3> HIDE DEF o, z
    <3>2. e = Append(o, z)
      BY <3>1, AppendIsConcat
    <3> QED BY <3>1, <3>2, AppendProperties, LenProperties
  <2>3. Sits(e, 0, e) /\ 0 \in Nat
    BY <2>2 DEF Sits
  <2>4. decodeDNSName(e, 0) = Name(JoinLabels(ls), 0 + Len(e))
    BY <1>9, <2>1, <2>2, <2>3, EncodedReads DEF e
  <2> DEFINE p == id \o head
  <2>5. p \in Seq(Bytes) /\ Len(p) = 12
    <3>1. p \in Seq(Bytes) /\ Len(p) = Len(id) + Len(head)
      BY <1>1, <1>7, ConcatProperties
    <3> HIDE DEF p
    <3> QED BY <1>7, <3>1
  <2>6. query = (p \o e) \o last
    BY <1>5, <1>6, <1>9, <2>2
  <2> HIDE DEF p
  <2>7. query \in Seq(Bytes) /\ Sits(query, Len(p), e) /\ Len(query) = Len(p) + Len(e) + Len(last)
    <3>1. query = Around(p, e, last)
      BY <2>6 DEF Around
    <3> QED BY <1>7, <2>2, <2>5, <3>1, MiddleSits
  <2>8. decodeDNSName(query, 12) = Name(JoinLabels(ls), 12 + Len(e))
    <3>1. 12 \in Nat /\ Sits(query, 12, e)
      BY <2>5, <2>7
    <3> QED BY <1>9, <2>1, <2>7, <3>1, EncodedReads DEF e
  <2>9. 0 + Len(e) = Len(e) /\ 12 + Len(e) = Len(query) - 4
    BY <1>7, <2>2, <2>5, <2>7
  <2>10. encoded = e
    BY <1>5, <1>9
  <2> QED BY <1>9, <2>4, <2>8, <2>9, <2>10 DEF ls, encoded, query, Name
<1> QED BY <1>8, <1>9

----------------------------------------------------------------------------
(* Algorithms: the inputs are those that Init gives, and a result belongs  *)
(* to its input.                                                           *)
Given ==
  /\ input.kind = "name" => input.labels \in NamesGiven
  /\ input.kind = "message" => input.msg \in Messages
  /\ input.kind = "elements" => input.a \in Elements /\ input.b \in Elements
  /\ input.kind = "encoding" => input.bits \in Encodings
  /\ input.kind = "scalars" => \E a, b \in Numbers : input.a = WordsOf(a) /\ input.b = WordsOf(b)
  /\ input.kind = "uniform" => input.a \in Thirds /\ input.b \in Thirds /\ input.c \in Thirds
  /\ input.kind = "points" => input.p \in PointEncodings /\ input.q \in Addends
  /\ input.kind = "spake" => \E h, g \in Hashes, r, s \in Randoms :
                               input.hashes = <<h, g>> /\ input.randoms = <<r, s>>

LEMMA InitGives == Init => Given /\ output = Nothing
<1> SUFFICES ASSUME Init PROVE Given
  BY DEF Init
<1> USE DEF Given
<1>1. CASE \E p \in Payloads : input = [kind |-> "symbol", payload |-> p]
  BY <1>1
<1>2. CASE \E n \in Alphabets : input = [kind |-> "text", alphabet |-> n]
  BY <1>2
<1>3. CASE \E n \in Sizes : input = [kind |-> "image", size |-> n]
  BY <1>3
<1>4. CASE \E n \in NamesGiven : input = [kind |-> "name", labels |-> n]
  BY <1>4
<1>5. CASE \E m \in Messages : input = [kind |-> "message", msg |-> m]
  BY <1>5
<1>6. CASE \E p \in Packets : \E n \in 0 .. Len(p.msg) : input = [kind |-> "packet", packet |-> p, length |-> n]
  BY <1>6
<1>7. CASE \E a, b \in Elements : input = [kind |-> "elements", a |-> a, b |-> b]
  BY <1>7
<1>8. CASE \E x \in Encodings : input = [kind |-> "encoding", bits |-> x]
  BY <1>8
<1>9. CASE \E a, b \in Numbers : input = [kind |-> "scalars", a |-> WordsOf(a), b |-> WordsOf(b)]
  <2>1. PICK a \in Numbers, b \in Numbers : input = [kind |-> "scalars", a |-> WordsOf(a), b |-> WordsOf(b)]
    BY <1>9
  <2>2. input.kind = "scalars" /\ input.a = WordsOf(a) /\ input.b = WordsOf(b)
    BY <2>1
  <2> QED BY <2>2
<1>10. CASE \E a, b, c \in Thirds : input = [kind |-> "uniform", a |-> a, b |-> b, c |-> c]
  BY <1>10
<1>11. CASE \E e \in PointEncodings, f \in Addends : input = [kind |-> "points", p |-> e, q |-> f]
  BY <1>11
<1>12. CASE \E h, g \in Hashes, r, s \in Randoms :
              input = [kind |-> "spake", hashes |-> <<h, g>>, randoms |-> <<r, s>>]
  <2>1. PICK h \in Hashes, g \in Hashes, r \in Randoms, s \in Randoms :
          input = [kind |-> "spake", hashes |-> <<h, g>>, randoms |-> <<r, s>>]
    BY <1>12
  <2>2. input.kind = "spake" /\ input.hashes = <<h, g>> /\ input.randoms = <<r, s>>
    BY <2>1
  <2> QED BY <2>2
<1> QED BY <1>1, <1>2, <1>3, <1>4, <1>5, <1>6, <1>7, <1>8, <1>9, <1>10, <1>11, <1>12 DEF Init

LEMMA StepGives ==
  ASSUME Given, [Next]_vars
  PROVE  Given'
<1>1. UNCHANGED input
  BY DEF Next, vars, Computes, Returns, RefusePayload, Divide, Draw, DrawLetters, PlaceImage, EncodeName, DecodeName,
         ReadPacketOfDiscovery, ComputeElements, EncodeElement, ComputeScalars, Reduce3, ComputePoints, Agree
<1> QED BY <1>1 DEF Given

(* What a result is, of each kind that ArithmeticIsExact is about.         *)
Elementwise == ElementsAgree(input.a, input.b, output.value)
Encoded == EncodingsAgree(input.bits, output.value)
Scalarwise == ScalarsAgree(NumberOf(input.a), NumberOf(input.b), output.value)
Uniform ==
  /\ IsScalar(output.value)
  /\ NumberOf(output.value)
       = MontgomeryOf((input.a + ShortSize * (input.b + ShortSize * input.c)) % ModulusValue)

LEMMA IsExactIf ==
  ASSUME /\ Is("elements") => Elementwise
         /\ Is("encoding") => Encoded
         /\ Is("scalars") => Scalarwise
         /\ Is("uniform") => Uniform
  PROVE  ArithmeticIsExact
BY ChainsAreExact DEF ArithmeticIsExact, Elementwise, Encoded, Scalarwise, Uniform

LEMMA InputOfScalars ==
  ASSUME NEW n \in Numbers
  PROVE  IsScalar(WordsOf(n))
<1>1. n \in 0 .. ModulusValue - 1
  BY InputsAssumption
<1>2. n \in 0 .. Radix - 1 /\ n < ModulusValue
  BY <1>1, RadixFacts
<1> QED BY <1>2, WordsOfNumber DEF IsScalar

LEMMA StepIsExact ==
  ASSUME Given, ArithmeticIsExact, [Next]_vars
  PROVE  Given' /\ ArithmeticIsExact'
<1> DEFINE Other(kind) == Computes(kind) /\ UNCHANGED input
<1>1. CASE UNCHANGED vars
  BY <1>1 DEF Given, ArithmeticIsExact, Is, vars
<1>2. ASSUME UNCHANGED input PROVE Given'
  BY <1>2 DEF Given
(* A result of another kind.                                               *)
<1>3. ASSUME NEW kind, UNCHANGED input, input.kind = kind,
             kind \notin {"elements", "encoding", "scalars", "uniform"}
      PROVE  Given' /\ ArithmeticIsExact'
  <2>1. input'.kind \notin {"elements", "encoding", "scalars", "uniform"}
    BY <1>3
  <2>2. ~Is("elements")' /\ ~Is("encoding")' /\ ~Is("scalars")' /\ ~Is("uniform")'
    BY <2>1 DEF Is
  <2> QED BY <1>2, <1>3, <2>2, ChainsAreExact DEF ArithmeticIsExact
<1>4. CASE RefusePayload
  BY <1>3, <1>4 DEF RefusePayload, Returns, Computes
<1>5. CASE Divide
  BY <1>3, <1>5 DEF Divide, Computes
<1>6. CASE Draw
  BY <1>3, <1>6 DEF Draw, Returns, Computes
<1>7. CASE DrawLetters
  BY <1>3, <1>7 DEF DrawLetters, Returns, Computes
<1>8. CASE PlaceImage
  BY <1>3, <1>8 DEF PlaceImage, Returns, Computes
<1>9. CASE EncodeName
  BY <1>3, <1>9 DEF EncodeName, Returns, Computes
<1>10. CASE DecodeName
  BY <1>3, <1>10 DEF DecodeName, Returns, Computes
<1>11. CASE ReadPacketOfDiscovery
  BY <1>3, <1>11 DEF ReadPacketOfDiscovery, Returns, Computes
<1>12. CASE ComputePoints
  BY <1>3, <1>12 DEF ComputePoints, Returns, Computes
<1>13. CASE Agree
  BY <1>3, <1>13 DEF Agree, Returns, Computes
<1>14. CASE ComputeElements
  <2> DEFINE a == input.a  b == input.b
             r == [sum |-> feAdd(a, b), difference |-> feSubtract(a, b), product |-> feMul(a, b),
                   square |-> feSquare(a), negated |-> feNegate(a), reduced |-> reduce(a)]
  <2>1. input.kind = "elements" /\ input' = input /\ output' = Result(r)
    BY <1>14 DEF ComputeElements, Returns, Computes
  <2>2. Full(a) /\ Full(b)
    BY <2>1, InputsAssumption DEF Given
  <2>3. ElementsAgree(a, b, r)
    BY <2>2, ElementsAreExact
  <2> HIDE DEF r
  <2>4. Elementwise'
    BY <2>1, <2>3 DEF Elementwise, Result
  <2>5. ~Is("encoding")' /\ ~Is("scalars")' /\ ~Is("uniform")'
    BY <2>1 DEF Is
  <2> QED BY <1>2, <2>1, <2>4, <2>5, ChainsAreExact DEF ArithmeticIsExact, Elementwise
<1>15. CASE EncodeElement
  <2> DEFINE x == input.bits
             ws == [i \in 1 .. 4 |-> {k \in 0 .. 63 : 64 * (i - 1) + k \in x}]
             r == [limbs |-> feSetBytes(x), bytes |-> feBytes(feSetBytes(x)),
                   scalar |-> fiatScalarToBytes(ws),
                   words |-> fiatScalarFromBytes(fiatScalarToBytes(ws)), given |-> ws]
  <2>1. input.kind = "encoding" /\ input' = input /\ output' = Result(r)
    BY <1>15 DEF EncodeElement, Returns, Computes
  <2>2. x \in SUBSET (0 .. 255)
    <3>1. x \in Encodings
      BY <2>1 DEF Given
    <3> QED BY <3>1, InputsAssumption, Zenon
  <2>3. EncodingsAgree(x, r)
    BY <2>2, EncodingsAreExact
  <2> HIDE DEF r
  <2>4. Encoded'
    BY <2>1, <2>3 DEF Encoded, Result
  <2>5. ~Is("elements")' /\ ~Is("scalars")' /\ ~Is("uniform")'
    BY <2>1 DEF Is
  <2> QED BY <1>2, <2>1, <2>4, <2>5, ChainsAreExact DEF ArithmeticIsExact, Encoded
<1>16. CASE ComputeScalars
  <2> DEFINE a == input.a  b == input.b
             r == [sum |-> fiatScalarAdd(a, b), difference |-> fiatScalarSub(a, b),
                   product |-> fiatScalarMul(a, b), opposite |-> fiatScalarOpp(a),
                   from |-> fiatScalarFromMontgomery(a), to |-> fiatScalarToMontgomery(a)]
  <2>1. input.kind = "scalars" /\ input' = input /\ output' = Result(r)
    BY <1>16 DEF ComputeScalars, Returns, Computes
  <2>2. IsScalar(a) /\ IsScalar(b)
    BY <2>1, InputOfScalars DEF Given
  <2>3. ScalarsAgree(NumberOf(a), NumberOf(b), r)
    BY <2>2, ScalarsAreExact
  <2> HIDE DEF r
  <2>4. Scalarwise'
    BY <2>1, <2>3 DEF Scalarwise, Result
  <2>5. ~Is("elements")' /\ ~Is("encoding")' /\ ~Is("uniform")'
    BY <2>1 DEF Is
  <2> QED BY <1>2, <2>1, <2>4, <2>5, ChainsAreExact DEF ArithmeticIsExact, Scalarwise
<1>17. CASE Reduce3
  <2> DEFINE r == SetUniformBytes(input.a, input.b, input.c)
  <2>1. input.kind = "uniform" /\ input' = input /\ output' = Result(r)
    BY <1>17 DEF Reduce3, Returns, Computes
  <2>2. input.a \in 0 .. Radix - 1 /\ input.b \in 0 .. Radix - 1 /\ input.c \in 0 .. Radix - 1
    <3>1. input.a \in Thirds /\ input.b \in Thirds /\ input.c \in Thirds
      BY <2>1, Zenon DEF Given
    <3> QED BY <3>1, InputsAssumption, Zenon
  <2>3. /\ IsScalar(r)
        /\ NumberOf(r) = MontgomeryOf((input.a + ShortSize * (input.b + ShortSize * input.c)) % ModulusValue)
    BY <2>2, UniformIsReduced
  <2> HIDE DEF r
  <2>4. Uniform'
    BY <2>1, <2>3 DEF Uniform, Result
  <2>5. ~Is("elements")' /\ ~Is("encoding")' /\ ~Is("scalars")'
    BY <2>1 DEF Is
  <2> QED BY <1>2, <2>1, <2>4, <2>5, ChainsAreExact DEF ArithmeticIsExact, Uniform
<1> QED BY <1>1, <1>4, <1>5, <1>6, <1>7, <1>8, <1>9, <1>10, <1>11, <1>12, <1>13, <1>14, <1>15, <1>16, <1>17
        DEF Next

(* Whatever the sizes of words and limbs: an operation of the field or of  *)
(* the scalars returns what the integers say, an encoding keeps every bit, *)
(* and the chains of squarings compute the powers they are for.            *)
THEOREM ArithmeticHolds == Spec => []ArithmeticIsExact
<1>1. Init => Given /\ ArithmeticIsExact
  <2> SUFFICES ASSUME Init PROVE Given /\ ArithmeticIsExact
    OBVIOUS
  <2>1. Given /\ output = Nothing
    BY InitGives
  <2>2. ~output.done
    BY <2>1 DEF Nothing
  <2>3. ~Is("elements") /\ ~Is("encoding") /\ ~Is("scalars") /\ ~Is("uniform")
    BY <2>2 DEF Is
  <2> QED BY <2>1, <2>3, ChainsAreExact DEF ArithmeticIsExact
<1>2. Given /\ ArithmeticIsExact /\ [Next]_vars => (Given /\ ArithmeticIsExact)'
  BY StepIsExact
<1> QED BY <1>1, <1>2, PTL DEF Spec

(* A result of points or of SPAKE2, of which SpakeAgrees speaks.           *)
Met ==
  LET r == output.value  h == input.hashes
  IN /\ <<>> \notin {r.keys[1], r.keys[2]}
     /\ r.keys[1] = r.keys[2] <=> h[1] = h[2]
     /\ r.scalar % 8 = 0 /\ r.scalar < 8 * curveOrder
     /\ r.scalar % curveOrder = h[1] % curveOrder

LEMMA AgreeMeets ==
  ASSUME Given, Agree
  PROVE  Met'
<1> DEFINE h == input.hashes  r == input.randoms
           alice == newSpake2("alice", h[1], r[1])  bob == newSpake2("bob", h[2], r[2])
           j == Finish(alice, bob.myMsg)  k == Finish(bob, alice.myMsg)
           n == passwordScalarHack(h[1] % curveOrder)
<1>1. input.kind = "spake" /\ input' = input /\ output' = Result([keys |-> <<j, k>>, scalar |-> n])
  BY DEF Agree, Returns, Computes
<1>2. h[1] \in Nat /\ h[2] \in Nat /\ r[1] \in Nat /\ r[2] \in Nat
  BY <1>1, InputsAssumption DEF Given
<1>3. j # <<>> /\ k # <<>> /\ (j = k <=> h[1] = h[2])
  <2> DEFINE a == h[1]  b == h[2]  c == r[1]  d == r[2]
  <2>1. KeysAgree(a, b, c, d)
    <3> HIDE DEF h, r
    <3>1. a \in Nat /\ b \in Nat /\ c \in Nat /\ d \in Nat
      BY <1>2
    <3> HIDE DEF a, b, c, d
    <3> QED BY <3>1, EndsAgree
  <2> QED BY <2>1 DEF KeysAgree
<1>4. n % 8 = 0 /\ n < 8 * curveOrder /\ n % curveOrder = h[1] % curveOrder
  <2> HIDE DEF h
  <2> QED BY <1>2, ScalarsAreSmall DEF ScalarOf
<1> HIDE DEF j, k, n
<1>5. output'.value.keys[1] = j /\ output'.value.keys[2] = k /\ output'.value.scalar = n /\ input'.hashes = h
  BY <1>1 DEF Result
<1> QED BY <1>3, <1>4, <1>5 DEF Met

LEMMA PointsArePlain ==
  ASSUME Given, ComputePoints
  PROVE  PointsAgree(input.p, input.q, output.value)'
<1> DEFINE e == input.p  f == input.q  p == SetPointBytes(e)  q == SetPointBytes(f)
           r == IF p = NotAPoint THEN [ok |-> FALSE]
                ELSE [ok |-> TRUE, point |-> p, bytes |-> PointBytes(p),
                      sum |-> AddPoints(p, q), difference |-> SubtractPoints(p, q)]
<1>1. input.kind = "points" /\ input' = input /\ output' = Result(r)
  BY DEF ComputePoints, Returns, Computes
<1>2. e \in Nat /\ f \in Nat /\ SetPointBytes(f) # NotAPoint
  BY <1>1, InputsAssumption, CurveAssumption DEF Given
<1>3. PointsAgree(e, f, r)
  BY <1>2, PointsAreThose
<1> HIDE DEF r
<1>4. output'.value = r /\ input'.p = e /\ input'.q = f
  BY <1>1 DEF Result
<1> QED BY <1>3, <1>4

LEMMA StepAgrees ==
  ASSUME Given, SpakeAgrees, [Next]_vars
  PROVE  SpakeAgrees'
<1>1. CASE UNCHANGED vars
  BY <1>1 DEF SpakeAgrees, Is, vars
(* A result of another kind.                                               *)
<1>2. ASSUME NEW kind, UNCHANGED input, input.kind = kind, kind \notin {"points", "spake"}
      PROVE  SpakeAgrees'
  <2>1. input'.kind \notin {"points", "spake"}
    BY <1>2
  <2> QED BY <2>1 DEF SpakeAgrees, Is
<1>3. CASE RefusePayload
  BY <1>2, <1>3 DEF RefusePayload, Returns, Computes
<1>4. CASE Divide
  BY <1>2, <1>4 DEF Divide, Computes
<1>5. CASE Draw
  BY <1>2, <1>5 DEF Draw, Returns, Computes
<1>6. CASE DrawLetters
  BY <1>2, <1>6 DEF DrawLetters, Returns, Computes
<1>7. CASE PlaceImage
  BY <1>2, <1>7 DEF PlaceImage, Returns, Computes
<1>8. CASE EncodeName
  BY <1>2, <1>8 DEF EncodeName, Returns, Computes
<1>9. CASE DecodeName
  BY <1>2, <1>9 DEF DecodeName, Returns, Computes
<1>10. CASE ReadPacketOfDiscovery
  BY <1>2, <1>10 DEF ReadPacketOfDiscovery, Returns, Computes
<1>11. CASE ComputeElements
  BY <1>2, <1>11 DEF ComputeElements, Returns, Computes
<1>12. CASE EncodeElement
  BY <1>2, <1>12 DEF EncodeElement, Returns, Computes
<1>13. CASE ComputeScalars
  BY <1>2, <1>13 DEF ComputeScalars, Returns, Computes
<1>14. CASE Reduce3
  BY <1>2, <1>14 DEF Reduce3, Returns, Computes
<1>15. CASE ComputePoints
  <2>1. PointsAgree(input.p, input.q, output.value)'
    BY <1>15, PointsArePlain
  <2>2. input'.kind = "points"
    BY <1>15 DEF ComputePoints, Returns, Computes
  <2> QED BY <2>1, <2>2 DEF SpakeAgrees, Is
<1>16. CASE Agree
  <2>1. Met'
    BY <1>16, AgreeMeets
  <2>2. input'.kind = "spake"
    BY <1>16 DEF Agree, Returns, Computes
  <2> QED BY <2>1, <2>2 DEF SpakeAgrees, Is, Met
<1> QED BY <1>1, <1>3, <1>4, <1>5, <1>6, <1>7, <1>8, <1>9, <1>10, <1>11, <1>12, <1>13, <1>14, <1>15, <1>16
        DEF Next

(* Over every prime field and every curve of this form: two ends of SPAKE2 *)
(* reach the same key exactly if they were given the same password, what a *)
(* point is decoded, encoded and added to is what the curve says, and a    *)
(* message is refused only if it is no point.                              *)
THEOREM SpakeHolds == Spec => []SpakeAgrees
<1>1. Init => Given /\ SpakeAgrees
  <2> SUFFICES ASSUME Init PROVE Given /\ SpakeAgrees
    OBVIOUS
  <2>1. Given /\ output = Nothing
    BY InitGives
  <2>2. ~output.done
    BY <2>1 DEF Nothing
  <2> QED BY <2>1, <2>2 DEF SpakeAgrees, Is
<1>2. Given /\ SpakeAgrees /\ [Next]_vars => (Given /\ SpakeAgrees)'
  <2> SUFFICES ASSUME Given, SpakeAgrees, [Next]_vars PROVE (Given /\ SpakeAgrees)'
    OBVIOUS
  <2>1. Given'
    BY StepGives
  <2>2. SpakeAgrees'
    BY StepAgrees
  <2> QED BY <2>1, <2>2
<1> QED BY <1>1, <1>2, PTL DEF Spec

(* A result of names, of which NamesDecode speaks.                         *)
Survives ==
  LET labels == Meant(input.labels)
      query == output.value.query
  IN IF ~IsMeant(labels) THEN output.value = [encoded |-> <<>>, query |-> <<>>]
     ELSE /\ decodeDNSName(output.value.encoded, 0)
               = [ok |-> TRUE, name |-> JoinLabels(labels), next |-> Len(output.value.encoded)]
          /\ decodeDNSName(query, 12)
               = [ok |-> TRUE, name |-> JoinLabels(labels), next |-> Len(query) - 4]

LEMMA NameSurvives ==
  ASSUME Given, EncodeName
  PROVE  Survives'
<1> DEFINE labels == input.labels  name == JoinLabels(labels)  e == encodeDNSName(name)
           id == <<0, 7>>  q == buildMDNSQuery(id, name)  ls == Meant(labels)
           r == [encoded |-> e, query |-> q]
<1>1. input.kind = "name" /\ input' = input /\ output' = Result(r)
  BY DEF EncodeName, Returns, Computes
<1>2. labels \in Seq(Seq((0 .. 255) \ {Dot})) /\ labels # <<>>
  BY <1>1, InputsAssumption DEF Given
<1>3. id \in Seq(0 .. 255) /\ Len(id) = 2
  OBVIOUS
<1> HIDE DEF id
<1>4. IF ~IsMeant(ls) THEN e = <<>> /\ q = <<>>
      ELSE /\ decodeDNSName(e, 0) = [ok |-> TRUE, name |-> JoinLabels(ls), next |-> Len(e)]
           /\ decodeDNSName(q, 12) = [ok |-> TRUE, name |-> JoinLabels(ls), next |-> Len(q) - 4]
  <2> HIDE DEF labels
  <2> QED BY <1>2, <1>3, NamesSurvive
<1> HIDE DEF e, q
<1>5. output'.value = r /\ output'.value.encoded = e /\ output'.value.query = q /\ input'.labels = labels
  BY <1>1 DEF Result
<1> QED BY <1>4, <1>5 DEF Survives

LEMMA MessageDecodes ==
  ASSUME Given, DecodeName
  PROVE  (output.value = NameOf(PathFrom(input.msg, 0)))'
<1> DEFINE msg == input.msg  r == decodeDNSName(msg, 0)
<1>1. input.kind = "message" /\ input' = input /\ output' = Result(r)
  BY DEF DecodeName, Returns, Computes
<1>2. msg \in Seq(0 .. 255) /\ 0 \in Nat
  BY <1>1, InputsAssumption DEF Given
<1> HIDE DEF msg
<1>3. r = NameOf(PathFrom(msg, 0))
  BY <1>2, MessagesDecode
<1> HIDE DEF r
<1>4. output'.value = r /\ input'.msg = msg
  BY <1>1 DEF Result, msg
<1> QED BY <1>3, <1>4

LEMMA StepDecodes ==
  ASSUME Given, NamesDecode, [Next]_vars
  PROVE  NamesDecode'
<1>1. CASE UNCHANGED vars
  BY <1>1 DEF NamesDecode, Is, vars
(* A result of another kind.                                               *)
<1>2. ASSUME NEW kind, UNCHANGED input, input.kind = kind, kind \notin {"name", "message"}
      PROVE  NamesDecode'
  <2>1. input'.kind \notin {"name", "message"}
    BY <1>2
  <2> QED BY <2>1 DEF NamesDecode, Is
<1>3. CASE RefusePayload
  BY <1>2, <1>3 DEF RefusePayload, Returns, Computes
<1>4. CASE Divide
  BY <1>2, <1>4 DEF Divide, Computes
<1>5. CASE Draw
  BY <1>2, <1>5 DEF Draw, Returns, Computes
<1>6. CASE DrawLetters
  BY <1>2, <1>6 DEF DrawLetters, Returns, Computes
<1>7. CASE PlaceImage
  BY <1>2, <1>7 DEF PlaceImage, Returns, Computes
<1>8. CASE EncodeName
  <2>1. Survives'
    BY <1>8, NameSurvives
  <2>2. input'.kind = "name"
    BY <1>8 DEF EncodeName, Returns, Computes
  <2> QED BY <2>1, <2>2 DEF NamesDecode, Is, Survives
<1>9. CASE DecodeName
  <2>1. (output.value = NameOf(PathFrom(input.msg, 0)))'
    BY <1>9, MessageDecodes
  <2>2. input'.kind = "message"
    BY <1>9 DEF DecodeName, Returns, Computes
  <2> QED BY <2>1, <2>2 DEF NamesDecode, Is
<1>10. CASE ReadPacketOfDiscovery
  BY <1>2, <1>10 DEF ReadPacketOfDiscovery, Returns, Computes
<1>11. CASE ComputeElements
  BY <1>2, <1>11 DEF ComputeElements, Returns, Computes
<1>12. CASE EncodeElement
  BY <1>2, <1>12 DEF EncodeElement, Returns, Computes
<1>13. CASE ComputeScalars
  BY <1>2, <1>13 DEF ComputeScalars, Returns, Computes
<1>14. CASE Reduce3
  BY <1>2, <1>14 DEF Reduce3, Returns, Computes
<1>15. CASE ComputePoints
  BY <1>2, <1>15 DEF ComputePoints, Returns, Computes
<1>16. CASE Agree
  BY <1>2, <1>16 DEF Agree, Returns, Computes
<1> QED BY <1>1, <1>3, <1>4, <1>5, <1>6, <1>7, <1>8, <1>9, <1>10, <1>11, <1>12, <1>13, <1>14, <1>15, <1>16
        DEF Next

(* Whatever names and messages are given: names with labels of 1 to 63     *)
(* bytes, and no others, are encoded and come back, and a decoder finds    *)
(* what the paths of a message lead to.                                    *)
THEOREM NamesHold == Spec => []NamesDecode
<1>1. Init => Given /\ NamesDecode
  <2> SUFFICES ASSUME Init PROVE Given /\ NamesDecode
    OBVIOUS
  <2>1. Given /\ output = Nothing
    BY InitGives
  <2>2. ~output.done
    BY <2>1 DEF Nothing
  <2> QED BY <2>1, <2>2 DEF NamesDecode, Is
<1>2. Given /\ NamesDecode /\ [Next]_vars => (Given /\ NamesDecode)'
  <2> SUFFICES ASSUME Given, NamesDecode, [Next]_vars PROVE (Given /\ NamesDecode)'
    OBVIOUS
  <2>1. Given'
    BY StepGives
  <2>2. NamesDecode'
    BY StepDecodes
  <2> QED BY <2>1, <2>2
<1> QED BY <1>1, <1>2, PTL DEF Spec
=============================================================================
