--------------------------- MODULE AlgorithmProps ---------------------------
(***************************************************************************)
(* What the results of Algorithms must be.                                 *)
(***************************************************************************)
EXTENDS Algorithms

----------------------------------------------------------------------------
(* Every letter of an alphabet comes from as many bytes as any other.      *)
IsUniform(alphabet, letters) ==
  \A a, b \in 0 .. alphabet - 1 :
    Cardinality({k \in DOMAIN letters : letters[k] = a})
      = Cardinality({k \in DOMAIN letters : letters[k] = b})

(* The symbol is inside the image with a quiet zone of four modules.       *)
HasQuietZone(image) ==
  LET first == image.png[<<0, 0>>]
      last == image.png[<<QrSize, QrSize>>]
      module == (last[1] - first[1]) \div QrSize
  IN /\ module >= 1
     /\ \A i \in 1 .. 2 : /\ last[i] - first[i] = QrSize * module
                          /\ first[i] >= 4 * module /\ last[i] + 4 * module <= image.size
     /\ LET s == image.svg[<<0, 0>>]  t == image.svg[<<QrSize, QrSize>>]
        IN s[1] = 4 * s[3] /\ s[2] = s[1] /\ t[1] + 4 * s[3] = s[4] /\ t[2] = t[1]

(* A camera reads back exactly the payload that was drawn, of any length   *)
(* up to the 106 bytes that fit and no other: the error correction, the    *)
(* format and the place of every module are those of the standard          *)
(* (qr.go:157-338).  The random name and password it carries favour no     *)
(* letter (qr.go:129-153), and it is drawn with its quiet zone             *)
(* (qr.go:40-105).                                                         *)
QrDecodes ==
  /\ Is("symbol") =>
       IF Len(input.payload) > 106 THEN ~output.value.ok
       ELSE output.value.ok /\ Reads(output.value.matrix, input.payload)
  /\ Is("text") => IsUniform(input.alphabet, output.value)
  /\ Is("image") => HasQuietZone(output.value)

----------------------------------------------------------------------------
(* Names as paths: from an offset, over a label or along a pointer.        *)
Paths == [at : Nat, labels : Seq(Seq(Nat)), hops : Nat, next : Nat, over : BOOLEAN]
Start(at) == [at |-> at, labels |-> <<>>, hops |-> 0, next |-> 0, over |-> FALSE]
NoPath == [at |-> 0, labels |-> <<>>, hops |-> 17, next |-> 0, over |-> TRUE]

Along(msg, p) ==
  LET b == ByteAt(msg, p.at)
  IN IF b = 0 THEN [p EXCEPT !.over = TRUE, !.next = IF p.hops = 0 THEN p.at + 1 ELSE @]
     ELSE IF b < 64 /\ p.at + b < Len(msg)
       THEN [p EXCEPT !.at = @ + 1 + b, !.labels = Append(@, SubSeq(msg, p.at + 2, p.at + 1 + b))]
     ELSE IF b >= 192 /\ p.at + 1 < Len(msg) /\ p.hops < 16
       THEN [p EXCEPT !.at = (b - 192) * 256 + msg[p.at + 2], !.hops = @ + 1,
                      !.next = IF p.hops = 0 THEN p.at + 2 ELSE @]
     ELSE NoPath

(* Labels lead forward, and 17 pointers end a path: it is over by then.    *)
Limit(msg) == 17 * (Len(msg) + 1)
PathFrom(msg, at) ==
  LET path[n \in 0 .. Limit(msg)] ==
        [p \in Paths |-> IF n = 0 \/ p.over THEN p ELSE path[n - 1][Along(msg, p)]]
  IN path[Limit(msg)][Start(at)]

NameOf(p) ==
  IF p.over /\ p.hops < 17 THEN [ok |-> TRUE, name |-> JoinLabels(p.labels), next |-> p.next]
  ELSE [ok |-> FALSE]

(* What an encoder may be given: labels of 1 to 63 bytes, and a last dot.  *)
Meant(labels) ==
  IF Len(labels) > 1 /\ labels[Len(labels)] = <<>> THEN SubSeq(labels, 1, Len(labels) - 1) ELSE labels
IsMeant(labels) == \A k \in DOMAIN labels : Len(labels[k]) \in 1 .. 63

(* Names survive the wire: an encoder takes exactly the names whose labels *)
(* have 1 to 63 bytes, of any length in all, and a decoder gives them back,*)
(* alone or inside a query; a decoder follows labels and at most 16        *)
(* pointers, ends on every message, loops of pointers included, and        *)
(* continues behind the first pointer (mdns.go:131-161, 277-324).          *)
NamesDecode ==
  /\ Is("name") =>
       LET labels == Meant(input.labels)
           query == output.value.query
       IN IF ~IsMeant(labels) THEN output.value = [encoded |-> <<>>, query |-> <<>>]
          ELSE /\ decodeDNSName(output.value.encoded, 0)
                    = [ok |-> TRUE, name |-> JoinLabels(labels), next |-> Len(output.value.encoded)]
               /\ decodeDNSName(query, 12)
                    = [ok |-> TRUE, name |-> JoinLabels(labels), next |-> Len(query) - 4]
  /\ Is("message") => output.value = NameOf(PathFrom(input.msg, 0))

(* The records of the packet that are whole in its first n bytes.          *)
Whole(packet, n) == {k \in DOMAIN packet.ends : packet.ends[k] <= n}
Say(packet, n, what) == \E k \in Whole(packet, n) : packet.says[k] = what

(* A packet cut anywhere says what its whole records say, whatever their   *)
(* order, and an endpoint is offered only once its PTR, SRV and address    *)
(* are there (mdns.go:179-266).                                            *)
RecordsAreRead ==
  /\ Is("packet") =>
       LET p == input.packet
           Says(what) == Say(p, input.length, what)
           state == output.value
       IN /\ state.instances = IF Says("ptr") THEN {p.full} ELSE {}
          /\ DOMAIN state.srv = IF Says("srv") THEN {p.full} ELSE {}
          /\ DOMAIN state.txt = IF Says("txt") THEN {p.full} ELSE {}
          /\ DOMAIN state.ips = IF Says("a") THEN {p.endpoint.host} ELSE {}
          /\ endpointsOf(state) =
               IF Says("ptr") /\ Says("srv") /\ Says("a")
               THEN {IF Says("txt") THEN p.endpoint ELSE [p.endpoint EXCEPT !.txt = <<>>]}
               ELSE {}

----------------------------------------------------------------------------
(* Integers mod P, of which a product is taken digit by digit.             *)
ModP(v) == ValueOf(v) % P
SmallTimes(n, x) == (8 * ((x * (n \div 8)) % P) + x * (n % 8)) % P
TimesModP(x, v) ==
  LET Next5(acc, limb) == (SmallTimes(B, acc) + SmallTimes(limb, x)) % P
  IN Next5(Next5(Next5(Next5(Next5(0, v.l4), v.l3), v.l2), v.l1), v.l0)

Limbs(v) == {v.l0, v.l1, v.l2, v.l3, v.l4}
ElementsAgree(a, b, r) ==
  /\ ModP(r.sum) = (ModP(a) + ModP(b)) % P
  /\ ModP(r.difference) = (ModP(a) - ModP(b)) % P
  /\ ModP(r.negated) = (-ModP(a)) % P
  /\ ModP(r.product) = TimesModP(ModP(a), b)
  /\ ModP(r.square) = TimesModP(ModP(a), a)
  /\ \A v \in {r.sum, r.difference, r.negated, r.product, r.square} : Limbs(v) \subseteq Nat
  /\ ValueOf(r.reduced) = ModP(a) /\ Limbs(r.reduced) \subseteq 0 .. B - 1

EncodingsAgree(x, r) ==
  /\ \A i \in 1 .. 5 : r.limbs[i] = {k \in 0 .. 50 : 51 * (i - 1) + k \in x}
  /\ r.bytes = x \ {255}
  /\ \A n \in 0 .. 31 : r.scalar[n] = {b \in 0 .. 7 : 8 * n + b \in x}
  /\ r.words = r.given

(* A Montgomery form is the number times Radix.                            *)
MontgomeryOf(n) == (n * (Radix % ModulusValue)) % ModulusValue
IsScalar(ws) == ws \in [1 .. 4 -> 0 .. W - 1] /\ NumberOf(ws) < ModulusValue

ScalarsAgree(a, b, r) ==
  /\ NumberOf(r.sum) = (a + b) % ModulusValue
  /\ NumberOf(r.difference) = (a - b) % ModulusValue
  /\ NumberOf(r.opposite) = (-a) % ModulusValue
  /\ MontgomeryOf(NumberOf(r.product)) = (a * b) % ModulusValue
  /\ MontgomeryOf(NumberOf(r.from)) = a
  /\ NumberOf(r.to) = MontgomeryOf(a)
  /\ \A k \in DOMAIN r : IsScalar(r[k])

(* The words of the arithmetic stand for the right integers: every carry   *)
(* of the field's limbs (fe_generic.go, fe.go:54-115) and of the           *)
(* Montgomery words (scalar_fiat.go) arrives, no subtraction borrows from  *)
(* nothing, scalars stay below the order, encodings lose no bit            *)
(* (fe.go:198-249, scalar_fiat.go:969-1147), a uniform string is reduced   *)
(* as the integer it is (scalar.go:109-132), and the chains of squarings   *)
(* compute the powers p - 2 and (p - 5) / 8 (fe.go:120-182, 339-387).      *)
ArithmeticIsExact ==
  /\ Is("elements") => ElementsAgree(input.a, input.b, output.value)
  /\ Is("encoding") => EncodingsAgree(input.bits, output.value)
  /\ Is("scalars") => ScalarsAgree(NumberOf(input.a), NumberOf(input.b), output.value)
  /\ Is("uniform") =>
       /\ IsScalar(output.value)
       /\ NumberOf(output.value)
            = MontgomeryOf((input.a + ShortSize * (input.b + ShortSize * input.c)) % ModulusValue)
  /\ Invert = (0 .. 254) \ {2, 4} /\ Pow22523 = (0 .. 251) \ {1}

----------------------------------------------------------------------------
(* The curve in plain coordinates.                                         *)
SquareOf(a) == Multiply(a, a)
IsOnCurve(x, y) ==
  (SquareOf(y) - SquareOf(x)) % Prime = (1 + CurveD * Multiply(SquareOf(x), SquareOf(y))) % Prime

(* r is the sum of (x1, y1) and (x2, y2), by the addition law.             *)
IsSum(r, x1, y1, x2, y2) ==
  LET k == Multiply(CurveD, Multiply(Multiply(x1, x2), Multiply(y1, y2)))
  IN /\ Multiply(r.x, 1 + k) = Multiply((x1 * y2 + y1 * x2) % Prime, r.z)
     /\ Multiply(r.y, (1 - k) % Prime) = Multiply((y1 * y2 + x1 * x2) % Prime, r.z)
     /\ r.z # 0 /\ Multiply(r.x, r.y) = Multiply(r.z, r.t)

PointsAgree(e, f, r) ==
  LET y == (e % SignBit) % Prime
      q == SetPointBytes(f)
  IN IF ~r.ok THEN \A x \in 0 .. Prime - 1 : ~IsOnCurve(x, y)
     ELSE /\ IsOnCurve(r.point.x, y) /\ r.point.y = y /\ r.point.z = 1
          /\ r.point.x # 0 => (r.point.x % 2 = 1 <=> e >= SignBit)
          /\ r.bytes = y + IF r.point.x % 2 = 1 THEN SignBit ELSE 0
          /\ IsSum(r.sum, r.point.x, y, q.x, q.y)
          /\ IsSum(r.difference, r.point.x, y, (-q.x) % Prime, q.y)

(* Two ends that were given the same password derive the same key, and     *)
(* ends with different passwords do not, whatever small-order part the     *)
(* masks M and N have: the password's scalar is made a multiple of 8       *)
(* without changing it modulo the order (spake2.go:37-170).  What they add *)
(* are points of the curve by its addition law, and a message that is no   *)
(* point is refused (edwards25519.go:122-310).                             *)
SpakeAgrees ==
  /\ Is("spake") =>
       LET r == output.value  h == input.hashes
       IN /\ <<>> \notin {r.keys[1], r.keys[2]}
          /\ r.keys[1] = r.keys[2] <=> h[1] = h[2]
          /\ r.scalar % 8 = 0 /\ r.scalar < 8 * curveOrder
          /\ r.scalar % curveOrder = h[1] % curveOrder
  /\ Is("points") => PointsAgree(input.p, input.q, output.value)
=============================================================================
