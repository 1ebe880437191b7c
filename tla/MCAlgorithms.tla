---------------------------- MODULE MCAlgorithms ----------------------------
(* The inputs TLC runs the algorithms on.                                  *)
EXTENDS AlgorithmProps

(* qr.go *)
SomePayloads == {[i \in 1 .. n |-> (37 * i * i + 11 * n) % 256] : n \in {0, 1, 51, 105, 106, 107}}
SomeSizes == {-1, 0, 1, 44, 45, 46, 89, 90, 91, 511, 512, 600}

(* mdns.go *)
LabelOf(n) == [i \in 1 .. n |-> 97 + (i % 26)]
Labels1 == {LabelOf(n) : n \in {0, 1, 2, 63, 64}}
AtMostOneLong(ls) == \A i, j \in DOMAIN ls : Len(ls[i]) > 2 /\ Len(ls[j]) > 2 => i = j
SomeNames == {ls \in UNION {[1 .. n -> Labels1] : n \in 1 .. 3} : AtMostOneLong(ls)}

SomeBytes == {0, 1, 2, 64, 192}
Pointers(n) == [i \in 1 .. 2 * n |-> IF i % 2 = 1 THEN 192 ELSE i] \o <<1, 97, 0>>
SomeMessages == (UNION {[1 .. n -> SomeBytes] : n \in 0 .. 5}) \cup {Pointers(n) : n \in 14 .. 19}

(* The service is "s", its instance "i.s" on the host "h".                 *)
Service == <<115>>
Header == <<0, 0, 132, 0, 0, 1, 0, 2, 0, 1, 0, 1>>
Question == <<1, 115, 0, 0, 12, 0, 1>>
ToService == <<192, 12>>
Instance == <<1, 105>> \o ToService
Fixed(type, length) == <<0, type, 0, 1, 0, 0, 0, 120, 0, length>>
RecordOf(what) ==
  CASE what = "ptr" -> ToService \o Fixed(12, 4) \o Instance
    [] what = "srv" -> Instance \o Fixed(33, 9) \o <<0, 0, 0, 0, 1, 4, 1, 104, 0>>
    [] what = "txt" -> Instance \o Fixed(16, 3) \o <<2, 118, 49>>
    [] what = "a" -> <<1, 104, 0>> \o Fixed(1, 4) \o <<10, 0, 0, 7>>

PacketOf(order) ==
  LET upto[k \in 0 .. 4] == IF k = 0 THEN Header \o Question ELSE upto[k - 1] \o RecordOf(order[k])
  IN [service |-> Service, full |-> <<105, 46, 115>>, msg |-> upto[4], says |-> order,
      ends |-> [k \in 1 .. 4 |-> Len(upto[k])],
      endpoint |-> [instance |-> <<105>>, host |-> <<104>>, port |-> 260, ip |-> <<10, 0, 0, 7>>,
                    txt |-> <<<<118, 49>>>>]]
SomePackets ==
  {PacketOf(o) : o \in {f \in [1 .. 4 -> {"ptr", "srv", "txt", "a"}] :
                          \A i, j \in 1 .. 4 : f[i] = f[j] => i = j}}

(* internal/edwards25519: limbs at their limits, and values around P, where *)
(* a limb is 0, full, or one bit over.                                     *)
SomeElements ==
  {Element(v[1], v[2], v[3], v[4], v[5]) : v \in [1 .. 5 -> {0, B - 1}]}
    \cup {Element(n, B - 1, B - 1, B - 1, B - 1) : n \in {B - 20, B - 19, B - 18}}
    \cup {Element(26, B, B + 3, B + 1, B + 9), Element(1, 2, 3, 4, 5), Element(7, 60, 0, 33, 62)}
Patterns ==
  {0 .. 255, {}, {k \in 0 .. 255 : k % 3 = 0}, {k \in 0 .. 255 : k % 7 \in {1, 4, 5}}} \cup {{k} : k \in 0 .. 255}
SomeNumbers == {n \in 0 .. ModulusValue - 1 : n % 131 = 7} \cup {0, 1, ModulusValue - 1, W^3 - 1, W^3, W^2}
SomeThirds == {0, 1, 3, 77, 128, 200, 255}

(* Of the curve mod 101 with d = 29: 104 points, 33 has order 13.          *)
AllEncodings == 0 .. 2 * SignBit - 1
SomeAddends == {1, 100, 0, 38, 33, 26, 45, 226}
=============================================================================
