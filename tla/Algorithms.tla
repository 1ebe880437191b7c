----------------------------- MODULE Algorithms -----------------------------
(***************************************************************************)
(* The pure computations of the library, each run on a given input: the    *)
(* QR code, the names and records of discovery, the arithmetic of the      *)
(* field and of the scalars, and SPAKE2.  The properties compare each      *)
(* result with a definition that owes nothing to the code's algorithm.     *)
(***************************************************************************)
EXTENDS QrCode, QrReader, DnsNames, FieldElement, FieldEncoding, ScalarWords, Spake2

CONSTANTS
  Payloads,             \* of a symbol, as sequences of bytes
  Alphabets, Sizes,     \* of a random text, and of an image
  NamesGiven,           \* sequences of labels
  Messages,             \* sequences of bytes
  Packets,              \* packets of discovery, and what they say
  Elements, Encodings,  \* of the field: limbs, and sets of bits
  Numbers, Thirds,      \* scalars, and thirds of uniform strings
  PointEncodings, Addends, Hashes, Randoms

ASSUME InputsAssumption ==
  /\ \A ls \in NamesGiven : ls \in Seq(Seq((0 .. 255) \ {Dot})) /\ ls # <<>>
  /\ \A m \in Messages : m \in Seq(0 .. 255)
  /\ \A v \in Elements : Full(v)
  /\ Encodings \subseteq SUBSET (0 .. 255)
  /\ Numbers \subseteq 0 .. ModulusValue - 1 /\ Thirds \subseteq 0 .. Radix - 1
  /\ (PointEncodings \cup Addends) \subseteq 0 .. 2 * SignBit - 1
  /\ \A e \in Addends : SetPointBytes(e) # NotAPoint
  /\ (Hashes \cup Randoms) \subseteq Nat

VARIABLES
  input,                \* what is computed, and from what
  work,                 \* the codewords so far of a symbol
  output                \* the result

vars == <<input, work, output>>

Nothing == [done |-> FALSE]
Result(v) == [done |-> TRUE, value |-> v]
Idle == [next |-> 0, res |-> <<>>]

Init ==
  /\ work = Idle /\ output = Nothing
  /\ \/ \E p \in Payloads : input = [kind |-> "symbol", payload |-> p]
     \/ \E n \in Alphabets : input = [kind |-> "text", alphabet |-> n]
     \/ \E n \in Sizes : input = [kind |-> "image", size |-> n]
     \/ \E n \in NamesGiven : input = [kind |-> "name", labels |-> n]
     \/ \E m \in Messages : input = [kind |-> "message", msg |-> m]
     \/ \E p \in Packets : \E n \in 0 .. Len(p.msg) : input = [kind |-> "packet", packet |-> p, length |-> n]
     \/ \E a, b \in Elements : input = [kind |-> "elements", a |-> a, b |-> b]
     \/ \E x \in Encodings : input = [kind |-> "encoding", bits |-> x]
     \/ \E a, b \in Numbers : input = [kind |-> "scalars", a |-> WordsOf(a), b |-> WordsOf(b)]
     \/ \E a, b, c \in Thirds : input = [kind |-> "uniform", a |-> a, b |-> b, c |-> c]
     \/ \E e \in PointEncodings, f \in Addends : input = [kind |-> "points", p |-> e, q |-> f]
     \/ \E h, g \in Hashes, r, s \in Randoms :
          input = [kind |-> "spake", hashes |-> <<h, g>>, randoms |-> <<r, s>>]

Computes(kind) == input.kind = kind /\ ~output.done /\ UNCHANGED input
Returns(kind, v) == Computes(kind) /\ output' = Result(v) /\ UNCHANGED work

----------------------------------------------------------------------------
(* encodeQR5L: the error, or the data codewords, the division that leaves  *)
(* the codewords of correction, and the matrix.                            *)
RefusePayload ==
  /\ Returns("symbol", [ok |-> FALSE])
  /\ TooLong(input.payload)

Divide ==
  /\ Computes("symbol") /\ ~TooLong(input.payload)
  /\ work.next < DataCodewords
  /\ LET data == IF work.next = 0 THEN dataCodewords(input.payload) ELSE work.data
         res == IF work.next = 0 THEN NoRemainder ELSE work.res
     IN work' = [next |-> work.next + 1, data |-> data,
                 res |-> qrRSRemainder(res, data[work.next + 1], Divisor)]
  /\ UNCHANGED output

Draw ==
  /\ work.next = DataCodewords
  /\ Returns("symbol", [ok |-> TRUE, matrix |-> Matrix(work.data \o work.res)])

----------------------------------------------------------------------------
DrawLetters ==
  Returns("text", randomText(input.alphabet, [i \in 1 .. 256 |-> i - 1]))

Corners == {0, QrSize} \X {0, QrSize}
PlaceImage ==
  Returns("image", LET size == ImageSize(input.size)
                   IN [size |-> size, png |-> [c \in Corners |-> Drawn(size, c)],
                       svg |-> [c \in Corners |-> SVG(input.size, c)]])

EncodeName ==
  Returns("name", LET name == JoinLabels(input.labels)
                  IN [encoded |-> encodeDNSName(name), query |-> buildMDNSQuery(<<0, 7>>, name)])

DecodeName == Returns("message", decodeDNSName(input.msg, 0))

ReadPacketOfDiscovery ==
  Returns("packet", addPacketTo(NoRecords(input.packet.service), SubSeq(input.packet.msg, 1, input.length)))

ComputeElements ==
  LET a == input.a  b == input.b
  IN Returns("elements",
       [sum |-> feAdd(a, b), difference |-> feSubtract(a, b), product |-> feMul(a, b),
        square |-> feSquare(a), negated |-> feNegate(a), reduced |-> reduce(a)])

EncodeElement ==
  Returns("encoding", LET limbs == feSetBytes(input.bits)
                          words == [i \in 1 .. 4 |-> {k \in 0 .. 63 : 64 * (i - 1) + k \in input.bits}]
                      IN [limbs |-> limbs, bytes |-> feBytes(limbs),
                          scalar |-> fiatScalarToBytes(words),
                          words |-> fiatScalarFromBytes(fiatScalarToBytes(words)), given |-> words])

ComputeScalars ==
  LET a == input.a  b == input.b
  IN Returns("scalars",
       [sum |-> fiatScalarAdd(a, b), difference |-> fiatScalarSub(a, b), product |-> fiatScalarMul(a, b),
        opposite |-> fiatScalarOpp(a),
        from |-> fiatScalarFromMontgomery(a), to |-> fiatScalarToMontgomery(a)])

Reduce3 == Returns("uniform", SetUniformBytes(input.a, input.b, input.c))

ComputePoints ==
  LET p == SetPointBytes(input.p)  q == SetPointBytes(input.q)
  IN Returns("points",
       IF p = NotAPoint THEN [ok |-> FALSE]
       ELSE [ok |-> TRUE, point |-> p, bytes |-> PointBytes(p),
             sum |-> AddPoints(p, q), difference |-> SubtractPoints(p, q)])

Agree ==
  LET alice == newSpake2("alice", input.hashes[1], input.randoms[1])
      bob == newSpake2("bob", input.hashes[2], input.randoms[2])
  IN Returns("spake", [keys |-> <<Finish(alice, bob.myMsg), Finish(bob, alice.myMsg)>>,
                       scalar |-> passwordScalarHack(input.hashes[1] % curveOrder)])

Next ==
  \/ RefusePayload \/ Divide \/ Draw \/ DrawLetters \/ PlaceImage
  \/ EncodeName \/ DecodeName \/ ReadPacketOfDiscovery
  \/ ComputeElements \/ EncodeElement \/ ComputeScalars \/ Reduce3
  \/ ComputePoints \/ Agree

Spec == Init /\ [][Next]_vars

Is(kind) == output.done /\ input.kind = kind
=============================================================================
