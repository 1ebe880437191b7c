------------------------------- MODULE Spake2 -------------------------------
(***************************************************************************)
(* SPAKE2 (spake2.go): the message of each end, and the key it derives     *)
(* from the other's.  A password hash is an integer; the hash of the       *)
(* transcript is the transcript, and a text that is hashed into it the     *)
(* text.  Scalars are integers, as ScalarWords computes them.              *)
(***************************************************************************)
EXTENDS EdwardsPoint, Sequences

CONSTANTS
  GeneratorBytes, spakeMEncoded, spakeNEncoded,
  curveOrder,           \* the order of the group without its factor 8
  ScalarBits            \* bits of a scalar given to scalarMultArbitrary: 256

TwoTo[n \in 0 .. ScalarBits] == IF n = 0 THEN 1 ELSE 2 * TwoTo[n - 1]

ASSUME SpakeAssumption ==
  /\ curveOrder \in Nat /\ curveOrder % 2 = 1
  /\ ScalarBits \in Nat /\ 8 * curveOrder <= TwoTo[ScalarBits]
  /\ {GeneratorBytes, spakeMEncoded, spakeNEncoded} \subseteq Nat
  /\ NotAPoint \notin {SetPointBytes(e) : e \in {GeneratorBytes, spakeMEncoded, spakeNEncoded}}

(* The multiple of 8 that is n mod the order, by adding the order, twice   *)
(* and four times it where a bit is set.                                   *)
passwordScalarHack(n) ==
  LET a == IF n % 2 = 1 THEN n + curveOrder ELSE n
      b == IF (a \div 2) % 2 = 1 THEN a + 2 * curveOrder ELSE a
  IN IF (b \div 4) % 2 = 1 THEN b + 4 * curveOrder ELSE b

(* Double and add, from the lowest bit, by the whole integer.              *)
scalarMultArbitrary(p, n) ==
  LET After(s) == [result |-> IF s.bits % 2 = 1 THEN AddPoints(s.result, s.addend) ELSE s.result,
                   addend |-> AddPoints(s.addend, s.addend), bits |-> s.bits \div 2]
      state[i \in 0 .. ScalarBits] ==
        IF i = 0 THEN [result |-> Identity, addend |-> p, bits |-> n] ELSE After(state[i - 1])
  IN state[ScalarBits].result

MaskPoint(encoded, passwordHash) ==
  scalarMultArbitrary(SetPointBytes(encoded), passwordScalarHack(passwordHash % curveOrder))

(* random is what rand.Reader gave, 64 bytes.                              *)
newSpake2(role, passwordHash, random) ==
  LET private == 8 * (random % curveOrder)
      p == scalarMultArbitrary(SetPointBytes(GeneratorBytes), private)
      masked == MaskPoint(IF role = "alice" THEN spakeMEncoded ELSE spakeNEncoded, passwordHash)
  IN [role |-> role, passwordHash |-> passwordHash, private |-> private,
      myMsg |-> PointBytes(AddPoints(p, masked)),
      myName |-> IF role = "alice" THEN "client" ELSE "server",
      theirName |-> IF role = "alice" THEN "server" ELSE "client"]

Shared(s, peer, encoded) ==
  PointBytes(scalarMultArbitrary(
    SubtractPoints(peer, MaskPoint(encoded, s.passwordHash)), s.private))

Transcript(s, peerMsg, shared) ==
  (IF s.role = "alice" THEN <<s.myName, s.theirName, s.myMsg, peerMsg>>
                       ELSE <<s.theirName, s.myName, peerMsg, s.myMsg>>)
    \o <<shared, s.passwordHash>>

FinishWith(s, peerMsg, encoded) ==
  LET peer == SetPointBytes(peerMsg)
  IN IF peer = NotAPoint THEN <<>> ELSE Transcript(s, peerMsg, Shared(s, peer, encoded))

(* Faulty: the mask that is taken off is the one that this end put on.     *)
FinishOwnMask(s, peerMsg) ==
  FinishWith(s, peerMsg, IF s.role = "alice" THEN spakeMEncoded ELSE spakeNEncoded)

Finish(s, peerMsg) ==
  FinishWith(s, peerMsg, IF s.role = "alice" THEN spakeNEncoded ELSE spakeMEncoded)
=============================================================================
