------------------------------- MODULE Pairing -------------------------------
(***************************************************************************)
(* Pair (pairing.go:33-135): TLS, one SPAKE2 message each way, one         *)
(* encrypted PeerInfo each way, with the counters of pairCipher            *)
(* (pairing_crypto.go:18-51).  SPAKE2 gives both ends the same key exactly *)
(* if they used the same code (Spake2 says why).  At the other end is the  *)
(* device that shows the code, one with another code, or a program that    *)
(* sends anything, also back what it was sent.                             *)
(***************************************************************************)
EXTENDS Naturals

VARIABLES
  peer,                 \* "none", "device", "otherCode", "stranger"
  ppc,                  \* Pair: "off", "dial", "spake", "info", "ok" or an error
  seqs,                 \* counters of our cipher and of the device's
  toPeer, toUs,         \* the packet on its way in each direction
  dpc,                  \* the device: "spake", "info", "ended"
  stored                \* the key that the device has stored, or "none"

pairVars == <<peer, ppc, seqs, toPeer, toUs, dpc, stored>>

NoPacket == [type |-> "none"]
SpakeFrom(who) == [type |-> "spake", from |-> who]

(* An AES-GCM box; the two ends that used one code have one key.           *)
Box(key, seq, info) == [type |-> "info", key |-> key, seq |-> seq, info |-> info]
OurKey == IF peer = "device" THEN "common" ELSE "ours"
PeerKey == IF peer = "device" THEN "common" ELSE "theirs"

NoSeqs == [enc |-> 0, dec |-> 0, devEnc |-> 0, devDec |-> 0]

PairInit ==
  /\ peer = "none" /\ ppc = "off" /\ dpc = "off" /\ stored = "none"
  /\ seqs = NoSeqs
  /\ toPeer = NoPacket /\ toUs = NoPacket

PairWith(who, pc, dev) ==
  /\ peer' = who /\ ppc' = pc /\ dpc' = dev
  /\ seqs' = NoSeqs
  /\ toPeer' = NoPacket /\ toUs' = NoPacket
  /\ UNCHANGED stored

StartPair(who) == PairWith(who, "dial", "spake")
EndPair == PairWith(peer, ppc, "off")         \* the connection is closed
NoPairing == PairWith("none", "off", "off")

(* Dial, TLS handshake, and our SPAKE2 message.                            *)
DialAndSend ==
  /\ ppc = "dial"
  /\ ppc' = "spake"
  /\ toPeer' = SpakeFrom("us")
  /\ UNCHANGED <<peer, seqs, toUs, dpc, stored>>

(* The peer's message, and our PeerInfo encrypted under the new key.       *)
ReadSpake(publicKey) ==
  /\ ppc = "spake" /\ toUs # NoPacket
  /\ toUs' = NoPacket
  /\ IF toUs.type = "spake"
     THEN /\ ppc' = "info"
          /\ toPeer' = Box(OurKey, seqs.enc, publicKey)
          /\ seqs' = [seqs EXCEPT !.enc = @ + 1]
     ELSE ppc' = "badType" /\ UNCHANGED <<toPeer, seqs>>
  /\ UNCHANGED <<peer, dpc, stored>>

ReadInfoIf(infoIsGuid) ==
  /\ ppc = "info" /\ toUs # NoPacket
  /\ toUs' = NoPacket
  /\ seqs' = IF toUs.type = "info" THEN [seqs EXCEPT !.dec = @ + 1] ELSE seqs
  /\ ppc' = CASE toUs.type # "info" -> "badType"
              [] toUs.type = "info" /\ (toUs.key # OurKey \/ toUs.seq # seqs.dec) -> "badTag"
              [] OTHER -> IF infoIsGuid THEN "ok" ELSE "badInfo"
  /\ UNCHANGED <<peer, toPeer, dpc, stored>>

(* Faulty: the type of the PeerInfo is not looked at.                      *)
ReadAnyInfo == ReadInfoIf(TRUE)

(* The peer's PeerInfo: its tag, its type, a GUID that is not empty.       *)
ReadInfo == ReadInfoIf(toUs.info = "guid")

(* Dial, TLS or the socket fails, or its deadline has passed.              *)
PairFails ==
  /\ ppc \in {"dial", "spake", "info"}
  /\ ppc' = "failed"
  /\ UNCHANGED <<peer, seqs, toPeer, toUs, dpc, stored>>

PairStep(publicKey) == DialAndSend \/ ReadSpake(publicKey) \/ ReadInfo
PairOver == ppc \in {"ok", "badType", "badTag", "badInfo", "failed"}

----------------------------------------------------------------------------
(* External: the peer.                                                     *)

DeviceAnswers ==
  /\ peer \in {"device", "otherCode"} /\ toPeer # NoPacket /\ toUs = NoPacket
  /\ toPeer' = NoPacket
  /\ \/ /\ dpc = "spake" /\ toPeer.type = "spake"
        /\ dpc' = "info" /\ toUs' = SpakeFrom("peer")
        /\ UNCHANGED <<seqs, stored>>
     \/ /\ dpc = "info" /\ toPeer.type = "info"
        /\ dpc' = "ended"
        /\ toUs' = Box(PeerKey, seqs.devEnc, "guid")
        /\ seqs' = [seqs EXCEPT !.devEnc = @ + 1, !.devDec = @ + 1]
        /\ stored' = IF toPeer.key = PeerKey /\ toPeer.seq = seqs.devDec THEN toPeer.info ELSE stored
  /\ UNCHANGED <<peer, ppc>>

StrangerSends ==
  /\ peer = "stranger" /\ toUs = NoPacket
  /\ toUs' \in {SpakeFrom("peer"), Box("theirs", 0, "guid")}
                 \cup (IF toPeer = NoPacket THEN {} ELSE {toPeer})
  /\ UNCHANGED <<peer, ppc, seqs, toPeer, dpc, stored>>

PeerStep == DeviceAnswers \/ StrangerSends
=============================================================================
