------------------------- MODULE AdbHandshakeProofs -------------------------
(***************************************************************************)
(* Proofs about AdbHandshake for every payload limit, every set of         *)
(* advertised sizes and every number of TLS rounds.                        *)
(***************************************************************************)
EXTENDS AdbHandshake, SequenceTheorems, TLAPS

(* What the flags of the loop in handshake say about the AUTH packets sent *)
(* so far.                                                                 *)
AuthSoFar ==
  /\ ~sentSignature => authLog = <<>> /\ ~sentPublic
  /\ sentSignature /\ ~sentPublic => authLog = <<authSignature>>
  /\ sentPublic => /\ sentSignature
                   /\ opts.AllowPublicKeyAuth
                   /\ authLog = <<authSignature, authPublicKey>>

(* What each mode rules out. *)
ModeSoFar ==
  /\ opts.LegacyAuth => layers = 0 /\ pc # "tls"
  /\ ~opts.LegacyAuth => authLog = <<>>

(* With adbd at the other end, where its side of the handshake stands      *)
(* follows from what the client did and what is on the wire: a CNXN comes  *)
(* from an adbd that is online, STLS is used with one that wants it, the   *)
(* one TLS handshake ends adbd's part, an AUTH packet on the wire was sent.*)
InStep ==
  peer # "other" =>
    /\ toHost.command = "CNXN" \/ pc = "online" => peerPc = "online"
    /\ peerPc = "online" /\ peer = "tls" => keyKnown
    /\ peerPc \in {"online", "refused"} /\ peer = "tls" => layers = 1
    /\ peerPc \notin {"online", "refused"} \/ peer # "tls" => layers = 0
    /\ "STLS" \in {toHost.command, toDev.command}
         \/ pc = "tls" \/ peerPc \in {"tls", "refused"} => peer = "tls"
    /\ toDev.command = "AUTH" \/ peerPc = "prompt"
         \/ (peerPc = "online" /\ peer = "auth") => authLog # <<>>
    /\ peerPc \in {"auth", "prompt"} => peer = "auth"

NothingLeftOpen == pc \in Results \ {"online"} => ~linkUp

Agreed == AuthSoFar /\ ModeSoFar /\ InStep /\ NothingLeftOpen

LEMMA AppendIsNotEmpty ==
  ASSUME NEW S, NEW q \in Seq(S), NEW x \in S
  PROVE  Append(q, x) # <<>>
<1>1. Len(Append(q, x)) = Len(q) + 1 /\ Len(q) \in Nat
  OBVIOUS
<1>2. Len(<<>>) = 0
  OBVIOUS
<1> QED
  BY <1>1, <1>2

LEMMA AppendToEmpty == ASSUME NEW x PROVE Append(<<>>, x) = <<x>>
OBVIOUS

LEMMA AppendToOne ==
  ASSUME NEW S, NEW x \in S, NEW y \in S
  PROVE  Append(<<x>>, y) = <<x, y>>
<1>1. <<x>> \in Seq(S) /\ <<x, y>> \in Seq(S)
  OBVIOUS
<1>2. Append(<<x>>, y) \in Seq(S)
  BY <1>1
<1>3. Len(<<x>>) = 1 /\ Len(<<x, y>>) = 2
  OBVIOUS
<1>4. Len(Append(<<x>>, y)) = 2
  BY <1>1, <1>3
<1>5. \A i \in 1 .. 2 : Append(<<x>>, y)[i] = <<x, y>>[i]
  <2>1. Append(<<x>>, y)[1] = x /\ Append(<<x>>, y)[2] = y
    BY <1>1, <1>3
  <2>2. <<x, y>>[1] = x /\ <<x, y>>[2] = y
    OBVIOUS
  <2>3. \A i \in 1 .. 2 : i = 1 \/ i = 2
    OBVIOUS
  <2> QED
    BY <2>1, <2>2, <2>3
<1> QED
  BY <1>1, <1>2, <1>3, <1>4, <1>5, SeqEqual

LEMMA LogIsASequence ==
  ASSUME AuthSoFar
  PROVE  authLog \in Seq({authSignature, authPublicKey})
<1>1. /\ <<>> \in Seq({authSignature, authPublicKey})
      /\ <<authSignature>> \in Seq({authSignature, authPublicKey})
      /\ <<authSignature, authPublicKey>>
           \in Seq({authSignature, authPublicKey})
  OBVIOUS
<1> QED
  BY <1>1 DEF AuthSoFar

LEMMA MsgFields ==
  ASSUME NEW c, NEW a
  PROVE  Msg(c, a).command = c /\ Msg(c, a).arg = a
BY DEF Msg

LEMMA NoMsgIsNoCommand == NoMsg.command = "none"
BY MsgFields DEF NoMsg

----------------------------------------------------------------------------
LEMMA InitAgreed == Init => Agreed
BY NoMsgIsNoCommand
   DEF Init, Agreed, AuthSoFar, ModeSoFar, InStep, NothingLeftOpen, Results

(* A DialWithOptions that fails has nothing to answer for any more.        *)
LEMMA FailureKeepsAgreed ==
  ASSUME Agreed, NEW result \in Results \ {"online"}, Fails(result)
  PROVE  Agreed'
<1> USE DEF Fails, Results
<1>1. AuthSoFar'
  BY DEF Agreed, AuthSoFar, contextVars
<1>2. ModeSoFar'
  BY DEF Agreed, ModeSoFar, contextVars
<1>3. InStep'
  BY NoMsgIsNoCommand DEF Agreed, InStep, peerVars
<1>4. NothingLeftOpen'
  BY DEF NothingLeftOpen
<1> QED
  BY <1>1, <1>2, <1>3, <1>4 DEF Agreed

LEMMA ClientKeepsAgreed ==
  ASSUME Agreed, Client
  PROVE  Agreed'
<1> USE DEF Results
<1>1. CASE \E result \in Results \ {"online"} : Fails(result)
  BY <1>1, FailureKeepsAgreed
<1>2. CASE SendCNXN
  <2> USE <1>2, MsgFields DEF SendCNXN, Writes, contextVars, peerVars
  <2>1. AuthSoFar' /\ ModeSoFar' /\ NothingLeftOpen'
    BY DEF Agreed, AuthSoFar, ModeSoFar, NothingLeftOpen
  <2>2. InStep'
    BY DEF Agreed, InStep
  <2> QED
    BY <2>1, <2>2 DEF Agreed
<1>3. CASE HandleCNXN
  <2> USE <1>3, NoMsgIsNoCommand
          DEF HandleCNXN, GoesOnline, Takes, contextVars, peerVars
  <2>1. AuthSoFar' /\ ModeSoFar' /\ NothingLeftOpen'
    BY DEF Agreed, AuthSoFar, ModeSoFar, NothingLeftOpen
  <2>2. InStep'
    BY DEF Agreed, InStep
  <2> QED
    BY <2>1, <2>2 DEF Agreed
<1>4. CASE ~opts.LegacyAuth /\ AnswersSTLS("tls")
  <2> USE <1>4, NoMsgIsNoCommand, MsgFields
          DEF AnswersSTLS, Takes, Writes, contextVars, peerVars
  <2>1. AuthSoFar' /\ ModeSoFar' /\ NothingLeftOpen'
    BY DEF Agreed, AuthSoFar, ModeSoFar, NothingLeftOpen
  <2>2. InStep'
    BY DEF Agreed, InStep
  <2> QED
    BY <2>1, <2>2 DEF Agreed
<1>5. CASE SendSignature \/ SendPublicKey
  <2> USE DEF Answers, Takes, Writes, contextVars, peerVars
  <2>1. PICK kind \in {authSignature, authPublicKey} : Answers(kind)
    BY <1>5 DEF SendSignature, SendPublicKey
  <2>2. authLog' # <<>>
    BY <2>1, LogIsASequence, AppendIsNotEmpty DEF Agreed
  <2>3. AuthSoFar'
    <3>1. CASE SendSignature
      BY <3>1, AppendToEmpty DEF SendSignature, Agreed, AuthSoFar
    <3>2. CASE SendPublicKey
      <4>1. Append(<<authSignature>>, authPublicKey)
              = <<authSignature, authPublicKey>>
        BY AppendToOne
      <4> QED
        BY <3>2, <4>1 DEF SendPublicKey, Agreed, AuthSoFar
    <3> QED
      BY <1>5, <3>1, <3>2
  <2>4. ModeSoFar' /\ NothingLeftOpen'
    BY <2>1 DEF Agreed, ModeSoFar, NothingLeftOpen
  <2>5. InStep'
    BY <2>1, <2>2, NoMsgIsNoCommand, MsgFields DEF Agreed, InStep
  <2> QED
    BY <2>3, <2>4, <2>5 DEF Agreed
<1>6. HandleSTLS =>
        (~opts.LegacyAuth /\ AnswersSTLS("tls")) \/ Fails("protocol")
  BY DEF HandleSTLS
<1>7. RefuseAUTH =>
        Fails("protocol") \/ Fails("key") \/ Fails("unauthorized")
  BY DEF RefuseAUTH
<1>8. HandleOther \/ DialFails \/ IoFails => Fails("protocol") \/ Fails("io")
  BY DEF HandleOther, DialFails, IoFails, IoFailsAt
<1> QED
  BY <1>1, <1>2, <1>3, <1>4, <1>5, <1>6, <1>7, <1>8 DEF Client

LEMMA TLSKeepsAgreed ==
  ASSUME Agreed, TLSSucceeds \/ TLSFails
  PROVE  Agreed'
<1>1. CASE TLSSucceeds
  <2> USE <1>1 DEF TLSSucceeds, contextVars
  <2>1. AuthSoFar'
    BY DEF Agreed, AuthSoFar
  <2>2. ModeSoFar' /\ NothingLeftOpen'
    BY DEF Agreed, ModeSoFar, NothingLeftOpen, Results
  <2>3. InStep'
    BY MsgFields DEF Agreed, InStep
  <2> QED
    BY <2>1, <2>2, <2>3 DEF Agreed
<1>2. CASE TLSFails
  BY <1>2, FailureKeepsAgreed DEF TLSFails, Results
<1> QED
  BY <1>1, <1>2

LEMMA PeerKeepsAgreed ==
  ASSUME Agreed, Peer
  PROVE  Agreed'
<1> USE DEF PeerFrame, clientVars, contextVars, PeerSends, PeerReceives
<1>1. UNCHANGED <<clientVars, contextVars, linkUp, peer, keyKnown>>
  BY DEF Peer, Adbd, PeerHandlesCNXN, PeerHandlesSTLS, PeerChecksSignature,
         PeerPrompts, UserAllows, OtherPeerSends, OtherPeerReceives
<1>2. AuthSoFar' /\ ModeSoFar' /\ NothingLeftOpen'
  BY <1>1 DEF Agreed, AuthSoFar, ModeSoFar, NothingLeftOpen
<1>3. InStep'
  <2> USE <1>1, NoMsgIsNoCommand, MsgFields DEF Agreed, InStep, PeerOnline
  <2>1. CASE PeerHandlesCNXN
    BY <2>1 DEF PeerHandlesCNXN
  <2>2. CASE PeerHandlesSTLS
    BY <2>2 DEF PeerHandlesSTLS
  <2>3. CASE PeerChecksSignature
    BY <2>3 DEF PeerChecksSignature
  <2>4. CASE PeerPrompts
    BY <2>4 DEF PeerPrompts
  <2>5. CASE UserAllows
    BY <2>5 DEF UserAllows
  <2>6. CASE OtherPeerSends \/ OtherPeerReceives
    BY <2>6 DEF OtherPeerSends, OtherPeerReceives
  <2> QED
    BY <2>1, <2>2, <2>3, <2>4, <2>5, <2>6 DEF Peer, Adbd
<1> QED
  BY <1>2, <1>3 DEF Agreed

LEMMA OutsideKeepsAgreed ==
  ASSUME Agreed, LinkBreaks \/ DeadlinePasses \/ UNCHANGED vars
  PROVE  Agreed'
<1> USE DEF LinkBreaks, DeadlinePasses, vars, clientVars, contextVars, peerVars
<1>1. AuthSoFar'
  BY DEF Agreed, AuthSoFar
<1>2. ModeSoFar' /\ NothingLeftOpen'
  BY DEF Agreed, ModeSoFar, NothingLeftOpen
<1>3. InStep'
  BY NoMsgIsNoCommand DEF Agreed, InStep
<1> QED
  BY <1>1, <1>2, <1>3 DEF Agreed

LEMMA AlwaysAgreed == Spec => []Agreed
<1>1. Init => Agreed
  BY InitAgreed
<1>2. Agreed /\ [Next]_vars => Agreed'
  BY ClientKeepsAgreed, TLSKeepsAgreed, PeerKeepsAgreed, OutsideKeepsAgreed
     DEF Next, Returned
<1> QED
  BY <1>1, <1>2, PTL DEF Spec

(* Whatever packets a peer sends, the key signs at most one token and the  *)
(* public key goes out at most once, after the signature and with leave    *)
(* (connection.go:128-158).                                                *)
THEOREM KeyIsUsedOnce == Spec => []AuthInOrder
<1>1. AuthSoFar => AuthInOrder
  BY DEF AuthSoFar, AuthInOrder
<1> QED
  BY <1>1, AlwaysAgreed, PTL DEF Agreed

(* No AUTH packet outside of LegacyAuth, no TLS within it                  *)
(* (connection.go:103, 129), whatever the peer asks for.                   *)
THEOREM ModesStayApart == Spec => []ModesDoNotMix
<1>1. AuthSoFar /\ ModeSoFar => ModesDoNotMix
  BY DEF AuthSoFar, ModeSoFar, ModesDoNotMix
<1> QED
  BY <1>1, AlwaysAgreed, PTL DEF Agreed

(* A Connection that DialWithOptions returns is online on the side of adbd *)
(* too, through the one handshake its configuration calls for, and a       *)
(* DialWithOptions that fails leaves no socket open.                       *)
THEOREM DialAgrees == Spec => []OnlineTogether
<1>1. Agreed => OnlineTogether
  BY DEF Agreed, InStep, NothingLeftOpen, OnlineTogether
<1> QED
  BY <1>1, AlwaysAgreed, PTL
----------------------------------------------------------------------------
(* Type correctness. *)

LEMMA HostPackets ==
  /\ Msg("CNXN", AdbMaxPayload) \in FromHost /\ Msg("STLS", 0) \in FromHost
  /\ \A a \in {authSignature, authPublicKey} : Msg("AUTH", a) \in FromHost
BY DEF FromHost

LEMMA PeerPackets ==
  /\ \A n \in Sizes : Msg("CNXN", n) \in FromPeer
  /\ Msg("STLS", 0) \in FromPeer /\ Msg("AUTH", authToken) \in FromPeer
BY DEF FromPeer

LEMMA InitTypeOK == Init => TypeOK
<1>1. AdbMaxPayload \in 1 .. AdbMaxPayload
  BY SizesAssumption
<1>2. <<>> \in Seq({authSignature, authPublicKey})
  OBVIOUS
<1>3. "start" \in ClientPcs /\ "start" \in PeerPcs /\ 0 \in Nat
  BY DEF ClientPcs, PeerPcs
<1>4. FALSE \in BOOLEAN /\ TRUE \in BOOLEAN
  OBVIOUS
<1> QED BY <1>1, <1>2, <1>3, <1>4, Zenon DEF Init, TypeOK

LEMMA FailureKeepsTypeOK ==
  ASSUME TypeOK, NEW result \in Results, Fails(result)
  PROVE  TypeOK'
BY DEF TypeOK, Fails, ClientPcs, contextVars, peerVars

LEMMA ClientKeepsTypeOK ==
  ASSUME TypeOK, Client
  PROVE  TypeOK'
<1> USE DEF contextVars, peerVars
<1>1. CASE \E result \in Results : Fails(result)
  BY <1>1, FailureKeepsTypeOK
<1>2. CASE SendCNXN
  BY <1>2, HostPackets DEF SendCNXN, Writes, TypeOK, ClientPcs
<1>3. CASE HandleCNXN
  <2>1. maxPayload' \in 1 .. AdbMaxPayload
    <3>1. AdbMaxPayload \in 1 .. AdbMaxPayload
      BY SizesAssumption
    <3> QED BY <1>3, <3>1 DEF HandleCNXN, GoesOnline
  <2> QED BY <1>3, <2>1 DEF HandleCNXN, GoesOnline, TypeOK, ClientPcs, Results
<1>4. CASE AnswersSTLS("tls")
  BY <1>4, HostPackets DEF AnswersSTLS, Writes, TypeOK, ClientPcs
<1>5. CASE SendSignature \/ SendPublicKey
  <2>1. PICK kind \in {authSignature, authPublicKey} :
          Answers(kind) /\ sentSignature' \in BOOLEAN /\ sentPublic' \in BOOLEAN
    BY <1>5 DEF SendSignature, SendPublicKey, TypeOK
  <2>2. authLog' \in Seq({authSignature, authPublicKey})
    BY <2>1 DEF Answers, TypeOK
  <2> QED BY <2>1, <2>2, HostPackets DEF Answers, Writes, TypeOK, ClientPcs
<1>6. HandleSTLS => AnswersSTLS("tls") \/ Fails("protocol")
  BY DEF HandleSTLS
<1>7. RefuseAUTH => Fails("protocol") \/ Fails("key") \/ Fails("unauthorized")
  BY DEF RefuseAUTH
<1>8. HandleOther \/ DialFails \/ IoFails => Fails("protocol") \/ Fails("io")
  BY DEF HandleOther, DialFails, IoFails, IoFailsAt
<1> QED BY <1>1, <1>2, <1>3, <1>4, <1>5, <1>6, <1>7, <1>8 DEF Client, Results

LEMMA OthersKeepTypeOK ==
  ASSUME TypeOK, \/ TLSSucceeds \/ TLSFails \/ Peer
                 \/ LinkBreaks \/ DeadlinePasses \/ UNCHANGED vars
  PROVE  TypeOK'
<1> USE DEF TypeOK, clientVars, contextVars, peerVars
<1>1. CASE TLSSucceeds
  <2>1. toHost' \in FromPeer \cup {NoMsg}
    BY <1>1, PeerPackets DEF TLSSucceeds
  <2>2. linkUp' \in BOOLEAN /\ peerPc' \in PeerPcs
    BY <1>1 DEF TLSSucceeds, PeerPcs
  <2>3. layers' \in Nat /\ pc' \in ClientPcs
    BY <1>1 DEF TLSSucceeds, ClientPcs
  <2> QED BY <1>1, <2>1, <2>2, <2>3 DEF TLSSucceeds
<1>2. CASE TLSFails
  BY <1>2, FailureKeepsTypeOK DEF TLSFails, Results
<1>3. CASE Peer
  <2> USE PeerPackets DEF PeerFrame, PeerReceives, PeerSends, PeerOnline, PeerPcs
  <2>1. CASE PeerHandlesCNXN
    <3>1. toHost' \in FromPeer /\ peerPc' \in PeerPcs
      BY <2>1 DEF PeerHandlesCNXN
    <3> QED BY <2>1, <3>1 DEF PeerHandlesCNXN
  <2>2. CASE PeerHandlesSTLS \/ PeerPrompts
    BY <2>2 DEF PeerHandlesSTLS, PeerPrompts
  <2>3. CASE PeerChecksSignature
    BY <2>3 DEF PeerChecksSignature
  <2>4. CASE UserAllows
    BY <2>4 DEF UserAllows
  <2>5. CASE OtherPeerSends
    BY <2>5 DEF OtherPeerSends
  <2>6. CASE OtherPeerReceives
    BY <2>6 DEF OtherPeerReceives
  <2> QED BY <1>3, <2>1, <2>2, <2>3, <2>4, <2>5, <2>6 DEF Peer, Adbd
<1>4. CASE LinkBreaks \/ DeadlinePasses \/ UNCHANGED vars
  BY <1>4 DEF LinkBreaks, DeadlinePasses, vars
<1> QED BY <1>1, <1>2, <1>3, <1>4

(* Whatever size a peer advertises, zero and more than readPacket accepts  *)
(* included, the connection's payload limit is one it can send with        *)
(* (connection.go:94-99).                                                  *)
THEOREM LimitIsUsable == Spec => []TypeOK
<1>1. TypeOK /\ [Next]_vars => TypeOK'
  BY ClientKeepsTypeOK, OthersKeepTypeOK DEF Next, Returned
<1> QED BY InitTypeOK, <1>1, PTL DEF Spec

=============================================================================
