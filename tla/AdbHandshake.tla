---------------------------- MODULE AdbHandshake ----------------------------
(***************************************************************************)
(* DialWithOptions and handshake (connection.go:47-164): how a TCP         *)
(* connection becomes an online Connection.  The peer is an adbd in one of *)
(* three configurations, or some other program that sends any packets in   *)
(* any order.  Each side of the wire holds one packet: whatever else a     *)
(* peer might have sent early it sends when that one is read.              *)
(***************************************************************************)
EXTENDS Naturals, Sequences

CONSTANTS
  AdbMaxPayload,        \* adbMaxPayload: 1 MiB
  Sizes,                \* values a peer may put in arg1 of CNXN
  MaxLayers             \* bound: STLS rounds a peer may ask for

ASSUME SizesAssumption ==
  /\ AdbMaxPayload \in Nat \ {0}
  /\ Sizes \subseteq Nat
  /\ MaxLayers \in Nat

VARIABLES
  opts,                 \* DialOptions
  hasDeadline,          \* ctx carries a deadline: applyContextDeadline
  expired,              \* the deadline of the socket has passed
  linkUp,               \* neither side has closed the socket
  pc,                   \* DialWithOptions
  layers,               \* TLS connections wrapped around the socket
  sentSignature, sentPublic,
  maxPayload,           \* c.maxPayload
  toDev, toHost,        \* packets under way
  peer,                 \* what the peer is
  peerPc,               \* the peer's side of the handshake
  keyKnown,             \* the peer trusts the key, paired or authorized
  authLog               \* history: the AUTH packets the host has sent

clientVars == <<pc, layers, sentSignature, sentPublic, maxPayload, authLog>>
peerVars == <<peer, peerPc, keyKnown>>
contextVars == <<opts, hasDeadline, expired>>
vars == <<clientVars, peerVars, contextVars, linkUp, toDev, toHost>>

(* "open" sends CNXN at once, "auth" asks for a signature, "tls" for STLS. *)
Peers == {"open", "auth", "tls", "other"}
Results == {"online", "protocol", "unauthorized", "key", "io"}
ClientPcs == {"start", "read", "tls"} \cup Results
PeerPcs == {"start", "auth", "tls", "prompt", "online", "refused"}

Msg(command, arg) == [command |-> command, arg |-> arg]
NoMsg == Msg("none", 0)

(* arg0 of AUTH; a token that is no SHA-1 digest has a value of its own.   *)
authToken == 1
authSignature == 2
authPublicKey == 3
shortToken == 4

FromPeer ==
  {Msg("CNXN", n) : n \in Sizes}
    \cup {Msg("STLS", 0), Msg("OPEN", 0)}
    \cup {Msg("AUTH", a) : a \in {authToken, shortToken, authPublicKey}}
FromHost ==
  {Msg("CNXN", AdbMaxPayload), Msg("STLS", 0)}
    \cup {Msg("AUTH", a) : a \in {authSignature, authPublicKey}}

(* maxPayload can always be used as the size of a WRTE. *)
TypeOK ==
  /\ opts \in [LegacyAuth : BOOLEAN, AllowPublicKeyAuth : BOOLEAN]
  /\ hasDeadline \in BOOLEAN
  /\ expired \in BOOLEAN
  /\ linkUp \in BOOLEAN
  /\ pc \in ClientPcs
  /\ layers \in Nat
  /\ sentSignature \in BOOLEAN
  /\ sentPublic \in BOOLEAN
  /\ maxPayload \in 1 .. AdbMaxPayload
  /\ toDev \in FromHost \cup {NoMsg}
  /\ toHost \in FromPeer \cup {NoMsg}
  /\ peer \in Peers
  /\ peerPc \in PeerPcs
  /\ keyKnown \in BOOLEAN
  /\ authLog \in Seq({authSignature, authPublicKey})

Init ==
  /\ opts \in [LegacyAuth : BOOLEAN, AllowPublicKeyAuth : BOOLEAN]
  /\ hasDeadline \in BOOLEAN
  /\ expired = FALSE
  /\ linkUp = TRUE
  /\ pc = "start"
  /\ layers = 0
  /\ sentSignature = FALSE
  /\ sentPublic = FALSE
  /\ maxPayload = AdbMaxPayload
  /\ toDev = NoMsg
  /\ toHost = NoMsg
  /\ peer \in Peers
  /\ peerPc = "start"
  /\ keyKnown \in BOOLEAN
  /\ authLog = <<>>

----------------------------------------------------------------------------
(* The client *)

IoWorks == linkUp /\ ~expired

(* handshake returns an error and DialWithOptions closes the socket.       *)
Fails(result) ==
  /\ pc' = result
  /\ linkUp' = FALSE
  /\ toDev' = NoMsg
  /\ toHost' = NoMsg
  /\ UNCHANGED <<layers, sentSignature, sentPublic, maxPayload, authLog>>
  /\ UNCHANGED <<peerVars, contextVars>>

Writes(m, next) ==
  /\ IoWorks
  /\ toDev = NoMsg
  /\ toDev' = m
  /\ pc' = next
  /\ UNCHANGED <<linkUp, peerVars, contextVars>>

(* DialContext fails: nobody listens, or the context has ended.            *)
DialFails == pc = "start" /\ Fails("io")

SendCNXN ==
  /\ pc = "start"
  /\ Writes(Msg("CNXN", AdbMaxPayload), "read")
  /\ UNCHANGED <<toHost, layers, sentSignature, sentPublic, maxPayload, authLog>>

(* A packet that has arrived can be read although the peer closed the link. *)
Takes(command) ==
  /\ pc = "read"
  /\ ~expired
  /\ toHost.command = command

GoesOnline(size) ==
  /\ Takes("CNXN")
  /\ toHost' = NoMsg
  /\ maxPayload' = size
  /\ pc' = "online"
  /\ UNCHANGED <<layers, sentSignature, sentPublic, authLog, linkUp, toDev>>
  /\ UNCHANGED <<peerVars, contextVars>>

(* Faulty: the advertised size is taken as it is.                          *)
HandleCNXNUnclamped == GoesOnline(toHost.arg)

HandleCNXN ==
  GoesOnline(IF toHost.arg \in 1 .. AdbMaxPayload THEN toHost.arg
                                                  ELSE AdbMaxPayload)

AnswersSTLS(next) ==
  /\ Takes("STLS")
  /\ Writes(Msg("STLS", 0), next)
  /\ toHost' = NoMsg
  /\ UNCHANGED <<layers, sentSignature, sentPublic, maxPayload, authLog>>

(* Faulty: returns without the CNXN that follows the TLS handshake; and    *)
(* follows the peer although LegacyAuth was selected.                      *)
HandleSTLSOnlineAtOnce == ~opts.LegacyAuth /\ AnswersSTLS("online")
HandleSTLSAlways == AnswersSTLS("tls")

HandleSTLS ==
  \/ ~opts.LegacyAuth /\ AnswersSTLS("tls")
  \/ opts.LegacyAuth /\ Takes("STLS") /\ Fails("protocol")

IsToken == toHost.arg \in {authToken, shortToken}

(* A reply to an AUTH token. *)
Answers(kind) ==
  /\ Takes("AUTH")
  /\ opts.LegacyAuth
  /\ IsToken
  /\ Writes(Msg("AUTH", kind), "read")
  /\ toHost' = NoMsg
  /\ authLog' = Append(authLog, kind)
  /\ UNCHANGED <<layers, maxPayload>>

(* Faulty: does not remember that it has signed.                           *)
SendSignatureAgain ==
  /\ toHost.arg = authToken
  /\ Answers(authSignature)
  /\ UNCHANGED <<sentSignature, sentPublic>>

SendSignature ==
  /\ ~sentSignature
  /\ toHost.arg = authToken
  /\ Answers(authSignature)
  /\ sentSignature' = TRUE
  /\ UNCHANGED sentPublic

SendPublicKey ==
  /\ sentSignature
  /\ opts.AllowPublicKeyAuth
  /\ ~sentPublic
  /\ Answers(authPublicKey)
  /\ sentPublic' = TRUE
  /\ UNCHANGED sentSignature

(* Faulty: without AllowPublicKeyAuth a second token goes unanswered.      *)
RefuseAUTHOnlyAfterKey ==
  /\ Takes("AUTH")
  /\ \/ ~opts.LegacyAuth /\ Fails("unauthorized")
     \/ sentPublic /\ Fails("unauthorized")

(* SignADBToken refuses a token that is no SHA-1 digest, PublicKeyADB a    *)
(* key of more than 2048 bits.                                             *)
RefuseAUTH ==
  /\ Takes("AUTH")
  /\ \/ ~opts.LegacyAuth /\ Fails("unauthorized")
     \/ opts.LegacyAuth /\ ~IsToken /\ Fails("protocol")
     \/ /\ opts.LegacyAuth
        /\ IsToken
        /\ \/ ~sentSignature /\ toHost.arg = shortToken /\ Fails("key")
           \/ /\ sentSignature
              /\ IF opts.AllowPublicKeyAuth /\ ~sentPublic
                   THEN Fails("key")
                   ELSE Fails("unauthorized")

HandleOther == Takes("OPEN") /\ Fails("protocol")

(* A read or write fails, before or during any packet.                     *)
IoFailsAt(pcs) == pc \in pcs /\ ~IoWorks /\ Fails("io")

(* Faulty: the TLS handshake runs outside of the deadline.                 *)
IoFailsOutsideTLS == IoFailsAt({"start", "read"})

IoFails == IoFailsAt({"start", "read", "tls"})

Client ==
  \/ DialFails \/ SendCNXN \/ HandleCNXN \/ HandleSTLS
  \/ SendSignature \/ SendPublicKey \/ RefuseAUTH \/ HandleOther
  \/ IoFails

----------------------------------------------------------------------------
(* Client and peer make one TLS handshake.  A peer that does not know the  *)
(* key refuses the certificate; in TLS 1.3 the client learns that only     *)
(* from its next read.                                                     *)

TLSSucceeds ==
  /\ pc = "tls"
  /\ peerPc = "tls"
  /\ IoWorks
  /\ layers < MaxLayers
  /\ pc' = "read"
  /\ layers' = layers + 1
  /\ IF peer = "other"
       THEN peerPc' = "start" /\ UNCHANGED <<linkUp, toHost>>
       ELSE IF keyKnown
         THEN /\ peerPc' = "online"
              /\ \E n \in Sizes : toHost' = Msg("CNXN", n)
              /\ UNCHANGED linkUp
         ELSE /\ peerPc' = "refused"
              /\ linkUp' = FALSE
              /\ UNCHANGED toHost
  /\ UNCHANGED <<sentSignature, sentPublic, maxPayload, authLog>>
  /\ UNCHANGED <<toDev, peer, keyKnown, contextVars>>

(* The peer gives the handshake up; HandshakeContext also does when ctx    *)
(* ends, deadline or not.                                                  *)
TLSFails ==
  /\ pc = "tls"
  /\ Fails("io")

----------------------------------------------------------------------------
(* The peer *)

PeerFrame == UNCHANGED <<clientVars, contextVars, peer, keyKnown>>

PeerReceives(from, m) ==
  /\ linkUp
  /\ peerPc = from
  /\ toDev = m
  /\ toDev' = NoMsg
  /\ toHost = NoMsg
  /\ UNCHANGED linkUp
  /\ PeerFrame

PeerSends(m, next) == toHost' = m /\ peerPc' = next

PeerOnline == \E n \in Sizes : PeerSends(Msg("CNXN", n), "online")

PeerHandlesCNXN ==
  /\ PeerReceives("start", Msg("CNXN", AdbMaxPayload))
  /\ \/ peer = "open" /\ PeerOnline
     \/ peer = "auth" /\ PeerSends(Msg("AUTH", authToken), "auth")
     \/ peer = "tls" /\ PeerSends(Msg("STLS", 0), "start")

PeerHandlesSTLS ==
  /\ PeerReceives("start", Msg("STLS", 0))
  /\ peerPc' = "tls"
  /\ UNCHANGED toHost

PeerChecksSignature ==
  /\ PeerReceives("auth", Msg("AUTH", authSignature))
  /\ IF keyKnown THEN PeerOnline ELSE PeerSends(Msg("AUTH", authToken), "auth")

(* The device asks its user, who allows the key, or refuses, or does       *)
(* nothing at all; only the first is answered.                             *)
PeerPrompts ==
  /\ PeerReceives("auth", Msg("AUTH", authPublicKey))
  /\ peerPc' = "prompt"
  /\ UNCHANGED toHost

UserAllows ==
  /\ linkUp
  /\ peerPc = "prompt"
  /\ PeerOnline
  /\ UNCHANGED <<linkUp, toDev>>
  /\ PeerFrame

OtherPeerSends ==
  /\ peer = "other"
  /\ linkUp
  /\ toHost = NoMsg
  /\ \E m \in FromPeer : toHost' = m
  /\ UNCHANGED <<linkUp, toDev, peerPc>>
  /\ PeerFrame

OtherPeerReceives ==
  /\ peer = "other"
  /\ linkUp
  /\ toDev # NoMsg
  /\ toDev' = NoMsg
  /\ peerPc' = IF toDev.command = "STLS" THEN "tls" ELSE peerPc
  /\ UNCHANGED <<linkUp, toHost>>
  /\ PeerFrame

Adbd == PeerHandlesCNXN \/ PeerHandlesSTLS \/ PeerChecksSignature \/ PeerPrompts

Peer == Adbd \/ UserAllows \/ OtherPeerSends \/ OtherPeerReceives

----------------------------------------------------------------------------
LinkBreaks ==
  /\ linkUp
  /\ linkUp' = FALSE
  /\ toDev' = NoMsg
  /\ UNCHANGED <<toHost, clientVars, peerVars, contextVars>>

(* Only while DialWithOptions runs: SetDeadline(noDeadline) ends it.       *)
DeadlinePasses ==
  /\ hasDeadline
  /\ ~expired
  /\ pc \notin Results
  /\ expired' = TRUE
  /\ UNCHANGED <<opts, hasDeadline, clientVars, peerVars, linkUp, toDev, toHost>>

(* DialWithOptions has returned. *)
Returned == pc \in Results /\ UNCHANGED vars

Next ==
  \/ Client \/ TLSSucceeds \/ TLSFails \/ Peer
  \/ LinkBreaks \/ DeadlinePasses \/ Returned

Spec == Init /\ [][Next]_vars

(* The caller's goroutine runs and time passes.                            *)
ClientFairness == WF_vars(Client) /\ WF_vars(DeadlinePasses)

ClientSpec == Spec /\ ClientFairness

(* What a peer may promise: an adbd answers, and finishes a TLS handshake  *)
(* one way or the other.                                                   *)
PeerFairness == WF_vars(Adbd) /\ WF_vars(TLSSucceeds \/ TLSFails)

----------------------------------------------------------------------------
(* When DialWithOptions returns a Connection, the adbd at the other end    *)
(* takes the host for online too and has seen a key it trusts if it wants  *)
(* one; a failed DialWithOptions leaves no open socket behind              *)
(* (connection.go:64-67).                                                  *)
OnlineTogether ==
  /\ pc = "online" /\ peer # "other" =>
       /\ peerPc = "online"
       /\ peer = "tls" => keyKnown /\ layers = 1
       /\ peer = "auth" => layers = 0 /\ authLog # <<>>
  /\ pc \in Results \ {"online"} => ~linkUp

(* However the peer orders its packets, the private key signs at most one  *)
(* token, and the public key goes out at most once, after a signature was  *)
(* refused and only if the caller allows it (connection.go:128-158).       *)
AuthInOrder ==
  authLog \in {<<>>, <<authSignature>>}
           \cup (IF opts.AllowPublicKeyAuth
                   THEN {<<authSignature, authPublicKey>>} ELSE {})

(* The two modes do not mix: no AUTH packet is ever sent in the default    *)
(* mode or inside TLS, no TLS is started with LegacyAuth                   *)
(* (connection.go:103, 129).                                               *)
ModesDoNotMix ==
  /\ authLog # <<>> => opts.LegacyAuth /\ layers = 0
  /\ layers > 0 \/ pc = "tls" => ~opts.LegacyAuth

(* "LegacyAuth sends the RSA AUTH flow instead of requiring STLS."         *)
(* (connection.go:17): without it a connection is online only inside TLS.  *)
DefaultRequiresSTLS == pc = "online" /\ ~opts.LegacyAuth => layers > 0

(* With a deadline in its context DialWithOptions returns, whatever the    *)
(* peer does or omits to do; against an adbd that answers it returns       *)
(* without one too, unless the device is left waiting for its user.        *)
DialEnds ==
  /\ hasDeadline ~> pc \in Results
  /\ PeerFairness => (peer # "other" ~> pc \in Results \/ peerPc = "prompt")
=============================================================================
