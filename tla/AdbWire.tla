------------------------------ MODULE AdbWire ------------------------------
(***************************************************************************)
(* The transport under an ADB connection once the handshake is over: two   *)
(* FIFO directions of whole packets (packet.go).  writePacket and          *)
(* readPacket are atomic here; that writeMu makes concurrent writePacket   *)
(* calls so is what module PacketFraming shows.                            *)
(*                                                                         *)
(* A stream stands for the local id that Open gave it, so the id a packet  *)
(* names is the stream itself; module StreamIds is about the ids.  The     *)
(* data of a WRTE is the number of the chunk, 0 elsewhere.                 *)
(***************************************************************************)
EXTENDS Naturals, Sequences

CONSTANT Streams        \* one element per call of Connection.Open

VARIABLES
  toDev,                \* packets written by the host, not yet handled by adbd
  toHost,               \* packets written by adbd, not yet read by readLoop
  linkUp                \* the TCP (or TLS) connection carries data

wireVars == <<toDev, toHost, linkUp>>

Commands == {"OPEN", "OKAY", "WRTE", "CLSE"}

Packets == [command : Commands, stream : Streams, data : Nat]

Packet(c, s, n) == [command |-> c, stream |-> s, data |-> n]

(* A packet of kind c for stream s is somewhere in the queue q.            *)
Carries(q, c, s) == \E i \in DOMAIN q : q[i].command = c /\ q[i].stream = s

WireTypeOK ==
  /\ toDev \in Seq(Packets)
  /\ toHost \in Seq(Packets)
  /\ linkUp \in BOOLEAN

WireInit ==
  /\ toDev = <<>>
  /\ toHost = <<>>
  /\ linkUp = TRUE

(* writePacket returns nil: the peer will see the packet, unless the link  *)
(* is already gone and the kernel accepted bytes that nobody will read.    *)
WriteSucceeds(p, socketClosed) ==
  /\ ~socketClosed
  /\ toDev' = IF linkUp THEN Append(toDev, p) ELSE toDev

(* writePacket returns an error: only over a broken or closed connection.  *)
WriteFails ==
  /\ ~linkUp
  /\ UNCHANGED toDev

(* The peer resets or ends the connection, or sends bytes that readPacket  *)
(* rejects (packet.go:66-81): nothing the host writes is handled any more. *)
LinkBreaks ==
  /\ linkUp
  /\ linkUp' = FALSE
  /\ toDev' = <<>>
  /\ UNCHANGED toHost
=============================================================================
