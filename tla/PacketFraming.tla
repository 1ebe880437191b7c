--------------------------- MODULE PacketFraming ---------------------------
(***************************************************************************)
(* How packets share the byte stream of a connection: Connection.send      *)
(* (connection.go:222-231), writePacket and readPacket (packet.go).  A     *)
(* packet is one or two pieces, the 24-byte header and the payload if it   *)
(* has one, each written by a Write of its own.  What keeps the pieces of  *)
(* different goroutines apart is writeMu alone.                            *)
(***************************************************************************)
EXTENDS Naturals, Sequences, SequencesExt

CONSTANTS
  Senders,              \* goroutines that call send
  MaxSends              \* bound: calls of send by each

ASSUME MaxSendsAssumption == MaxSends \in Nat

None == [from |-> "none"]

ASSUME NoneAssumption == None \notin Senders

VARIABLES
  up,                   \* the socket works
  writeMu,              \* who holds writeMu
  pc,                   \* what each sender does
  pkt,                  \* the packet it sends
  sends,                \* its calls of send so far
  wire,                 \* pieces written and not yet read
  pending,              \* readPacket: the header whose payload it waits for
  read,                 \* the packets readPacket returned
  failed                \* readPacket returned an error: readLoop ends

senderVars == <<writeMu, pc, pkt, sends>>
readerVars == <<pending, read, failed>>
vars == <<up, senderVars, wire, readerVars>>

(* Enough to tell packets apart, and whether len(p.data) # 0.              *)
Packets == [from : Senders, number : 1 .. MaxSends, data : BOOLEAN]

Pieces == [packet : Packets, part : {"header", "payload"}]
Piece(p, part) == [packet |-> p, part |-> part]

(* The last piece of a packet completes it. *)
IsLast(x) == x.part = "payload" \/ ~x.packet.data

TypeOK ==
  /\ up \in BOOLEAN
  /\ writeMu \in Senders \cup {None}
  /\ pc \in [Senders -> {"idle", "lock", "header", "payload", "unlock"}]
  /\ pkt \in [Senders -> Packets \cup {None}]
  /\ sends \in [Senders -> 0 .. MaxSends]
  /\ wire \in Seq(Pieces)
  /\ pending \in Packets \cup {None}
  /\ read \in Seq(Packets)
  /\ failed \in BOOLEAN

Init ==
  /\ up = TRUE
  /\ writeMu = None
  /\ pc = [g \in Senders |-> "idle"]
  /\ pkt = [g \in Senders |-> None]
  /\ sends = [g \in Senders |-> 0]
  /\ wire = <<>>
  /\ pending = None
  /\ read = <<>>
  /\ failed = FALSE

----------------------------------------------------------------------------
Call(g) ==
  /\ pc[g] = "idle"
  /\ sends[g] < MaxSends
  /\ pc' = [pc EXCEPT ![g] = "lock"]
  /\ sends' = [sends EXCEPT ![g] = @ + 1]
  /\ \E data \in BOOLEAN :
       pkt' = [pkt EXCEPT ![g] =
                 [from |-> g, number |-> sends[g] + 1, data |-> data]]
  /\ UNCHANGED <<up, writeMu, wire, readerVars>>

LockWhen(g, free) ==
  /\ pc[g] = "lock"
  /\ free
  /\ writeMu' = g
  /\ pc' = [pc EXCEPT ![g] = "header"]
  /\ UNCHANGED <<up, pkt, sends, wire, readerVars>>

(* Faulty: a packet is written without waiting for writeMu.                *)
LockWithoutWaiting(g) == LockWhen(g, TRUE)

Lock(g) == LockWhen(g, writeMu = None)

(* Write of one piece: an error ends writePacket, however much of the      *)
(* packet is out, and every later Write fails too.                         *)
Writes(g, part, next) ==
  /\ pc[g] = part
  /\ \/ /\ up
        /\ wire' = Append(wire, Piece(pkt[g], part))
        /\ pc' = [pc EXCEPT ![g] = next]
     \/ /\ ~up
        /\ pc' = [pc EXCEPT ![g] = "unlock"]
        /\ UNCHANGED wire
  /\ UNCHANGED <<up, writeMu, pkt, sends, readerVars>>

WriteHeader(g) ==
  Writes(g, "header", IF pkt[g].data THEN "payload" ELSE "unlock")

WritePayload(g) == Writes(g, "payload", "unlock")

Unlock(g) ==
  /\ pc[g] = "unlock"
  /\ writeMu' = None
  /\ pc' = [pc EXCEPT ![g] = "idle"]
  /\ pkt' = [pkt EXCEPT ![g] = None]
  /\ UNCHANGED <<up, sends, wire, readerVars>>

----------------------------------------------------------------------------
(* readPacket on the other end.  Bytes that are not the header it expects  *)
(* fail the magic test, bytes that are not the payload of the header it    *)
(* has read fail the checksum, which writePacket always sends.             *)

ReadHeader ==
  /\ ~failed
  /\ pending = None
  /\ wire # <<>>
  /\ wire' = Tail(wire)
  /\ LET x == Head(wire) IN
       IF x.part # "header"
         THEN failed' = TRUE /\ UNCHANGED <<pending, read>>
         ELSE IF x.packet.data
           THEN pending' = x.packet /\ UNCHANGED <<read, failed>>
           ELSE read' = Append(read, x.packet) /\ UNCHANGED <<pending, failed>>
  /\ UNCHANGED <<up, senderVars>>

ReadPayload ==
  /\ ~failed
  /\ pending # None
  /\ wire # <<>>
  /\ wire' = Tail(wire)
  /\ pending' = None
  /\ IF Head(wire) = Piece(pending, "payload")
       THEN read' = Append(read, pending) /\ UNCHANGED failed
       ELSE failed' = TRUE /\ UNCHANGED read
  /\ UNCHANGED <<up, senderVars>>

Break ==
  /\ up
  /\ up' = FALSE
  /\ wire' = <<>>
  /\ UNCHANGED <<senderVars, readerVars>>

Idle ==
  /\ \A g \in Senders : pc[g] = "idle" /\ sends[g] = MaxSends
  /\ wire = <<>>
  /\ UNCHANGED vars

Next ==
  \/ \E g \in Senders :
       Call(g) \/ Lock(g) \/ WriteHeader(g) \/ WritePayload(g) \/ Unlock(g)
  \/ ReadHeader \/ ReadPayload \/ Break
  \/ Idle

Spec == Init /\ [][Next]_vars

----------------------------------------------------------------------------
(* readPacket never meets a piece it does not expect: the magic and        *)
(* checksum tests (packet.go:66, 79) cannot fail because of concurrent     *)
(* senders.                                                                *)
NeverMisframed == ~failed

(* The packets whose last piece is among those of w.                       *)
Completed(w) ==
  LET first[n \in 0 .. Len(w)] ==
        IF n = 0 THEN <<>>
        ELSE IF IsLast(w[n]) THEN Append(first[n - 1], w[n].packet)
        ELSE first[n - 1]
  IN  first[Len(w)]

(* Those whose last piece is out and not yet read.                         *)
Whole == Completed(wire)

Fifo == INSTANCE PacketFifo WITH queue <- Whole, received <- read

(* Packets written by concurrent calls of send travel as if each were      *)
(* written in one step: what AdbWire assumes.                              *)
AtomicPackets == Fifo!Spec
=============================================================================
