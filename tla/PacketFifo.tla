----------------------------- MODULE PacketFifo -----------------------------
(***************************************************************************)
(* One direction of a connection as AdbWire takes it to be: a packet is    *)
(* sent whole, received whole and in the order sent, and what is under way *)
(* is lost when the link breaks.                                           *)
(***************************************************************************)
EXTENDS Sequences

CONSTANT Packets

VARIABLES
  queue,                \* packets sent and not yet received
  received,             \* the packets received
  up                    \* the link works

vars == <<queue, received, up>>

Init == queue = <<>> /\ received = <<>> /\ up = TRUE

Send(p) ==
  /\ up
  /\ queue' = Append(queue, p)
  /\ UNCHANGED <<received, up>>

Receive ==
  /\ queue # <<>>
  /\ received' = Append(received, Head(queue))
  /\ queue' = Tail(queue)
  /\ UNCHANGED up

Break ==
  /\ up
  /\ up' = FALSE
  /\ queue' = <<>>
  /\ UNCHANGED received

Next == (\E p \in Packets : Send(p)) \/ Receive \/ Break

Spec == Init /\ [][Next]_vars
=============================================================================
