----------------------------- MODULE AdbStream -----------------------------
(***************************************************************************)
(* The state of a Stream (stream.go) and the methods that touch only that  *)
(* state: handleOkay, deliver, finish and Read.  WriteContext and Close    *)
(* also send packets; they are in module AdbConnection.                    *)
(*                                                                         *)
(* opened and done are channels that are closed once, so they are          *)
(* predicates here: opened is closed by the first handleOkay or by finish, *)
(* done by finish.  finish sets endErr, closes opened and closes done      *)
(* under doneOnce and is one step: whoever sees an earlier part of it      *)
(* cannot tell it from a finish that is complete.                          *)
(***************************************************************************)
EXTENDS AdbWire

CONSTANT RecvCap        \* capacity of recv: 8 in newStream

ASSUME RecvCapAssumption == RecvCap \in Nat \ {0}

VARIABLES
  hasRemote,            \* s.remoteID # 0
  ack,                  \* the one token s.ack can hold is there
  recv,                 \* chunks queued in s.recv
  ended,                \* who ran finish first, "no" while s.done is open
  got,                  \* chunks Read has returned
  eof                   \* Read has returned an error

streamVars == <<hasRemote, ack, recv, ended, got, eof>>

(* "remote": readLoop on CLSE; "local": Stream.Close; "conn": the sweep of *)
(* Connection.Close.  endErr is io.EOF in the first two, ErrClosed in the  *)
(* last.                                                                   *)
Causes == {"remote", "local", "conn"}

Done(s) == ended[s] # "no"
Opened(s) == hasRemote[s] \/ Done(s)

StreamTypeOK ==
  /\ hasRemote \in [Streams -> BOOLEAN]
  /\ ack \in [Streams -> BOOLEAN]
  /\ recv \in [Streams -> Seq(Nat)]
  /\ \A s \in Streams : Len(recv[s]) <= RecvCap
  /\ ended \in [Streams -> Causes \cup {"no"}]
  /\ got \in [Streams -> Seq(Nat)]
  /\ eof \in [Streams -> BOOLEAN]

StreamInit ==
  /\ hasRemote = [s \in Streams |-> FALSE]
  /\ ack = [s \in Streams |-> FALSE]
  /\ recv = [s \in Streams |-> <<>>]
  /\ ended = [s \in Streams |-> "no"]
  /\ got = [s \in Streams |-> <<>>]
  /\ eof = [s \in Streams |-> FALSE]

(* Faulty: the answer to the OPEN is taken for a write token as well.      *)
handleOkayAlwaysAcks(s) ==
  /\ hasRemote' = [hasRemote EXCEPT ![s] = TRUE]
  /\ ack' = [ack EXCEPT ![s] = TRUE]
  /\ UNCHANGED <<recv, ended, got, eof>>

(* The first OKAY answers the OPEN; each later one is a write token, and   *)
(* is dropped when one is already there.                                   *)
handleOkay(s) ==
  /\ hasRemote' = [hasRemote EXCEPT ![s] = TRUE]
  /\ ack' = [ack EXCEPT ![s] = @ \/ hasRemote[s]]
  /\ UNCHANGED <<recv, ended, got, eof>>

(* Faulty: a queue without a bound; data that finds no room is thrown      *)
(* away; a send to recv outside of a select.                               *)
deliverUnbounded(s, n) ==
  /\ recv' = [recv EXCEPT ![s] = Append(@, n)]
  /\ UNCHANGED <<hasRemote, ack, ended, got, eof>>
deliverDropsWhenFull(s) ==
  (Done(s) \/ Len(recv[s]) = RecvCap) /\ UNCHANGED streamVars
deliverNeverDrops(s) == FALSE

(* The two branches of deliver's select; with both ready either is taken.  *)
deliverQueues(s, n) ==
  /\ Len(recv[s]) < RecvCap
  /\ recv' = [recv EXCEPT ![s] = Append(@, n)]
  /\ UNCHANGED <<hasRemote, ack, ended, got, eof>>

deliverDrops(s) == Done(s) /\ UNCHANGED streamVars

(* finish on every stream of S; doneOnce keeps the first cause.            *)
finish(S, cause) ==
  /\ ended' = [s \in Streams |->
                 IF s \in S /\ ended[s] = "no" THEN cause ELSE ended[s]]
  /\ UNCHANGED <<hasRemote, ack, recv, got, eof>>

(* Read returns data whenever some is queued: when the done case of its    *)
(* select is taken, the inner select tries recv again.                     *)
ReadReturnsData(s) ==
  /\ recv[s] # <<>>
  /\ got' = [got EXCEPT ![s] = Append(@, Head(recv[s]))]
  /\ recv' = [recv EXCEPT ![s] = Tail(@)]
  /\ UNCHANGED <<hasRemote, ack, ended, eof>>

(* Faulty: no second look at recv once done is closed.                     *)
ReadReturnsErrorEarly(s) ==
  /\ Done(s)
  /\ ~eof[s]
  /\ eof' = [eof EXCEPT ![s] = TRUE]
  /\ UNCHANGED <<hasRemote, ack, recv, ended, got>>

ReadReturnsError(s) ==
  /\ recv[s] = <<>>
  /\ Done(s)
  /\ ~eof[s]
  /\ eof' = [eof EXCEPT ![s] = TRUE]
  /\ UNCHANGED <<hasRemote, ack, recv, ended, got>>
=============================================================================
