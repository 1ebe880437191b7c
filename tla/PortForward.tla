----------------------------- MODULE PortForward -----------------------------
(***************************************************************************)
(* ForwardTCP (conveniences.go:84-145): a listener, an accept loop, a      *)
(* goroutine that closes the listener when fctx ends, and for each accepted*)
(* socket a handler with two copiers, "up" from the socket to a stream and *)
(* "down" the other way.  The handler waits for the first of them only.    *)
(* The stream is what StreamPipe promises; Open is one step, whose return  *)
(* AdbConnection shows.                                                    *)
(***************************************************************************)
EXTENDS Naturals, Sequences

CONSTANTS
  Sockets,              \* connections of host programs to the listener
  Together,             \* bound: the sets of them that are made in one behaviour
  HostChunks,           \* how many chunks the program sends on each
  Endings,              \* bound: how it may end its side, "half" or "closed"
  DevChunks             \* how many chunks a service of the device sends

ASSUME ForwardAssumption ==
  /\ Together \subseteq SUBSET Sockets
  /\ HostChunks \in [Sockets -> Nat]
  /\ DevChunks \in [Sockets -> Nat]
  /\ Endings \in [Sockets -> SUBSET {"half", "closed"}]

VARIABLES
  fctx,                 \* TRUE while fctx has not ended
  listener,             \* "open" or "closed"
  loop,                 \* the accept loop: "accept" or "exited"
  wg,                   \* the wait group's counter
  closer,               \* Forward.Close: "idle", "cancelled", "wait", "returned"
  sock,                 \* the sockets: "none", "queued", "open", "closed"
  prog,                 \* the host program: sent, unread by it, gone
  hand,                 \* the handlers
  up, down, done,       \* the copiers, and the channel they report to
  stream,               \* the streams, with what the service sent and took
  conn                  \* the connection: "up" or "down"

vars == <<fctx, listener, loop, wg, closer, sock, prog, hand, up, down, done, stream, conn>>
forward == <<fctx, listener, loop, wg, closer>>

Init ==
  /\ fctx = TRUE /\ listener = "open" /\ loop = "accept" /\ wg = 1 /\ closer = "idle"
  /\ \E made \in Together : sock = [k \in Sockets |-> IF k \in made THEN "none" ELSE "closed"]
  /\ prog = [k \in Sockets |-> [sent |-> 0, unread |-> 0, out |-> 0, wrote |-> 0, gone |-> "no"]]
  /\ hand = [k \in Sockets |-> "none"]
  /\ up = [k \in Sockets |-> "none"]
  /\ down = [k \in Sockets |-> "none"]
  /\ done = [k \in Sockets |-> <<>>]
  /\ stream = [k \in Sockets |->
       [end |-> "none", put |-> "none", recv |-> 0, sent |-> 0, took |-> 0]]
  /\ conn = "up"

----------------------------------------------------------------------------
(* The forward itself.                                                     *)

CloseListener ==
  /\ listener' = "closed"
  /\ sock' = [k \in Sockets |-> IF sock[k] = "queued" THEN "closed" ELSE sock[k]]

CtxEnds ==
  /\ fctx /\ fctx' = FALSE
  /\ UNCHANGED <<listener, loop, wg, closer, sock, prog, hand, up, down, done, stream, conn>>

Watch ==
  /\ ~fctx /\ listener = "open"
  /\ CloseListener
  /\ UNCHANGED <<fctx, loop, wg, closer, prog, hand, up, down, done, stream, conn>>

Accept(k) ==
  /\ loop = "accept" /\ sock[k] = "queued"
  /\ sock' = [sock EXCEPT ![k] = "open"]
  /\ wg' = wg + 1
  /\ hand' = [hand EXCEPT ![k] = "open"]
  /\ UNCHANGED <<fctx, listener, loop, closer, prog, up, down, done, stream, conn>>

(* Accept fails: the listener is closed, or, while it is open, for another *)
(* reason.                                                                 *)
LoopExits ==
  /\ loop = "accept"
  /\ loop' = "exited"
  /\ wg' = wg - 1
  /\ UNCHANGED <<fctx, listener, closer, sock, prog, hand, up, down, done, stream, conn>>

Close ==
  /\ \/ closer = "idle" /\ closer' = "cancelled" /\ fctx' = FALSE /\ UNCHANGED <<listener, sock>>
     \/ closer = "cancelled" /\ closer' = "wait" /\ CloseListener /\ UNCHANGED fctx
     \/ closer = "wait" /\ wg = 0 /\ closer' = "returned" /\ UNCHANGED <<fctx, listener, sock>>
  /\ UNCHANGED <<loop, wg, prog, hand, up, down, done, stream, conn>>

----------------------------------------------------------------------------
(* The handler of one socket.                                              *)

Ended(k) == stream[k].end # "open"
CloseStream(k) == stream' = [stream EXCEPT ![k].end = IF @ = "open" THEN "local" ELSE @]

(* Open fails if fctx has ended, the service is refused or the connection  *)
(* is lost; with an fctx that has ended it may also succeed.               *)
Open(k) ==
  /\ hand[k] = "open"
  /\ \/ /\ conn = "up"
        /\ hand' = [hand EXCEPT ![k] = "wait"]
        /\ stream' = [stream EXCEPT ![k].end = "open"]
        /\ up' = [up EXCEPT ![k] = "read"]
        /\ down' = [down EXCEPT ![k] = "read"]
     \/ hand' = [hand EXCEPT ![k] = "closeSocket"] /\ UNCHANGED <<stream, up, down>>
  /\ UNCHANGED <<forward, sock, prog, done, conn>>

WakesAfter(k, n) ==
  /\ hand[k] = "wait" /\ Len(done[k]) >= n
  /\ hand' = [hand EXCEPT ![k] = "closeStream"]
  /\ UNCHANGED <<forward, sock, prog, up, down, done, stream, conn>>

(* Faulty: the handler waits for both copiers.                             *)
BothDone(k) == WakesAfter(k, 2)

FirstDone(k) == WakesAfter(k, 1)

HandlerSteps(k, closing, leaving) ==
  \/ /\ hand[k] = "closeStream"
     /\ CloseStream(k)
     /\ hand' = [hand EXCEPT ![k] = "closeSocket"]
     /\ UNCHANGED <<forward, sock, prog, up, down, done, conn>>
  \/ /\ hand[k] = closing
     /\ sock' = [sock EXCEPT ![k] = "closed"]
     /\ hand' = [hand EXCEPT ![k] = IF closing = "closeSocket" THEN "leave" ELSE "gone"]
     /\ UNCHANGED <<forward, prog, up, down, done, stream, conn>>
  \/ /\ hand[k] = leaving
     /\ wg' = wg - 1
     /\ hand' = [hand EXCEPT ![k] = IF closing = "closeSocket" THEN "gone" ELSE "leave"]
     /\ UNCHANGED <<fctx, listener, loop, closer, sock, prog, up, down, done, stream, conn>>

(* Faulty: h.Close is deferred before wg.Done and so runs after it.        *)
LeaveEarly(k) == HandlerSteps(k, "leave", "closeSocket")

(* The deferred s.Close, h.Close and wg.Done.                              *)
Leave(k) == HandlerSteps(k, "closeSocket", "leave")

----------------------------------------------------------------------------
(* The copier from the socket to the stream.                               *)

UpGoes(k, pc) == up' = [up EXCEPT ![k] = pc]

UpReads(k) ==
  /\ up[k] = "read"
  /\ \/ /\ sock[k] = "open" /\ prog[k].unread > 0
        /\ UpGoes(k, "write") /\ prog' = [prog EXCEPT ![k].unread = @ - 1]
     \/ /\ sock[k] = "open" /\ prog[k].unread = 0 /\ prog[k].gone # "no"
        /\ UpGoes(k, "eof") /\ UNCHANGED prog
     \/ /\ sock[k] = "closed" \/ prog[k].gone = "closed"      \* a reset
        /\ UpGoes(k, "error") /\ UNCHANGED prog
  /\ UNCHANGED <<forward, sock, hand, down, done, stream, conn>>

UpWrites(k) ==
  /\ up[k] = "write"
  /\ \/ conn = "up" /\ UpGoes(k, "wait") /\ stream' = [stream EXCEPT ![k].put = "sent"]
     \/ conn = "down" /\ UpGoes(k, "error") /\ UNCHANGED stream
  /\ UNCHANGED <<forward, sock, prog, hand, down, done, conn>>

UpWrittenWhen(k, acks) ==
  /\ up[k] = "wait"
  /\ \/ stream[k].put \in acks /\ UpGoes(k, "read")
     \/ Ended(k) /\ UpGoes(k, "error")
  /\ UNCHANGED <<forward, sock, prog, hand, down, done, stream, conn>>

(* Faulty: a write does not wait for its acknowledgement.                  *)
UpWrittenAtOnce(k) == UpWrittenWhen(k, {"sent", "acked"})

(* The select of WriteContext takes either if both are ready.              *)
UpWritten(k) == UpWrittenWhen(k, {"acked"})

(* s.Close, then done <-; the reason stays for the properties.             *)
UpEnds(k) ==
  /\ up[k] \in {"eof", "error"} /\ "up" \notin {done[k][i] : i \in DOMAIN done[k]}
  /\ \/ ~Ended(k) /\ CloseStream(k) /\ UNCHANGED done
     \/ Ended(k) /\ done' = [done EXCEPT ![k] = Append(@, "up")] /\ UNCHANGED stream
  /\ UNCHANGED <<forward, sock, prog, hand, up, down, conn>>

(* The copier from the stream to the socket.                               *)

DownReads(k) ==
  /\ down[k] = "read" /\ stream[k].recv > 0
  /\ down' = [down EXCEPT ![k] = "write"]
  /\ stream' = [stream EXCEPT ![k].recv = @ - 1]
  /\ UNCHANGED <<forward, sock, prog, hand, up, done, conn>>

DownWrites(k) ==
  /\ down[k] = "write" /\ sock[k] = "open" /\ prog[k].out = 0
  /\ down' = [down EXCEPT ![k] = "read"]
  /\ prog' = [prog EXCEPT ![k].out = 1, ![k].wrote = @ + 1]
  /\ UNCHANGED <<forward, sock, hand, up, done, stream, conn>>

DownEndsIf(k, atEnd) ==
  /\ \/ down[k] = "read" /\ Ended(k) /\ atEnd
     \/ down[k] = "write" /\ (sock[k] = "closed" \/ prog[k].gone = "closed")
  /\ down' = [down EXCEPT ![k] = "ended"]
  /\ done' = [done EXCEPT ![k] = Append(@, "down")]
  /\ UNCHANGED <<forward, sock, prog, hand, up, stream, conn>>

(* Faulty: the end of the stream is taken before the data queued in it.    *)
DownEndsEarly(k) == DownEndsIf(k, TRUE)

DownEnds(k) == DownEndsIf(k, stream[k].recv = 0)

HandlerStep(k) == Open(k) \/ FirstDone(k) \/ Leave(k)
UpStep(k) == UpReads(k) \/ UpWrites(k) \/ UpWritten(k) \/ UpEnds(k)
DownStep(k) == DownReads(k) \/ DownWrites(k) \/ DownEnds(k)

----------------------------------------------------------------------------
(* External: the program on the host, the service on the device, the       *)
(* connection to it.                                                       *)

ours == <<forward, hand, up, down, done>>

HostConnects(k) ==
  /\ sock[k] = "none" /\ listener = "open"
  /\ sock' = [sock EXCEPT ![k] = "queued"]
  /\ UNCHANGED <<ours, prog, stream, conn>>

HostSends(k) ==
  /\ sock[k] \in {"queued", "open"} /\ prog[k].gone = "no" /\ prog[k].sent < HostChunks[k]
  /\ prog' = [prog EXCEPT ![k].sent = @ + 1, ![k].unread = @ + 1]
  /\ UNCHANGED <<ours, sock, stream, conn>>

(* It closes one direction or both.                                        *)
HostEnds(k) ==
  /\ sock[k] \in {"queued", "open"} /\ prog[k].gone # "closed"
  /\ \E how \in Endings[k] \ {prog[k].gone} : prog' = [prog EXCEPT ![k].gone = how]
  /\ UNCHANGED <<ours, sock, stream, conn>>

HostReads(k) ==
  /\ prog[k].out > 0
  /\ prog' = [prog EXCEPT ![k].out = 0]
  /\ UNCHANGED <<ours, sock, stream, conn>>

ServiceSends(k) ==
  /\ stream[k].end = "open" /\ stream[k].recv < 2 /\ stream[k].sent < DevChunks[k]
  /\ stream' = [stream EXCEPT ![k].recv = @ + 1, ![k].sent = @ + 1]
  /\ UNCHANGED <<ours, sock, prog, conn>>

ServiceTakes(k) ==
  /\ stream[k].put = "sent" /\ stream[k].end \in {"open", "local"}
  /\ stream' = [stream EXCEPT ![k].put = "acked", ![k].took = @ + 1]
  /\ UNCHANGED <<ours, sock, prog, conn>>

ServiceEnds(k) ==
  /\ stream[k].end = "open"
  /\ stream' = [stream EXCEPT ![k].end = "remote"]
  /\ UNCHANGED <<ours, sock, prog, conn>>

(* The connection is lost, and with it the end of each stream's replies.   *)
ConnEnds ==
  /\ conn = "up" /\ conn' = "down"
  /\ \E kept \in [Sockets -> 0 .. 2] :
       /\ \A k \in Sockets :
            IF stream[k].end = "open" THEN kept[k] <= stream[k].recv ELSE kept[k] = 0
       /\ stream' = [k \in Sockets |->
            IF stream[k].end = "open" THEN [stream[k] EXCEPT !.end = "conn", !.recv = kept[k]]
            ELSE stream[k]]
  /\ UNCHANGED <<ours, sock, prog>>

Environment(k) ==
  \/ HostConnects(k) \/ HostSends(k) \/ HostEnds(k) \/ HostReads(k)
  \/ ServiceSends(k) \/ ServiceTakes(k) \/ ServiceEnds(k)

Next ==
  \/ CtxEnds \/ Watch \/ LoopExits \/ Close \/ ConnEnds
  \/ \E k \in Sockets : Accept(k) \/ HandlerStep(k) \/ UpStep(k) \/ DownStep(k) \/ Environment(k)
  \/ closer = "returned" /\ UNCHANGED vars

(* Goroutines that can run do; nobody has to call Close, and Accept fails  *)
(* for sure only on a closed listener.                                     *)
ForwardFairness ==
  /\ WF_vars(Watch) /\ WF_vars(listener = "closed" /\ LoopExits) /\ WF_vars(closer # "idle" /\ Close)
  /\ \A k \in Sockets :
       WF_vars(Accept(k)) /\ WF_vars(HandlerStep(k)) /\ WF_vars(UpStep(k)) /\ WF_vars(DownStep(k))

Spec == Init /\ [][Next]_vars /\ ForwardFairness

----------------------------------------------------------------------------
(* After Forward.Close has returned nothing of the forward is open any     *)
(* more: no accept loop, no handler, no socket, no stream, although the    *)
(* second copier of a socket is not waited for (conveniences.go:113-125,   *)
(* 137-145).                                                               *)
ClosedIsQuiet ==
  closer = "returned" =>
    /\ loop = "exited"
    /\ \A k \in Sockets :
         /\ hand[k] \in {"none", "gone"}
         /\ sock[k] \in {"none", "closed"}
         /\ stream[k].end # "open"

(* A program that ends its side has its request delivered: when the copier *)
(* met the end of the socket, the service had consumed every chunk, for    *)
(* s.Close follows the acknowledgement of the last (conveniences.go:122).  *)
RequestIsComplete ==
  \A k \in Sockets : up[k] = "eof" => stream[k].took = prog[k].sent

(* A response that the service ends is written to the socket before it is  *)
(* closed, if the copier from the stream reports first                     *)
(* (conveniences.go:122-124).  It need not: a program that half-closes     *)
(* loses the response, and so may one whose last chunk is acknowledged     *)
(* and the stream ended before the other copier runs again.                *)
ResponseIsComplete ==
  \A k \in Sockets :
    /\ sock[k] = "closed" /\ stream[k].end = "remote"
    /\ done[k] # <<>> /\ Head(done[k]) = "down" /\ prog[k].gone # "closed"
    => prog[k].wrote = stream[k].sent

(* The end of either side ends the other and both copiers, as long as the  *)
(* program reads and the service takes what it is sent; and once every     *)
(* socket of a forward being closed has such an end, Close returns.  Close *)
(* itself ends no forwarded connection (conveniences.go:143).              *)
EndsTogether ==
  (\A k \in Sockets : WF_vars(HostReads(k)) /\ WF_vars(ServiceTakes(k))) =>
    /\ \A k \in Sockets :
         /\ hand[k] = "wait" /\ (prog[k].gone # "no" \/ Ended(k)) ~> hand[k] = "gone"
         /\ hand[k] = "gone" /\ Ended(k) /\ up[k] # "none" ~>
              up[k] \in {"eof", "error"} /\ down[k] = "ended"
    /\ (\A k \in Sockets : []<>(hand[k] \in {"none", "gone"}))
         => (closer # "idle" ~> closer = "returned")
=============================================================================
