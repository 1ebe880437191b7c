--------------------------- MODULE AdbConnection ---------------------------
(***************************************************************************)
(* A Connection that is online (connection.go) with its Streams            *)
(* (stream.go): readLoop, the callers of Open, Write, Read and             *)
(* Stream.Close on each stream, Connection.Close, the wire and adbd.       *)
(*                                                                         *)
(* A step is what one goroutine does between two points where another can  *)
(* interfere: a critical section of c.mu or s.mu, a select, one write of a *)
(* packet under writeMu.  In particular the test of c.done in send and the *)
(* write it allows are two steps, and so are readLoop's lookup of a stream *)
(* and what it then does to it.                                            *)
(***************************************************************************)
EXTENDS AdbStream, AdbDevice

CONSTANTS
  Closers,              \* the calls of Stream.Close on one stream
  MaxWrites             \* bound: chunks the host writes on one stream

ASSUME MaxWritesAssumption == MaxWrites \in Nat

VARIABLES
  streams,              \* c.streams: the streams readLoop finds
  closePc,              \* progress of Connection.Close, which runs once
  rlPc, rlPkt,          \* readLoop, and the packet it is handling
  op,                   \* the call of Open for each stream
  wr, left,             \* the writer of each stream, chunks left to write
  cl,                   \* the calls of Stream.Close
  wsent,                \* history: WRTE packets written
  confirmed,            \* history: the last chunk counted as written
  abandoned             \* history: writes given up with a chunk in flight

connVars == <<streams, closePc>>
loopVars == <<rlPc, rlPkt>>
writeVars == <<wr, left, wsent, confirmed, abandoned>>
callVars == <<op, cl, writeVars>>
vars == <<wireVars, streamVars, devVars, connVars, loopVars, callVars>>

NoPacket == [command |-> "none"]

ClosePcs == {"open", "closeSocket", "sweep", "closed"}
LoopPcs == {"read", "okay", "deliver", "ackCheck", "ackWrite", "finish",
            "close", "closing", "exit"}
OpenPcs == {"idle", "check", "write", "unregister", "wait", "cancel", "ok",
            "failedSend", "failedEnd", "failedConn", "failedCtx"}
WriterPcs == {"idle", "check", "write", "wait"}
CloserPcs == {"idle", "check", "write", "remove", "finish", "done"}

ConnDone == closePc # "open"                        \* c.done is closed
SocketClosed == closePc \in {"sweep", "closed"}     \* c.conn.Close returned

ConnTypeOK ==
  /\ streams \subseteq Streams
  /\ closePc \in ClosePcs
  /\ rlPc \in LoopPcs
  /\ rlPkt \in Packets \cup {NoPacket}
  /\ rlPc \in {"okay", "deliver", "ackCheck", "ackWrite", "finish"}
       => rlPkt \in Packets
  /\ op \in [Streams -> OpenPcs]
  /\ wr \in [Streams -> WriterPcs]
  /\ left \in [Streams -> Nat]
  /\ cl \in [Streams -> [Closers -> CloserPcs]]
  /\ wsent \in [Streams -> Nat]
  /\ confirmed \in [Streams -> Nat]
  /\ abandoned \in [Streams -> Nat]

TypeOK == WireTypeOK /\ StreamTypeOK /\ DeviceTypeOK /\ ConnTypeOK

Init ==
  /\ WireInit
  /\ StreamInit
  /\ DeviceInit
  /\ streams = {}
  /\ closePc = "open"
  /\ rlPc = "read"
  /\ rlPkt = NoPacket
  /\ op = [s \in Streams |-> "idle"]
  /\ wr = [s \in Streams |-> "idle"]
  /\ left = [s \in Streams |-> 0]
  /\ cl = [s \in Streams |-> [c \in Closers |-> "idle"]]
  /\ wsent = [s \in Streams |-> 0]
  /\ confirmed = [s \in Streams |-> 0]
  /\ abandoned = [s \in Streams |-> 0]

(* The application holds the stream from the return of Open on.            *)
Held(s) == op[s] = "ok"

----------------------------------------------------------------------------
(* Connection.Open *)

OpenGoes(s, from, to) ==
  /\ op[s] = from
  /\ op' = [op EXCEPT ![s] = to]
  /\ UNCHANGED <<devVars, closePc, loopVars, writeVars>>

OpenStart(s) ==
  /\ OpenGoes(s, "idle", "check")
  /\ streams' = streams \cup {s}
  /\ UNCHANGED <<wireVars, streamVars, cl>>

OpenOnly(s, from, to) ==
  /\ OpenGoes(s, from, to)
  /\ UNCHANGED <<wireVars, streamVars, streams, cl>>

(* Faulty: no test of c.done.                                              *)
OpenChecksNothing(s) == OpenOnly(s, "check", "write")

(* send: the test of c.done. *)
OpenCheck(s) ==
  OpenOnly(s, "check", IF ConnDone THEN "unregister" ELSE "write")

OpenWrite(s) ==
  /\ \/ /\ WriteSucceeds(Packet("OPEN", s, 0), SocketClosed)
        /\ OpenGoes(s, "write", "wait")
     \/ /\ WriteFails
        /\ OpenGoes(s, "write", "unregister")
  /\ UNCHANGED <<toHost, linkUp, streamVars, streams, cl>>

OpenUnregister(s) ==
  /\ OpenGoes(s, "unregister", "failedSend")
  /\ streams' = streams \ {s}
  /\ UNCHANGED <<wireVars, streamVars, cl>>

(* The select in Open: s.opened, with s.err() tested after it; c.done;     *)
(* ctx.Done(), which makes Open call Stream.Close.                         *)
OpenOpened(s) ==
  Opened(s) /\ OpenOnly(s, "wait", IF Done(s) THEN "failedEnd" ELSE "ok")

OpenConnDone(s) == ConnDone /\ OpenOnly(s, "wait", "failedConn")

(* Faulty: the device is not told.                                         *)
StartCloseSilently(s, c) ==
  /\ cl[s][c] = "idle"
  /\ cl' = [cl EXCEPT ![s][c] = "remove"]

StartClose(s, c) ==
  /\ cl[s][c] = "idle"
  /\ cl' = [cl EXCEPT ![s][c] = IF hasRemote[s] THEN "check" ELSE "remove"]

OpenCancelled(s, c) ==
  /\ OpenGoes(s, "wait", "cancel")
  /\ StartClose(s, c)
  /\ UNCHANGED <<wireVars, streamVars, streams>>

OpenCancelDone(s) ==
  (\E c \in Closers : cl[s][c] = "done") /\ OpenOnly(s, "cancel", "failedCtx")

----------------------------------------------------------------------------
(* Stream.WriteContext: one writer per stream *)

WriterFrame == UNCHANGED <<streamVars, devVars, connVars, loopVars, op, cl>>

(* s.remoteID is set on every stream that Open returned, so the early      *)
(* return of WriteContext is not reached.                                  *)
WriteStart(s) ==
  /\ Held(s)
  /\ wr[s] = "idle"
  /\ wr' = [wr EXCEPT ![s] = "check"]
  /\ \E n \in 1 .. MaxWrites - wsent[s] : left' = [left EXCEPT ![s] = n]
  /\ UNCHANGED <<wireVars, wsent, confirmed, abandoned>>
  /\ WriterFrame

WriteReturns(s) ==
  /\ wr' = [wr EXCEPT ![s] = "idle"]
  /\ left' = [left EXCEPT ![s] = 0]

WriteCheck(s) ==
  /\ wr[s] = "check"
  /\ IF ConnDone
       THEN WriteReturns(s)
       ELSE wr' = [wr EXCEPT ![s] = "write"] /\ UNCHANGED left
  /\ UNCHANGED <<wireVars, wsent, confirmed, abandoned>>
  /\ WriterFrame

WriteSend(s) ==
  /\ wr[s] = "write"
  /\ \/ /\ WriteSucceeds(Packet("WRTE", s, wsent[s] + 1), SocketClosed)
        /\ wsent' = [wsent EXCEPT ![s] = @ + 1]
        /\ wr' = [wr EXCEPT ![s] = "wait"]
        /\ UNCHANGED left
     \/ /\ WriteFails
        /\ WriteReturns(s)
        /\ UNCHANGED wsent
  /\ UNCHANGED <<toHost, linkUp, confirmed, abandoned>>
  /\ WriterFrame

WriteAcked(s) ==
  /\ wr[s] = "wait"
  /\ ack[s]
  /\ ack' = [ack EXCEPT ![s] = FALSE]
  /\ confirmed' = [confirmed EXCEPT ![s] = wsent[s]]
  /\ IF left[s] > 1
       THEN /\ wr' = [wr EXCEPT ![s] = "check"]
            /\ left' = [left EXCEPT ![s] = @ - 1]
       ELSE WriteReturns(s)
  /\ UNCHANGED <<wireVars, hasRemote, recv, ended, got, eof, devVars>>
  /\ UNCHANGED <<connVars, loopVars, op, cl, wsent, abandoned>>

(* The other cases of the select: the context, s.done and c.done.  The     *)
(* context may end at any moment.                                          *)
WriteGivesUp(s, fired) ==
  /\ wr[s] = "wait"
  /\ fired
  /\ WriteReturns(s)
  /\ abandoned' = [abandoned EXCEPT ![s] = @ + 1]
  /\ UNCHANGED <<wireVars, wsent, confirmed>>
  /\ WriterFrame

WriteCancelled(s) == WriteGivesUp(s, TRUE)

(* Faulty: the select has no case for s.done.                              *)
WriteEndedByConnOnly(s) == WriteGivesUp(s, ConnDone)

WriteEnded(s) == WriteGivesUp(s, Done(s) \/ ConnDone)

----------------------------------------------------------------------------
(* Stream.Read by the holder of the stream *)

Reads(s, step) ==
  /\ Held(s)
  /\ step
  /\ UNCHANGED <<wireVars, devVars, connVars, loopVars, callVars>>

ReadData(s) == Reads(s, ReadReturnsData(s))
ReadError(s) == Reads(s, ReadReturnsError(s))

----------------------------------------------------------------------------
(* Stream.Close, by the holder (any number of times, concurrently) or by   *)
(* an Open whose context ended                                             *)

CloserGoes(s, c, from, to) ==
  /\ cl[s][c] = from
  /\ cl' = [cl EXCEPT ![s][c] = to]
  /\ UNCHANGED <<devVars, closePc, loopVars, op, writeVars>>

CloseStart(s, c) ==
  /\ Held(s)
  /\ StartClose(s, c)
  /\ UNCHANGED <<wireVars, streamVars, devVars, connVars, loopVars>>
  /\ UNCHANGED <<op, writeVars>>

CloseCheck(s, c) ==
  /\ CloserGoes(s, c, "check", IF ConnDone THEN "remove" ELSE "write")
  /\ UNCHANGED <<wireVars, streamVars, streams>>

(* Whether the CLSE could be written is not looked at. *)
CloseWrite(s, c) ==
  /\ CloserGoes(s, c, "write", "remove")
  /\ \/ WriteSucceeds(Packet("CLSE", s, 0), SocketClosed)
     \/ WriteFails
  /\ UNCHANGED <<toHost, linkUp, streamVars, streams>>

CloseRemove(s, c) ==
  /\ CloserGoes(s, c, "remove", "finish")
  /\ streams' = streams \ {s}
  /\ UNCHANGED <<wireVars, streamVars>>

CloseFinish(s, c) ==
  /\ CloserGoes(s, c, "finish", "done")
  /\ finish({s}, "local")
  /\ UNCHANGED <<wireVars, streams>>

----------------------------------------------------------------------------
(* Connection.Close: closeOnce lets one caller through; the application    *)
(* calls it at any time, readLoop when a read fails                        *)

AppClose ==
  /\ closePc = "open"
  /\ closePc' = "closeSocket"
  /\ UNCHANGED <<wireVars, streamVars, devVars, streams, loopVars, callVars>>

CloseSocket ==
  /\ closePc = "closeSocket"
  /\ closePc' = "sweep"
  /\ linkUp' = FALSE
  /\ toDev' = <<>>
  /\ UNCHANGED <<toHost, streamVars, devVars, streams, loopVars, callVars>>

SweepOf(S) ==
  /\ closePc = "sweep"
  /\ closePc' = "closed"
  /\ finish(S, "conn")
  /\ streams' = {}
  /\ UNCHANGED <<wireVars, devVars, loopVars, callVars>>

(* Faulty: an Open that still waits is not told; and the range over        *)
(* c.streams stops after the first stream.                                 *)
SweepOpenedOnly == SweepOf({s \in streams : hasRemote[s]})
SweepFirstOnly == \E s \in Streams : SweepOf({s} \cap streams)

Sweep == SweepOf(streams)

----------------------------------------------------------------------------
(* Connection.readLoop *)

LoopFrame == UNCHANGED <<devVars, closePc, callVars>>

Handlers(clse) ==
  [OKAY |-> "okay", WRTE |-> "deliver", CLSE |-> clse, OPEN |-> "read"]

(* Faulty: on CLSE the stream is removed and not finished.                 *)
HandlerWithoutFinish == Handlers("read")

(* readPacket and the lookup under c.mu, which for a CLSE also removes the *)
(* stream.  A packet for a stream that is not there is dropped.  An adbd   *)
(* never sends OPEN.                                                       *)
Handler == Handlers("finish")

ReadPacket ==
  /\ rlPc = "read"
  /\ toHost # <<>>
  /\ toHost' = Tail(toHost)
  /\ LET p == Head(toHost) IN
       /\ IF p.stream \in streams
            THEN rlPc' = Handler[p.command] /\ rlPkt' = p
            ELSE UNCHANGED loopVars
       /\ streams' = IF p.command = "CLSE" THEN streams \ {p.stream} ELSE streams
  /\ UNCHANGED <<toDev, linkUp, streamVars>>
  /\ LoopFrame

LoopGoes(from, to) ==
  /\ rlPc = from
  /\ rlPc' = to
  /\ rlPkt' = IF to = "read" THEN NoPacket ELSE rlPkt
  /\ UNCHANGED streams
  /\ LoopFrame

HandleOkay ==
  /\ LoopGoes("okay", "read")
  /\ handleOkay(rlPkt.stream)
  /\ UNCHANGED wireVars

(* Faulty: a chunk that deliver dropped is acknowledged too.               *)
DeliverAlwaysAcks ==
  /\ LoopGoes("deliver", "ackCheck")
  /\ deliverQueues(rlPkt.stream, rlPkt.data) \/ deliverDrops(rlPkt.stream)
  /\ UNCHANGED wireVars

Deliver ==
  /\ \/ LoopGoes("deliver", "ackCheck") /\ deliverQueues(rlPkt.stream, rlPkt.data)
     \/ LoopGoes("deliver", "read") /\ deliverDrops(rlPkt.stream)
  /\ UNCHANGED wireVars

AckCheck ==
  /\ LoopGoes("ackCheck", IF ConnDone THEN "read" ELSE "ackWrite")
  /\ UNCHANGED <<wireVars, streamVars>>

AckSend ==
  /\ LoopGoes("ackWrite", "read")
  /\ \/ WriteSucceeds(Packet("OKAY", rlPkt.stream, 0), SocketClosed)
     \/ WriteFails
  /\ UNCHANGED <<toHost, linkUp, streamVars>>

FinishEOF ==
  /\ LoopGoes("finish", "read")
  /\ finish({rlPkt.stream}, "remote")
  /\ UNCHANGED wireVars

(* Over a broken link what the kernel still holds may be lost. *)
FailsTo(next) ==
  /\ ~linkUp
  /\ LoopGoes("read", next)
  /\ toHost' = <<>>
  /\ UNCHANGED <<toDev, linkUp, streamVars>>

(* Faulty: readLoop just returns.                                          *)
ReadFailWithoutClose == FailsTo("exit")

ReadFail == FailsTo("close")

(* c.Close in readLoop; while another caller is inside closeOnce it waits. *)
LoopClose ==
  /\ rlPc = "close"
  /\ rlPc' = "closing"
  /\ closePc' = IF ConnDone THEN closePc ELSE "closeSocket"
  /\ UNCHANGED <<wireVars, streamVars, devVars, streams, rlPkt, callVars>>

LoopExit ==
  /\ closePc = "closed"
  /\ LoopGoes("closing", "exit")
  /\ UNCHANGED <<wireVars, streamVars>>

ReadLoop ==
  \/ ReadPacket \/ HandleOkay \/ Deliver \/ AckCheck \/ AckSend
  \/ FinishEOF \/ ReadFail \/ LoopClose \/ LoopExit

----------------------------------------------------------------------------
(* adbd and the link *)

HostFrame == UNCHANGED <<streamVars, connVars, loopVars, callVars>>

DeviceHandles == \E s \in Streams : DevHandles(s) /\ HostFrame
DeviceWrites(s) == DevWrites(s) /\ HostFrame
DeviceCloses(s) == DevCloses(s) /\ HostFrame
LinkFails == LinkBreaks /\ UNCHANGED devVars /\ HostFrame

----------------------------------------------------------------------------
OpenSteps(s) ==
  \/ OpenCheck(s) \/ OpenWrite(s) \/ OpenUnregister(s)
  \/ OpenOpened(s) \/ OpenConnDone(s) \/ OpenCancelDone(s)

WriteSteps(s) ==
  \/ WriteCheck(s) \/ WriteSend(s) \/ WriteAcked(s) \/ WriteEnded(s)

CloseSteps(s, c) ==
  \/ CloseCheck(s, c) \/ CloseWrite(s, c)
  \/ CloseRemove(s, c) \/ CloseFinish(s, c)

(* Everything has returned: the only state in which nothing may happen.    *)
AllReturned ==
  /\ closePc = "closed"
  /\ rlPc = "exit"
  /\ \A s \in Streams :
       /\ op[s] \in {"ok", "failedSend", "failedEnd", "failedConn", "failedCtx"}
       /\ wr[s] = "idle"
       /\ \A c \in Closers : cl[s][c] \in {"idle", "done"}
  /\ UNCHANGED vars

Next ==
  \/ \E s \in Streams :
       \/ OpenStart(s) \/ OpenSteps(s)
       \/ WriteStart(s) \/ WriteSteps(s) \/ WriteCancelled(s)
       \/ ReadData(s) \/ ReadError(s)
       \/ DeviceWrites(s) \/ DeviceCloses(s)
       \/ \E c \in Closers :
            OpenCancelled(s, c) \/ CloseStart(s, c) \/ CloseSteps(s, c)
  \/ AppClose \/ CloseSocket \/ Sweep
  \/ ReadLoop
  \/ DeviceHandles
  \/ LinkFails
  \/ AllReturned

Spec == Init /\ [][Next]_vars

(* A goroutine of the library that can take a step takes it: the Go        *)
(* scheduler and sync.Mutex starve nobody.  This promises no select case   *)
(* in particular, no call by the application and no cancellation.          *)
HostFairness ==
  /\ WF_vars(ReadLoop)
  /\ WF_vars(CloseSocket)
  /\ WF_vars(Sweep)
  /\ \A s \in Streams :
       /\ WF_vars(OpenSteps(s))
       /\ WF_vars(WriteSteps(s))
       /\ \A c \in Closers : WF_vars(CloseSteps(s, c))

HostSpec == Spec /\ HostFairness

(* What the environment may promise: the holder of a stream keeps reading  *)
(* while there is data; adbd handles what it receives.                     *)
ReaderFairness == \A s \in Streams : WF_vars(ReadData(s))
DeviceFairness == WF_vars(DeviceHandles)
=============================================================================
