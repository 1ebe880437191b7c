------------------------- MODULE AdbConnectionProps -------------------------
(***************************************************************************)
(* What must hold of an online connection, whatever the interleaving of    *)
(* its goroutines, adbd and the link.                                      *)
(***************************************************************************)
EXTENDS AdbConnection

(* Some goroutine is about to call finish on s.                            *)
FinishPending(s) ==
  \/ rlPc = "finish" /\ rlPkt.stream = s
  \/ \E c \in Closers : cl[s][c] \in {"remove", "finish"}

(* A stream that an Open waits for or has returned, and that has not ended,*)
(* can always be ended: readLoop and Connection.Close find it in c.streams,*)
(* or a goroutine that took it out (connection.go:178, 213, 246) is about  *)
(* to call finish.  Otherwise its Read or Write would block for ever.      *)
NoOrphanStream ==
  \A s \in Streams :
    op[s] \in {"wait", "cancel", "ok"} /\ ~Done(s)
      => s \in streams \/ FinishPending(s)

(* After Connection.Close has returned nothing is registered except by an  *)
(* Open that has yet to find c.done closed, and nothing held stays open    *)
(* (connection.go:169-182 against 233-246).                                *)
NothingSurvivesClose ==
  closePc = "closed" =>
    \A s \in Streams :
      /\ s \in streams => op[s] \in {"check", "unregister"}
      /\ Held(s) => Done(s) \/ FinishPending(s)

(* readLoop acknowledges a chunk only once deliver queued it               *)
(* (connection.go:205-208): what adbd believes delivered has been read or  *)
(* is still there to be read, even after the stream or the connection      *)
(* ended.                                                                  *)
AcknowledgedDataIsKept ==
  \A s \in Streams : devAcked[s] <= Len(got[s]) + Len(recv[s])

(* A chunk that WriteContext counts as written (stream.go:125-126) was     *)
(* consumed by the service, but for one chunk per earlier write that gave  *)
(* up while its acknowledgement was on the way: that one is then taken for *)
(* the acknowledgement of a later chunk.                                   *)
WrittenMeansConsumed ==
  \A s \in Streams : confirmed[s] <= devGot[s] + abandoned[s]

(* A writer that waits (stream.go:122) is never forgotten: its chunk, the  *)
(* OKAY for it, or the end of the stream is on the way.  An OKAY may be    *)
(* dropped because s.ack is full (stream.go:44), never the last one.       *)
NoLostWakeup ==
  \A s \in Streams :
    wr[s] = "wait" /\ linkUp /\ ~Done(s) /\ ~ack[s] =>
      \/ Carries(toDev, "WRTE", s)
      \/ Carries(toHost, "OKAY", s) \/ Carries(toHost, "CLSE", s)
      \/ rlPc = "okay" /\ rlPkt.stream = s
      \/ FinishPending(s)

(* Stream.Close on a stream the application holds ends the service too, as *)
(* long as there is a link: the CLSE is on the way or was handled          *)
(* (stream.go:139-149).  It is not so for an Open that was cancelled before*)
(* its OKAY: remoteID is still 0, no CLSE is sent and the service stays.   *)
ClosedStreamEndsService ==
  \A s \in Streams :
    Held(s) /\ linkUp /\ ~ConnDone /\ (\E c \in Closers : cl[s][c] = "done")
      => dev[s] = "closed" \/ Carries(toDev, "CLSE", s)

(* The reader's view of every stream is a bounded pipe: StreamPipe.        *)
Pipe == INSTANCE StreamPipe WITH sent <- devSent, Capacity <- RecvCap + 1

DeliversLikeAPipe == Pipe!Spec

(* "Drain data already queued before reporting EOF." (stream.go:80): the   *)
(* end of a stream the device ended is reported, by Open as by Read, only  *)
(* when no data is left in recv.                                           *)
OpenEndMeansDrained ==
  \A s \in Streams :
    op[s] = "failedEnd" /\ ended[s] = "remote" /\ linkUp /\ ~ConnDone
      => recv[s] = <<>>

----------------------------------------------------------------------------
(* Once c.done is closed everybody returns, whatever adbd, the link and    *)
(* the readers do: readLoop exits although it may be blocked in deliver,   *)
(* each blocked Open, Write and Close returns, every held stream ends.     *)
ShutdownReleasesEveryone ==
  /\ ConnDone ~> rlPc = "exit"
  /\ \A s \in Streams :
       /\ ConnDone /\ op[s] = "wait" ~> op[s] # "wait"
       /\ ConnDone /\ wr[s] # "idle" ~> wr[s] = "idle"
       /\ ConnDone /\ Held(s) ~> Done(s)

(* A broken link ends the connection by itself, provided the streams are   *)
(* read: readLoop cannot see the break while it waits in deliver           *)
(* (connection.go:205) for room in the recv of a stream.                   *)
PeerLossIsNoticed == ReaderFairness => (~linkUp ~> closePc = "closed")

(* While the streams are read and adbd answers, every Open and every Write *)
(* returns.                                                                *)
CallsReturn ==
  ReaderFairness /\ DeviceFairness =>
    \A s \in Streams :
      /\ op[s] = "check" ~> op[s] \notin {"check", "write", "wait"}
      /\ wr[s] = "wait" ~> wr[s] # "wait"

(* While the streams are read and adbd answers, all a service sends is     *)
(* read, unless this side ends the stream or the link breaks.              *)
SentIsRead ==
  ReaderFairness /\ DeviceFairness =>
    \A s \in Streams :
      Held(s) /\ Len(got[s]) < devSent[s] ~>
        Len(got[s]) = devSent[s] \/ ended[s] \in {"local", "conn"}
=============================================================================
