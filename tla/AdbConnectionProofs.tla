------------------------ MODULE AdbConnectionProofs ------------------------
(***************************************************************************)
(* Proofs about AdbConnection for every set of streams and closers and     *)
(* every bound, and at the end about StreamIds, for every number of        *)
(* openers, width of the counter and number of turns: AdbConnection takes  *)
(* a stream and its id for the same thing because of these.                *)
(***************************************************************************)
EXTENDS AdbConnectionProps, StreamIds, TLAPS, FiniteSetTheorems

(* Sequences: what appending and taking the head keep.                     *)
LEMMA AppendIsSeq ==
  ASSUME NEW S, NEW q \in Seq(S), NEW x \in S
  PROVE  /\ Append(q, x) \in Seq(S)
         /\ Len(Append(q, x)) = Len(q) + 1
OBVIOUS

LEMMA TailIsSeq ==
  ASSUME NEW S, NEW q \in Seq(S), q # <<>>
  PROVE  /\ Head(q) \in S
         /\ Tail(q) \in Seq(S)
         /\ Len(Tail(q)) = Len(q) - 1
OBVIOUS

LEMMA EmptyIsSeq == ASSUME NEW S PROVE <<>> \in Seq(S)
OBVIOUS

LEMMA PacketIsPacket ==
  ASSUME NEW c \in Commands, NEW s \in Streams, NEW n \in Nat
  PROVE  Packet(c, s, n) \in Packets
BY DEF Packet, Packets

(* A packet written, if it is written, leaves a queue of packets.          *)
LEMMA WriteKeepsType ==
  ASSUME WireTypeOK, NEW p \in Packets, NEW b,
         WriteSucceeds(p, b) \/ WriteFails
  PROVE  toDev' \in Seq(Packets)
BY AppendIsSeq DEF WireTypeOK, WriteSucceeds, WriteFails

----------------------------------------------------------------------------
(* Every step of adbd keeps the types of the wire and of adbd's own state. *)
LEMMA DeviceStepKeepsType ==
  ASSUME WireTypeOK, DeviceTypeOK, NEW s \in Streams,
         DevHandles(s) \/ DevWrites(s) \/ DevCloses(s)
  PROVE  WireTypeOK' /\ DeviceTypeOK'
<1> USE DEF WireTypeOK, DeviceTypeOK, Receives, Replies, devVars
<1>p. /\ Packet("OKAY", s, 0) \in Packets
      /\ Packet("CLSE", s, 0) \in Packets
      /\ Packet("WRTE", s, devSent[s] + 1) \in Packets
  BY PacketIsPacket DEF Commands
<1>h. ASSUME toDev # <<>>, toDev' = Tail(toDev)
      PROVE  toDev' \in Seq(Packets)
  BY <1>h, TailIsSeq
<1>a. ASSUME NEW p \in Packets, toHost' = Append(toHost, p)
      PROVE  toHost' \in Seq(Packets)
  BY <1>a, AppendIsSeq
<1>1. CASE DevAccepts(s)
  BY <1>1, <1>p, <1>h, <1>a DEF DevAccepts
<1>2. CASE DevRefuses(s)
  BY <1>2, <1>p, <1>h, <1>a DEF DevRefuses
<1>3. CASE DevConsumes(s)
  BY <1>3, <1>p, <1>h, <1>a DEF DevConsumes
<1>4. CASE DevHandlesOkay(s)
  BY <1>4, <1>h DEF DevHandlesOkay
<1>5. CASE DevHandlesClse(s)
  BY <1>5, <1>p, <1>h, <1>a DEF DevHandlesClse
<1>6. CASE DevIgnoresWrte(s)
  BY <1>6, <1>h DEF DevIgnoresWrte
<1>7. CASE DevWrites(s)
  BY <1>7, <1>p, <1>a DEF DevWrites
<1>8. CASE DevCloses(s)
  BY <1>8, <1>p, <1>a DEF DevCloses
<1> QED
  BY <1>1, <1>2, <1>3, <1>4, <1>5, <1>6, <1>7, <1>8 DEF DevHandles

----------------------------------------------------------------------------
(* What a step leaves alone keeps its type. *)
LEMMA FrameKeepsType ==
  ASSUME TypeOK
  PROVE  /\ UNCHANGED wireVars => WireTypeOK'
         /\ UNCHANGED streamVars => StreamTypeOK'
         /\ UNCHANGED devVars => DeviceTypeOK'
         /\ UNCHANGED <<connVars, loopVars, callVars>> => ConnTypeOK'
<1> USE DEF TypeOK
<1>1. UNCHANGED wireVars => WireTypeOK'
  BY DEF WireTypeOK, wireVars
<1>2. UNCHANGED streamVars => StreamTypeOK'
  BY DEF StreamTypeOK, streamVars
<1>3. UNCHANGED devVars => DeviceTypeOK'
  BY DEF DeviceTypeOK, devVars
<1>4. UNCHANGED <<connVars, loopVars, callVars>> => ConnTypeOK'
  BY DEF ConnTypeOK, connVars, loopVars, callVars, writeVars
<1> QED
  BY <1>1, <1>2, <1>3, <1>4

LEMMA InitTypeOK == Init => TypeOK
BY RecvCapAssumption
   DEF Init, TypeOK, WireInit, StreamInit, DeviceInit, WireTypeOK,
       StreamTypeOK, DeviceTypeOK, ConnTypeOK, ClosePcs, LoopPcs, OpenPcs,
       WriterPcs, CloserPcs, Causes

LEMMA OpenKeepsType ==
  ASSUME TypeOK, NEW s \in Streams, OpenStart(s) \/ OpenSteps(s)
  PROVE  TypeOK'
<1> USE DEF TypeOK, ConnTypeOK, OpenPcs, OpenGoes, OpenOnly, wireVars, streamVars,
            devVars, loopVars, writeVars, WireTypeOK, StreamTypeOK, DeviceTypeOK
<1>1. CASE OpenStart(s)
  BY <1>1 DEF OpenStart
<1>2. CASE OpenCheck(s)
  BY <1>2 DEF OpenCheck
<1>3. CASE OpenWrite(s)
  <2>1. Packet("OPEN", s, 0) \in Packets
    BY PacketIsPacket DEF Commands
  <2>2. toDev' \in Seq(Packets)
    BY <1>3, <2>1, WriteKeepsType DEF OpenWrite
  <2> QED
    BY <1>3, <2>2 DEF OpenWrite
<1>4. CASE OpenUnregister(s)
  BY <1>4 DEF OpenUnregister
<1>5. CASE OpenOpened(s)
  BY <1>5 DEF OpenOpened
<1>6. CASE OpenConnDone(s)
  BY <1>6 DEF OpenConnDone
<1>7. CASE OpenCancelDone(s)
  BY <1>7 DEF OpenCancelDone
<1> QED
  BY <1>1, <1>2, <1>3, <1>4, <1>5, <1>6, <1>7 DEF OpenSteps

LEMMA WriterKeepsType ==
  ASSUME TypeOK, NEW s \in Streams,
         WriteStart(s) \/ WriteSteps(s) \/ WriteCancelled(s)
  PROVE  TypeOK'
<1> DEFINE Frame == UNCHANGED <<devVars, connVars, loopVars, op, cl>>
<1>f. Frame => DeviceTypeOK'
  BY FrameKeepsType
<1>c. ASSUME Frame,
             wr' \in [Streams -> WriterPcs], left' \in [Streams -> Nat],
             wsent' \in [Streams -> Nat], confirmed' \in [Streams -> Nat],
             abandoned' \in [Streams -> Nat]
      PROVE  ConnTypeOK'
  BY <1>c DEF TypeOK, ConnTypeOK, connVars, loopVars
<1> HIDE DEF Frame
<1>t. /\ wr \in [Streams -> WriterPcs] /\ left \in [Streams -> Nat]
      /\ wsent \in [Streams -> Nat] /\ confirmed \in [Streams -> Nat]
      /\ abandoned \in [Streams -> Nat]
  BY DEF TypeOK, ConnTypeOK
<1>1. CASE WriteStart(s)
  <2>1. wr' \in [Streams -> WriterPcs] /\ left' \in [Streams -> Nat]
    BY <1>1, <1>t, MaxWritesAssumption DEF WriteStart, WriterPcs
  <2>2. Frame /\ UNCHANGED <<wireVars, streamVars, wsent, confirmed, abandoned>>
    BY <1>1 DEF WriteStart, WriterFrame, Frame
  <2> QED
    BY <1>t, <1>f, <1>c, <2>1, <2>2, FrameKeepsType DEF TypeOK
<1>2. CASE WriteCheck(s)
  <2>1. wr' \in [Streams -> WriterPcs] /\ left' \in [Streams -> Nat]
    BY <1>2, <1>t DEF WriteCheck, WriteReturns, WriterPcs
  <2>2. Frame /\ UNCHANGED <<wireVars, streamVars, wsent, confirmed, abandoned>>
    BY <1>2 DEF WriteCheck, WriterFrame, Frame
  <2> QED
    BY <1>t, <1>f, <1>c, <2>1, <2>2, FrameKeepsType DEF TypeOK
<1>3. CASE WriteSend(s)
  <2>1. Packet("WRTE", s, wsent[s] + 1) \in Packets
    BY <1>t, PacketIsPacket DEF Commands
  <2>2. toDev' \in Seq(Packets)
    BY <1>3, <2>1, WriteKeepsType DEF WriteSend, TypeOK
  <2>3. WireTypeOK'
    BY <1>3, <2>2 DEF WriteSend, TypeOK, WireTypeOK
  <2>4. /\ wr' \in [Streams -> WriterPcs] /\ left' \in [Streams -> Nat]
        /\ wsent' \in [Streams -> Nat]
    BY <1>3, <1>t DEF WriteSend, WriteReturns, WriterPcs
  <2>5. Frame /\ UNCHANGED <<streamVars, confirmed, abandoned>>
    BY <1>3 DEF WriteSend, WriterFrame, Frame
  <2> QED
    BY <1>t, <1>f, <1>c, <2>3, <2>4, <2>5, FrameKeepsType DEF TypeOK
<1>4. CASE WriteAcked(s)
  <2>1. /\ wr' \in [Streams -> WriterPcs] /\ left' \in [Streams -> Nat]
        /\ confirmed' \in [Streams -> Nat]
    BY <1>4, <1>t DEF WriteAcked, WriteReturns, WriterPcs
  <2>2. Frame /\ UNCHANGED <<wireVars, wsent, abandoned>>
    BY <1>4 DEF WriteAcked, Frame
  <2>3. StreamTypeOK'
    BY <1>4 DEF WriteAcked, TypeOK, StreamTypeOK
  <2> QED
    BY <1>t, <1>f, <1>c, <2>1, <2>2, <2>3, FrameKeepsType DEF TypeOK
<1>5. CASE WriteCancelled(s) \/ WriteEnded(s)
  <2> USE <1>5 DEF WriteCancelled, WriteEnded, WriteGivesUp
  <2>1. /\ wr' \in [Streams -> WriterPcs] /\ left' \in [Streams -> Nat]
        /\ abandoned' \in [Streams -> Nat]
    BY <1>t DEF WriteReturns, WriterPcs
  <2>2. Frame /\ UNCHANGED <<wireVars, streamVars, wsent, confirmed>>
    BY DEF WriterFrame, Frame
  <2> QED
    BY <1>t, <1>f, <1>c, <2>1, <2>2, FrameKeepsType DEF TypeOK
<1> QED
  BY <1>1, <1>2, <1>3, <1>4, <1>5 DEF WriteSteps

LEMMA ReaderKeepsType ==
  ASSUME TypeOK, NEW s \in Streams, ReadData(s) \/ ReadError(s)
  PROVE  TypeOK'
<1>f. WireTypeOK' /\ DeviceTypeOK' /\ ConnTypeOK'
  BY FrameKeepsType DEF ReadData, ReadError, Reads
<1>1. CASE ReadData(s)
  <2>1. /\ recv[s] \in Seq(Nat)
        /\ got[s] \in Seq(Nat)
        /\ Len(recv[s]) <= RecvCap
    BY DEF TypeOK, StreamTypeOK
  <2>2. /\ Head(recv[s]) \in Nat
        /\ Tail(recv[s]) \in Seq(Nat)
        /\ Len(Tail(recv[s])) = Len(recv[s]) - 1
    BY <1>1, <2>1, TailIsSeq DEF ReadData, Reads, ReadReturnsData
  <2>3. Append(got[s], Head(recv[s])) \in Seq(Nat)
    BY <2>1, <2>2, AppendIsSeq
  <2>4. Len(Tail(recv[s])) <= RecvCap
    BY <2>1, <2>2, RecvCapAssumption
  <2>5. StreamTypeOK'
    BY <1>1, <2>2, <2>3, <2>4
       DEF ReadData, Reads, ReadReturnsData, TypeOK, StreamTypeOK
  <2> QED
    BY <1>f, <2>5 DEF TypeOK
<1>2. CASE ReadError(s)
  BY <1>2, <1>f DEF ReadError, Reads, ReadReturnsError, TypeOK, StreamTypeOK
<1> QED
  BY <1>1, <1>2

LEMMA CloserKeepsType ==
  ASSUME TypeOK, NEW s \in Streams, NEW c \in Closers,
         OpenCancelled(s, c) \/ CloseStart(s, c) \/ CloseSteps(s, c)
  PROVE  TypeOK'
<1> USE DEF TypeOK, ConnTypeOK, OpenPcs, CloserPcs, StartClose, CloserGoes,
            WireTypeOK, StreamTypeOK, DeviceTypeOK, wireVars, streamVars,
            devVars, loopVars, connVars, writeVars
<1>1. CASE OpenCancelled(s, c)
  BY <1>1 DEF OpenCancelled, OpenGoes
<1>2. CASE CloseStart(s, c)
  BY <1>2 DEF CloseStart
<1>3. CASE CloseCheck(s, c)
  BY <1>3 DEF CloseCheck
<1>4. CASE CloseWrite(s, c)
  <2>1. Packet("CLSE", s, 0) \in Packets
    BY PacketIsPacket DEF Commands
  <2>2. toDev' \in Seq(Packets)
    BY <1>4, <2>1, WriteKeepsType DEF CloseWrite
  <2> QED
    BY <1>4, <2>2 DEF CloseWrite
<1>5. CASE CloseRemove(s, c)
  BY <1>5 DEF CloseRemove
<1>6. CASE CloseFinish(s, c)
  BY <1>6 DEF CloseFinish, finish, Causes
<1> QED
  BY <1>1, <1>2, <1>3, <1>4, <1>5, <1>6 DEF CloseSteps

LEMMA ConnectionCloseKeepsType ==
  ASSUME TypeOK, AppClose \/ CloseSocket \/ Sweep
  PROVE  TypeOK'
<1>1. CASE AppClose
  <2>1. ConnTypeOK'
    BY <1>1 DEF AppClose, TypeOK, ConnTypeOK, ClosePcs, loopVars, callVars,
                writeVars
  <2> QED
    BY <1>1, <2>1, FrameKeepsType DEF AppClose, TypeOK
<1>2. CASE CloseSocket
  <2>1. ConnTypeOK'
    BY <1>2 DEF CloseSocket, TypeOK, ConnTypeOK, ClosePcs, loopVars, callVars,
                writeVars
  <2>2. WireTypeOK'
    BY <1>2, EmptyIsSeq DEF CloseSocket, TypeOK, WireTypeOK
  <2> QED
    BY <1>2, <2>1, <2>2, FrameKeepsType DEF CloseSocket, TypeOK
<1>3. CASE Sweep
  <2>1. ConnTypeOK'
    BY <1>3 DEF Sweep, SweepOf, TypeOK, ConnTypeOK, ClosePcs, loopVars, callVars,
                writeVars
  <2>2. StreamTypeOK'
    BY <1>3 DEF Sweep, SweepOf, finish, Causes, TypeOK, StreamTypeOK
  <2> QED
    BY <1>3, <2>1, <2>2, FrameKeepsType DEF Sweep, SweepOf, TypeOK
<1> QED
  BY <1>1, <1>2, <1>3

LEMMA ReadLoopKeepsType ==
  ASSUME TypeOK, ReadLoop
  PROVE  TypeOK'
<1> USE DEF TypeOK, ConnTypeOK, LoopPcs, LoopGoes, LoopFrame, WireTypeOK,
            StreamTypeOK, DeviceTypeOK, wireVars, streamVars, devVars,
            callVars, writeVars
<1>s. rlPkt \in Packets => rlPkt.stream \in Streams /\ rlPkt.data \in Nat
  BY DEF Packets
<1>1. CASE ReadPacket
  <2>1. Head(toHost) \in Packets /\ Tail(toHost) \in Seq(Packets)
    BY <1>1, TailIsSeq DEF ReadPacket
  <2>2. Head(toHost).command \in Commands
    BY <2>1 DEF Packets
  <2>3. Handler[Head(toHost).command] \in {"okay", "deliver", "finish", "read"}
    BY <2>2 DEF Handler, Handlers, Commands
  <2> QED
    BY <1>1, <2>1, <2>3 DEF ReadPacket, loopVars
<1>2. CASE HandleOkay
  BY <1>2, <1>s DEF HandleOkay, handleOkay
<1>3. CASE Deliver
  <2>1. CASE deliverQueues(rlPkt.stream, rlPkt.data)
    <3>1. rlPkt \in Packets
      BY <1>3 DEF Deliver
    <3>2. /\ Append(recv[rlPkt.stream], rlPkt.data) \in Seq(Nat)
          /\ Len(Append(recv[rlPkt.stream], rlPkt.data))
               = Len(recv[rlPkt.stream]) + 1
      BY <3>1, <1>s, AppendIsSeq
    <3>3. Len(Append(recv[rlPkt.stream], rlPkt.data)) <= RecvCap
      BY <2>1, <3>1, <3>2, <1>s, RecvCapAssumption DEF deliverQueues
    <3>4. StreamTypeOK'
      BY <2>1, <3>1, <3>2, <3>3, <1>s DEF deliverQueues
    <3>5. ConnTypeOK'
      BY <1>3, <3>1 DEF Deliver
    <3> QED
      BY <1>3, <3>4, <3>5 DEF Deliver
  <2>2. CASE deliverDrops(rlPkt.stream)
    BY <1>3, <2>2 DEF Deliver, deliverDrops, Done
  <2> QED
    BY <1>3, <2>1, <2>2 DEF Deliver
<1>4. CASE AckCheck
  BY <1>4 DEF AckCheck
<1>5. CASE AckSend
  <2>1. Packet("OKAY", rlPkt.stream, 0) \in Packets
    BY <1>5, <1>s, PacketIsPacket DEF AckSend, Commands
  <2>2. toDev' \in Seq(Packets)
    BY <1>5, <2>1, WriteKeepsType DEF AckSend
  <2> QED
    BY <1>5, <2>2 DEF AckSend
<1>6. CASE FinishEOF
  BY <1>6 DEF FinishEOF, finish, Causes
<1>7. CASE ReadFail
  BY <1>7 DEF ReadFail, FailsTo
<1>8. CASE LoopClose
  BY <1>8 DEF LoopClose, ClosePcs
<1>9. CASE LoopExit
  BY <1>9 DEF LoopExit
<1> QED
  BY <1>1, <1>2, <1>3, <1>4, <1>5, <1>6, <1>7, <1>8, <1>9 DEF ReadLoop

LEMMA OutsideKeepsType ==
  ASSUME TypeOK,
         \/ DeviceHandles
         \/ \E s \in Streams : DeviceWrites(s) \/ DeviceCloses(s)
         \/ LinkFails
  PROVE  TypeOK'
<1> USE DEF TypeOK, HostFrame
<1>1. ASSUME HostFrame PROVE ConnTypeOK' /\ StreamTypeOK'
  BY <1>1 DEF ConnTypeOK, StreamTypeOK, streamVars, connVars, loopVars,
              callVars, writeVars
<1>2. CASE DeviceHandles
  BY <1>2, <1>1, DeviceStepKeepsType DEF DeviceHandles
<1>3. CASE \E s \in Streams : DeviceWrites(s) \/ DeviceCloses(s)
  BY <1>3, <1>1, DeviceStepKeepsType DEF DeviceWrites, DeviceCloses
<1>4. CASE LinkFails
  BY <1>4, <1>1, FrameKeepsType, EmptyIsSeq DEF LinkFails, LinkBreaks, WireTypeOK
<1> QED
  BY <1>2, <1>3, <1>4

LEMMA NextKeepsType == TypeOK /\ [Next]_vars => TypeOK'
<1> SUFFICES ASSUME TypeOK, [Next]_vars
             PROVE  TypeOK'
  OBVIOUS
<1>1. CASE UNCHANGED vars
  BY <1>1 DEF vars, TypeOK, WireTypeOK, StreamTypeOK, DeviceTypeOK, ConnTypeOK,
              wireVars, streamVars, devVars, connVars, loopVars, callVars,
              writeVars
<1>2. CASE Next
  BY <1>1, <1>2, OpenKeepsType, WriterKeepsType, ReaderKeepsType,
     CloserKeepsType, ConnectionCloseKeepsType, ReadLoopKeepsType,
     OutsideKeepsType
     DEF Next, AllReturned
<1> QED
  BY <1>1, <1>2

(* The variables keep their types: in particular recv never holds more     *)
(* than its capacity, and readLoop handles a packet only when it has one.  *)
THEOREM TypeCorrect == Spec => []TypeOK
<1>1. Init => TypeOK
  BY InitTypeOK
<1>2. TypeOK /\ [Next]_vars => TypeOK'
  BY NextKeepsType
<1> QED
  BY <1>1, <1>2, PTL DEF Spec

----------------------------------------------------------------------------
(* The inductive invariant behind NoOrphanStream.  Registration comes      *)
(* before the test of c.done in send, and the sweep after c.done is        *)
(* closed, so an Open that the sweep missed has yet to make that test.     *)

Findable ==
  \A s \in Streams :
    op[s] \in {"check", "write", "wait", "cancel", "ok"} /\ ~Done(s)
      => s \in streams \/ FinishPending(s)

OnlyUntested ==
  closePc = "closed" => \A s \in streams : op[s] \in {"check", "unregister"}

Reachable == Findable /\ OnlyUntested

LEMMA InitReachable == Init => Reachable
BY DEF Init, Reachable, Findable, OnlyUntested

(* Steps that leave the relevant state alone. *)
LEMMA FrameKeepsReachable ==
  ASSUME Reachable, UNCHANGED <<streams, closePc, rlPc, rlPkt, op, cl, ended>>
  PROVE  Reachable'
BY DEF Reachable, Findable, OnlyUntested, FinishPending, Done

LEMMA OpenKeepsReachable ==
  ASSUME TypeOK, Reachable, NEW s \in Streams, OpenStart(s) \/ OpenSteps(s)
  PROVE  Reachable'
<1> USE DEF Reachable, Findable, OnlyUntested, FinishPending, Done, OpenGoes,
            OpenOnly, ConnDone, streamVars, loopVars
<1>t. op \in [Streams -> OpenPcs] /\ streams \subseteq Streams
  BY DEF TypeOK, ConnTypeOK
<1>1. CASE OpenStart(s)
  BY <1>1, <1>t DEF OpenStart
<1>2. CASE OpenCheck(s)
  BY <1>2, <1>t DEF OpenCheck
<1>3. CASE OpenWrite(s)
  BY <1>3, <1>t DEF OpenWrite
<1>4. CASE OpenUnregister(s)
  BY <1>4, <1>t DEF OpenUnregister
<1>5. CASE OpenOpened(s)
  BY <1>5, <1>t DEF OpenOpened
<1>6. CASE OpenConnDone(s)
  BY <1>6, <1>t DEF OpenConnDone
<1>7. CASE OpenCancelDone(s)
  BY <1>7, <1>t DEF OpenCancelDone
<1> QED
  BY <1>1, <1>2, <1>3, <1>4, <1>5, <1>6, <1>7 DEF OpenSteps

LEMMA CloserKeepsReachable ==
  ASSUME TypeOK, Reachable, NEW s \in Streams, NEW c \in Closers,
         OpenCancelled(s, c) \/ CloseStart(s, c) \/ CloseSteps(s, c)
  PROVE  Reachable'
<1> USE DEF Reachable, Findable, OnlyUntested, FinishPending, Done, CloserGoes,
            StartClose, streamVars, loopVars, connVars
<1>t. /\ op \in [Streams -> OpenPcs] /\ streams \subseteq Streams
      /\ cl \in [Streams -> [Closers -> CloserPcs]]
      /\ ended \in [Streams -> Causes \cup {"no"}]
  BY DEF TypeOK, ConnTypeOK, StreamTypeOK
<1>1. CASE OpenCancelled(s, c)
  BY <1>1, <1>t DEF OpenCancelled, OpenGoes
<1>2. CASE CloseStart(s, c)
  BY <1>2, <1>t DEF CloseStart
<1>3. CASE CloseCheck(s, c)
  BY <1>3, <1>t DEF CloseCheck
<1>4. CASE CloseWrite(s, c)
  BY <1>4, <1>t DEF CloseWrite
<1>5. CASE CloseRemove(s, c)
  BY <1>5, <1>t DEF CloseRemove
<1>6. CASE CloseFinish(s, c)
  BY <1>6, <1>t DEF CloseFinish, finish
<1> QED
  BY <1>1, <1>2, <1>3, <1>4, <1>5, <1>6 DEF CloseSteps

LEMMA ConnectionCloseKeepsReachable ==
  ASSUME TypeOK, Reachable, AppClose \/ CloseSocket \/ Sweep
  PROVE  Reachable'
<1> USE DEF Reachable, Findable, OnlyUntested, FinishPending, Done, streamVars,
            loopVars, callVars
<1>1. CASE AppClose \/ CloseSocket
  BY <1>1 DEF AppClose, CloseSocket
<1>2. CASE Sweep
  BY <1>2 DEF Sweep, SweepOf, finish
<1> QED
  BY <1>1, <1>2

LEMMA ReadLoopKeepsReachable ==
  ASSUME TypeOK, Reachable, ReadLoop
  PROVE  Reachable'
<1> USE DEF Reachable, Findable, OnlyUntested, FinishPending, Done, LoopGoes,
            LoopFrame, callVars, streamVars
<1>t. /\ streams \subseteq Streams /\ toHost \in Seq(Packets)
      /\ rlPc = "finish" => rlPkt.stream \in Streams
  BY DEF TypeOK, ConnTypeOK, WireTypeOK, Packets
<1>1. CASE ReadPacket
  <2> DEFINE p == Head(toHost)
  <2>1. p.stream \in streams /\ p.command = "CLSE"
          => rlPc' = "finish" /\ rlPkt' = p
    BY <1>1 DEF ReadPacket, Handler, Handlers
  <2>2. streams' = IF p.command = "CLSE" THEN streams \ {p.stream} ELSE streams
    BY <1>1 DEF ReadPacket
  <2>3. rlPc = "read" /\ UNCHANGED <<closePc, op, cl, ended>>
    BY <1>1 DEF ReadPacket
  <2> HIDE DEF p
  <2> QED
    BY <2>1, <2>2, <2>3
<1>2. CASE HandleOkay
  BY <1>2 DEF HandleOkay, handleOkay
<1>3. CASE Deliver
  BY <1>3 DEF Deliver, deliverQueues, deliverDrops
<1>4. CASE AckCheck
  BY <1>4 DEF AckCheck
<1>5. CASE AckSend
  BY <1>5 DEF AckSend
<1>6. CASE FinishEOF
  BY <1>6, <1>t DEF FinishEOF, finish
<1>7. CASE ReadFail
  BY <1>7 DEF ReadFail, FailsTo
<1>8. CASE LoopClose
  BY <1>8 DEF LoopClose
<1>9. CASE LoopExit
  BY <1>9 DEF LoopExit
<1> QED
  BY <1>1, <1>2, <1>3, <1>4, <1>5, <1>6, <1>7, <1>8, <1>9 DEF ReadLoop

LEMMA OthersKeepReachable ==
  ASSUME Reachable,
         \/ \E s \in Streams : WriteStart(s) \/ WriteSteps(s) \/ WriteCancelled(s)
         \/ \E s \in Streams : ReadData(s) \/ ReadError(s)
         \/ \E s \in Streams : DeviceWrites(s) \/ DeviceCloses(s)
         \/ DeviceHandles \/ LinkFails \/ UNCHANGED vars
  PROVE  Reachable'
<1> USE DEF connVars, loopVars, callVars, streamVars
<1>1. ASSUME NEW s \in Streams,
             WriteStart(s) \/ WriteSteps(s) \/ WriteCancelled(s)
      PROVE  UNCHANGED <<streams, closePc, rlPc, rlPkt, op, cl, ended>>
  BY <1>1 DEF WriteStart, WriteSteps, WriteCheck, WriteSend, WriteAcked,
              WriteEnded, WriteCancelled, WriteGivesUp, WriterFrame
<1>2. ASSUME NEW s \in Streams, ReadData(s) \/ ReadError(s)
      PROVE  UNCHANGED <<streams, closePc, rlPc, rlPkt, op, cl, ended>>
  BY <1>2 DEF ReadData, ReadError, Reads, ReadReturnsData, ReadReturnsError
<1>3. HostFrame \/ UNCHANGED vars
        => UNCHANGED <<streams, closePc, rlPc, rlPkt, op, cl, ended>>
  BY DEF HostFrame, vars
<1> QED
  BY <1>1, <1>2, <1>3, FrameKeepsReachable
     DEF DeviceWrites, DeviceCloses, DeviceHandles, LinkFails

LEMMA NextKeepsReachable == TypeOK /\ Reachable /\ [Next]_vars => Reachable'
<1> SUFFICES ASSUME TypeOK, Reachable, [Next]_vars
             PROVE  Reachable'
  OBVIOUS
<1> QED
  BY OpenKeepsReachable, CloserKeepsReachable, ConnectionCloseKeepsReachable,
     ReadLoopKeepsReachable, OthersKeepReachable
     DEF Next, AllReturned

LEMMA AlwaysReachable == Spec => []Reachable
<1>1. Init => Reachable
  BY InitReachable
<1>2. TypeOK /\ Reachable /\ [Next]_vars => Reachable'
  BY NextKeepsReachable
<1> QED
  BY <1>1, <1>2, TypeCorrect, PTL DEF Spec

(* Whatever the interleaving of Open, Stream.Close, Connection.Close and   *)
(* readLoop, a stream in use that has not ended can still be ended.        *)
THEOREM NoOrphans == Spec => []NoOrphanStream
<1>1. Reachable => NoOrphanStream
  BY DEF Reachable, Findable, NoOrphanStream
<1> QED
  BY <1>1, AlwaysReachable, PTL

(* Nothing outlives Connection.Close: the race of Open's registration with *)
(* the sweep always ends with Open failing or with its stream ended.       *)
THEOREM CloseIsFinal == Spec => []NothingSurvivesClose
<1>1. Reachable => NothingSurvivesClose
  BY DEF Reachable, Findable, OnlyUntested, NothingSurvivesClose, Held
<1> QED
  BY <1>1, AlwaysReachable, PTL

----------------------------------------------------------------------------
(* Acknowledged data is never lost (AcknowledgedDataIsKept): counting the  *)
(* packets under way gives the inductive invariant Kept.                   *)
Places(q, c, s) ==
  {i \in 1 .. Len(q) : q[i].command = c /\ q[i].stream = s}

(* How many packets of kind c for stream s are in the queue q.             *)
Count(q, c, s) == Cardinality(Places(q, c, s))

(* 1 if p is such a packet, else 0. *)
Is(p, c, s) == IF p.command = c /\ p.stream = s THEN 1 ELSE 0

LEMMA IsType == ASSUME NEW p, NEW c, NEW s PROVE Is(p, c, s) \in {0, 1}
BY DEF Is

LEMMA PlacesAreFinite ==
  ASSUME NEW q \in Seq(Packets), NEW c, NEW s
  PROVE  IsFiniteSet(Places(q, c, s))
<1>1. IsFiniteSet(1 .. Len(q))
  BY FS_Interval
<1> QED
  BY <1>1, FS_Subset DEF Places

LEMMA CountType ==
  ASSUME NEW q \in Seq(Packets), NEW c, NEW s
  PROVE  Count(q, c, s) \in Nat
BY PlacesAreFinite, FS_CardinalityType DEF Count

LEMMA CountEmpty == ASSUME NEW c, NEW s PROVE Count(<<>>, c, s) = 0
<1>1. Len(<<>>) = 0
  OBVIOUS
<1>2. Places(<<>>, c, s) = {}
  BY <1>1 DEF Places
<1> QED
  BY <1>2, FS_EmptySet DEF Count

LEMMA CountAppend ==
  ASSUME NEW q \in Seq(Packets), NEW p \in Packets, NEW c, NEW s
  PROVE  Count(Append(q, p), c, s) = Count(q, c, s) + Is(p, c, s)
<1> DEFINE n == Len(q) + 1
<1>1. /\ Len(q) \in Nat
      /\ Len(Append(q, p)) = n
      /\ \A i \in 1 .. Len(q) : Append(q, p)[i] = q[i]
      /\ Append(q, p)[n] = p
  OBVIOUS
<1>2. n \notin Places(q, c, s)
  BY <1>1 DEF Places
<1>3. CASE p.command = c /\ p.stream = s
  <2>1. 1 .. n = (1 .. Len(q)) \cup {n}
    BY <1>1
  <2> HIDE DEF n
  <2>2. ASSUME NEW i \in 1 .. n
        PROVE  i \in Places(Append(q, p), c, s)
                 <=> i \in Places(q, c, s) \cup {n}
    BY <1>1, <1>3, <2>1 DEF Places
  <2>3. Places(Append(q, p), c, s) \subseteq 1 .. n
    BY <1>1 DEF Places
  <2>4. Places(q, c, s) \cup {n} \subseteq 1 .. n
    BY <2>1 DEF Places
  <2>5. Places(Append(q, p), c, s) = Places(q, c, s) \cup {n}
    BY <2>2, <2>3, <2>4
  <2>6. Cardinality(Places(q, c, s) \cup {n}) = Count(q, c, s) + 1
    BY <1>2, PlacesAreFinite, FS_AddElement DEF Count
  <2> QED
    BY <1>3, <2>5, <2>6 DEF Count, Is
<1>4. CASE ~(p.command = c /\ p.stream = s)
  <2>1. Places(Append(q, p), c, s) = Places(q, c, s)
    BY <1>1, <1>4 DEF Places
  <2> QED
    BY <1>4, <2>1, CountType DEF Count, Is
<1> QED
  BY <1>3, <1>4

LEMMA CountTail ==
  ASSUME NEW q \in Seq(Packets), q # <<>>, NEW c, NEW s
  PROVE  Count(q, c, s) = Count(Tail(q), c, s) + Is(Head(q), c, s)
<1> DEFINE T == Places(Tail(q), c, s)
           S == Places(q, c, s) \ {1}
           f == [i \in T |-> i + 1]
<1>1. /\ Len(q) \in Nat \ {0}
      /\ Tail(q) \in Seq(Packets)
      /\ Len(Tail(q)) = Len(q) - 1
      /\ \A i \in 1 .. Len(q) - 1 : Tail(q)[i] = q[i + 1]
      /\ Head(q) = q[1]
  OBVIOUS
<1>2. f \in [T -> S]
  BY <1>1 DEF Places
<1>3. \A i, j \in T : f[i] = f[j] => i = j
  BY DEF Places
<1>4. \A j \in S : \E i \in T : f[i] = j
  <2> TAKE j \in S
  <2>1. j - 1 \in T /\ f[j - 1] = j
    BY <1>1 DEF Places
  <2> QED
    BY <2>1
<1>5. ExistsBijection(T, S)
  BY <1>2, <1>3, <1>4
     DEF ExistsBijection, Bijection, Injection, Surjection, IsInjective
<1>6. Cardinality(S) = Cardinality(T)
  BY <1>1, <1>5, PlacesAreFinite, FS_Bijection
<1>7. 1 \in Places(q, c, s) <=> Head(q).command = c /\ Head(q).stream = s
  BY <1>1 DEF Places
<1>8. Cardinality(S) = IF 1 \in Places(q, c, s)
                         THEN Count(q, c, s) - 1 ELSE Count(q, c, s)
  BY PlacesAreFinite, FS_RemoveElement DEF Count
<1>9. Cardinality(T) = Count(Tail(q), c, s)
  BY DEF Count
<1> QED
  BY <1>6, <1>7, <1>8, <1>9, CountType DEF Is

(* A packet written, if it is written, counts once. *)
LEMMA WriteCount ==
  ASSUME TypeOK, NEW p \in Packets, NEW b, WriteSucceeds(p, b) \/ WriteFails,
         NEW c, NEW t
  PROVE  /\ Count(toDev, c, t)' \in Nat
         /\ Count(toDev, c, t)' <= Count(toDev, c, t) + Is(p, c, t)
<1>1. toDev \in Seq(Packets) /\ toDev' \in Seq(Packets)
  BY WriteKeepsType DEF TypeOK, WireTypeOK
<1>2. toDev' = toDev \/ toDev' = Append(toDev, p)
  BY DEF WriteSucceeds, WriteFails
<1>3. Count(toDev, c, t)' = Count(toDev', c, t)
  BY DEF Count, Places
<1>4. /\ Count(toDev, c, t) \in Nat /\ Count(toDev', c, t) \in Nat
      /\ Is(p, c, t) \in {0, 1}
  BY <1>1, CountType, IsType
<1>5. CASE toDev' = toDev
  <2>1. Count(toDev', c, t) = Count(toDev, c, t)
    BY <1>5
  <2> HIDE DEF Count, Is
  <2> QED
    BY <1>3, <1>4, <2>1
<1>6. CASE toDev' = Append(toDev, p)
  <2>1. Count(Append(toDev, p), c, t) = Count(toDev, c, t) + Is(p, c, t)
    BY <1>1, CountAppend
  <2>2. Count(toDev', c, t) = Count(toDev, c, t) + Is(p, c, t)
    BY <1>6, <2>1
  <2> QED
    BY <1>3, <1>4, <2>2
<1> QED
  BY <1>2, <1>5, <1>6

(* A packet that adbd takes no longer counts. *)
LEMMA ReceiveCount ==
  ASSUME TypeOK, NEW d, NEW s, Receives(d, s), NEW c, NEW t
  PROVE  /\ Count(toDev, c, t) \in Nat
         /\ Count(toDev, c, t)' \in Nat
         /\ Count(toDev, c, t)
              = Count(toDev, c, t)' + (IF c = d /\ t = s THEN 1 ELSE 0)
<1>1. /\ toDev \in Seq(Packets) /\ toDev # <<>> /\ toDev' = Tail(toDev)
      /\ Head(toDev).command = d /\ Head(toDev).stream = s
  BY DEF TypeOK, WireTypeOK, Receives
<1>2. toDev' \in Seq(Packets)
  BY <1>1, TailIsSeq
<1>3. Count(toDev, c, t)' = Count(Tail(toDev), c, t)
  BY <1>1 DEF Count, Places
<1>4. Count(toDev, c, t)
        = Count(Tail(toDev), c, t) + Is(Head(toDev), c, t)
  BY <1>1, CountTail
<1>5. Count(toDev, c, t) \in Nat /\ Count(Tail(toDev), c, t) \in Nat
  BY <1>1, <1>2, CountType
<1> QED
  BY <1>1, <1>3, <1>4, <1>5 DEF Is

LEMMA EmptyCount ==
  ASSUME NEW c, NEW t
  PROVE  /\ toDev' = <<>> => Count(toDev, c, t)' = 0
         /\ toHost' = <<>> => Count(toHost, c, t)' = 0
<1>1. Count(toDev, c, t)' = Count(toDev', c, t)
  BY DEF Count, Places
<1>2. Count(toHost, c, t)' = Count(toHost', c, t)
  BY DEF Count, Places
<1> QED
  BY <1>1, <1>2, CountEmpty

LEMMA SameCount ==
  ASSUME NEW c, NEW t
  PROVE  /\ toDev' = toDev => Count(toDev, c, t)' = Count(toDev, c, t)
         /\ toHost' = toHost => Count(toHost, c, t)' = Count(toHost, c, t)
BY DEF Count, Places

----------------------------------------------------------------------------
(* Acknowledged data is kept.  An acknowledgement is first a decision of   *)
(* readLoop, then an OKAY under way, then counted by adbd; each chunk has  *)
(* been queued before any of them.                                         *)

Acking(s) ==
  IF rlPc \in {"ackCheck", "ackWrite"} /\ rlPkt.stream = s THEN 1 ELSE 0

Promised(s) == devAcked[s] + Count(toDev, "OKAY", s) + Acking(s)

(* What Read has returned or can still return. *)
Queued(s) == Len(got[s]) + Len(recv[s])

Kept == \A s \in Streams : Promised(s) <= Queued(s)

LEMMA SumIsNat == ASSUME NEW m \in Nat, NEW n \in Nat PROVE m + n \in Nat
OBVIOUS

LEMMA OneMoved ==
  ASSUME NEW m \in Nat, NEW n \in Nat PROVE (m + 1) + (n - 1) = m + n
OBVIOUS

LEMMA SumOfThree ==
  ASSUME NEW m \in Nat, NEW n \in Nat, NEW k \in Nat
  PROVE  m + (n + k) = (m + n) + k
OBVIOUS

LEMMA KeptTypes ==
  ASSUME TypeOK, NEW t \in Streams
  PROVE  /\ devAcked[t] \in Nat /\ Count(toDev, "OKAY", t) \in Nat
         /\ Acking(t) \in {0, 1} /\ Promised(t) \in Nat
         /\ Len(got[t]) \in Nat /\ Len(recv[t]) \in Nat /\ Queued(t) \in Nat
<1>1. /\ toDev \in Seq(Packets) /\ devAcked[t] \in Nat
      /\ got[t] \in Seq(Nat) /\ recv[t] \in Seq(Nat)
  BY DEF TypeOK, WireTypeOK, DeviceTypeOK, StreamTypeOK
<1>2. Count(toDev, "OKAY", t) \in Nat
  BY <1>1, CountType
<1>3. Len(got[t]) \in Nat /\ Len(recv[t]) \in Nat
  BY <1>1
<1>4. Acking(t) \in {0, 1}
  BY DEF Acking
<1> HIDE DEF Count, Acking
<1>5. Promised(t) \in Nat
  BY <1>1, <1>2, <1>4 DEF Promised
<1>6. Queued(t) \in Nat
  BY <1>3, SumIsNat DEF Queued
<1> QED
  BY <1>1, <1>2, <1>3, <1>4, <1>5, <1>6

LEMMA KeptTypesNext ==
  ASSUME TypeOK', NEW t \in Streams
  PROVE  /\ devAcked'[t] \in Nat /\ Count(toDev, "OKAY", t)' \in Nat
         /\ Acking(t)' \in {0, 1} /\ Promised(t)' \in Nat
         /\ Len(got'[t]) \in Nat /\ Len(recv'[t]) \in Nat
         /\ Queued(t)' \in Nat
<1>1. /\ toDev' \in Seq(Packets) /\ devAcked'[t] \in Nat
      /\ got'[t] \in Seq(Nat) /\ recv'[t] \in Seq(Nat)
  BY DEF TypeOK, WireTypeOK, DeviceTypeOK, StreamTypeOK
<1>2. Count(toDev', "OKAY", t) \in Nat
  BY <1>1, CountType
<1>3. Count(toDev, "OKAY", t)' = Count(toDev', "OKAY", t)
  BY DEF Count, Places
<1>4. Len(got'[t]) \in Nat /\ Len(recv'[t]) \in Nat
  BY <1>1
<1>5. Acking(t)' \in {0, 1}
  BY DEF Acking
<1> HIDE DEF Count, Acking
<1>6. Promised(t)' \in Nat
  BY <1>1, <1>2, <1>3, <1>5 DEF Promised
<1>7. Queued(t)' \in Nat
  BY <1>4, SumIsNat DEF Queued
<1> QED
  BY <1>1, <1>2, <1>3, <1>4, <1>5, <1>6, <1>7

LEMMA InitKept == Init => Kept
<1> SUFFICES ASSUME Init, NEW t \in Streams
             PROVE  Promised(t) <= Queued(t)
  BY DEF Kept
<1>1. Len(<<>>) = 0 /\ Count(<<>>, "OKAY", t) = 0
  BY CountEmpty
<1>2. /\ toDev = <<>> /\ rlPc = "read" /\ devAcked[t] = 0
      /\ got[t] = <<>> /\ recv[t] = <<>>
  BY DEF Init, WireInit, DeviceInit, StreamInit
<1> QED
  BY <1>1, <1>2 DEF Promised, Queued, Acking

(* A step that promises no more, or no more than it queues, keeps Kept.    *)
LEMMA KeptIfLess ==
  ASSUME TypeOK, TypeOK', Kept,
         \A t \in Streams : \E k \in {0, 1} :
           /\ Promised(t)' <= Promised(t) + k
           /\ Queued(t)' = Queued(t) + k
  PROVE  Kept'
<1> SUFFICES ASSUME NEW t \in Streams
             PROVE  Promised(t)' <= Queued(t)'
  BY DEF Kept
<1>1. Promised(t) \in Nat /\ Queued(t) \in Nat /\ Promised(t)' \in Nat
  BY KeptTypes, KeptTypesNext
<1>2. Promised(t) <= Queued(t)
  BY DEF Kept
<1>3. PICK k \in {0, 1} : /\ Promised(t)' <= Promised(t) + k
                          /\ Queued(t)' = Queued(t) + k
  OBVIOUS
<1> HIDE DEF Promised, Queued
<1> QED
  BY <1>1, <1>2, <1>3

LEMMA QuietKeepsKept ==
  ASSUME TypeOK, TypeOK', Kept, UNCHANGED <<rlPc, rlPkt, devAcked, got, recv>>,
         \A t \in Streams :
           Count(toDev, "OKAY", t)' <= Count(toDev, "OKAY", t)
  PROVE  Kept'
<1>1. ASSUME NEW t \in Streams
      PROVE  Promised(t)' <= Promised(t) + 0 /\ Queued(t)' = Queued(t) + 0
  <2>1. Queued(t)' = Queued(t) /\ Acking(t)' = Acking(t)
    BY DEF Queued, Acking
  <2> QED
    BY <2>1, KeptTypes, KeptTypesNext DEF Promised
<1> QED
  BY <1>1, KeptIfLess

LEMMA StillKeepsKept ==
  ASSUME TypeOK, TypeOK', Kept, UNCHANGED <<toDev, rlPc, rlPkt, devAcked, got, recv>>
  PROVE  Kept'
<1>1. ASSUME NEW t \in Streams
      PROVE  Count(toDev, "OKAY", t)' <= Count(toDev, "OKAY", t)
  BY KeptTypes, SameCount
<1> QED
  BY <1>1, QuietKeepsKept

LEMMA QuietWriteKeepsKept ==
  ASSUME TypeOK, TypeOK', Kept, UNCHANGED <<rlPc, rlPkt, devAcked, got, recv>>,
         NEW p \in Packets, p.command # "OKAY", NEW b,
         WriteSucceeds(p, b) \/ WriteFails
  PROVE  Kept'
<1>1. ASSUME NEW t \in Streams
      PROVE  Count(toDev, "OKAY", t)' <= Count(toDev, "OKAY", t)
  <2>1. Is(p, "OKAY", t) = 0
    BY DEF Is
  <2> QED
    BY <2>1, WriteCount, KeptTypes
<1> QED
  BY <1>1, QuietKeepsKept

LEMMA QuietReceiveKeepsKept ==
  ASSUME TypeOK, TypeOK', Kept, UNCHANGED <<rlPc, rlPkt, devAcked, got, recv>>,
         NEW d, NEW s, Receives(d, s)
  PROVE  Kept'
<1>1. ASSUME NEW t \in Streams
      PROVE  Count(toDev, "OKAY", t)' <= Count(toDev, "OKAY", t)
  BY ReceiveCount
<1> QED
  BY <1>1, QuietKeepsKept

LEMMA ClearKeepsKept ==
  ASSUME TypeOK, TypeOK', Kept, UNCHANGED <<rlPc, rlPkt, devAcked, got, recv>>,
         toDev' = <<>>
  PROVE  Kept'
<1>1. ASSUME NEW t \in Streams
      PROVE  Count(toDev, "OKAY", t)' <= Count(toDev, "OKAY", t)
  BY EmptyCount, KeptTypes
<1> QED
  BY <1>1, QuietKeepsKept

(* A step of readLoop that decides on no acknowledgement. *)
LEMMA IdleLoopKeepsKept ==
  ASSUME TypeOK, TypeOK', Kept, UNCHANGED <<toDev, devAcked, got, recv>>,
         rlPc' \notin {"ackCheck", "ackWrite"}
  PROVE  Kept'
<1>1. ASSUME NEW t \in Streams
      PROVE  Promised(t)' <= Promised(t) + 0 /\ Queued(t)' = Queued(t) + 0
  <2>1. Queued(t)' = Queued(t) /\ Acking(t)' = 0
    BY DEF Queued, Acking
  <2>2. Count(toDev, "OKAY", t)' = Count(toDev, "OKAY", t)
    BY SameCount
  <2> QED
    BY <2>1, <2>2, KeptTypes, KeptTypesNext DEF Promised
<1> QED
  BY <1>1, KeptIfLess

LEMMA OpenKeepsKept ==
  ASSUME TypeOK, TypeOK', Kept, NEW s \in Streams,
         \/ OpenStart(s) \/ OpenSteps(s)
         \/ \E c \in Closers : OpenCancelled(s, c)
  PROVE  Kept'
<1>1. CASE OpenWrite(s)
  <2>1. Packet("OPEN", s, 0) \in Packets
    BY PacketIsPacket DEF Commands
  <2>2. Packet("OPEN", s, 0).command # "OKAY"
    BY DEF Packet
  <2>3. \/ WriteSucceeds(Packet("OPEN", s, 0), SocketClosed)
        \/ WriteFails
    BY <1>1 DEF OpenWrite
  <2>4. UNCHANGED <<rlPc, rlPkt, devAcked, got, recv>>
    BY <1>1 DEF OpenWrite, OpenGoes, devVars, loopVars, streamVars
  <2> QED
    BY <2>1, <2>2, <2>3, <2>4, QuietWriteKeepsKept
<1>2. CASE ~OpenWrite(s)
  <2>1. UNCHANGED <<toDev, rlPc, rlPkt, devAcked, got, recv>>
    BY <1>2 DEF OpenStart, OpenSteps, OpenCheck, OpenUnregister, OpenOpened,
         OpenConnDone, OpenCancelDone, OpenCancelled, OpenOnly, OpenGoes,
         devVars, loopVars, streamVars, wireVars
  <2> QED
    BY <2>1, StillKeepsKept
<1> QED
  BY <1>1, <1>2

LEMMA WriterKeepsKept ==
  ASSUME TypeOK, TypeOK', Kept, NEW s \in Streams,
         WriteStart(s) \/ WriteSteps(s) \/ WriteCancelled(s)
  PROVE  Kept'
<1>1. CASE WriteSend(s)
  <2>1. Packet("WRTE", s, wsent[s] + 1) \in Packets
    BY PacketIsPacket DEF Commands, TypeOK, ConnTypeOK
  <2>2. Packet("WRTE", s, wsent[s] + 1).command # "OKAY"
    BY DEF Packet
  <2>3. \/ WriteSucceeds(Packet("WRTE", s, wsent[s] + 1), SocketClosed)
        \/ WriteFails
    BY <1>1 DEF WriteSend
  <2>4. UNCHANGED <<rlPc, rlPkt, devAcked, got, recv>>
    BY <1>1 DEF WriteSend, WriterFrame, devVars, loopVars, streamVars
  <2> QED
    BY <2>1, <2>2, <2>3, <2>4, QuietWriteKeepsKept
<1>2. CASE ~WriteSend(s)
  <2>1. UNCHANGED <<toDev, rlPc, rlPkt, devAcked, got, recv>>
    BY <1>2 DEF WriteStart, WriteSteps, WriteCheck, WriteAcked, WriteEnded,
         WriteCancelled, WriteGivesUp, WriterFrame,
         devVars, loopVars, streamVars, wireVars
  <2> QED
    BY <2>1, StillKeepsKept
<1> QED
  BY <1>1, <1>2

LEMMA CloserKeepsKept ==
  ASSUME TypeOK, TypeOK', Kept, NEW s \in Streams, NEW c \in Closers,
         CloseStart(s, c) \/ CloseSteps(s, c)
  PROVE  Kept'
<1>1. CASE CloseWrite(s, c)
  <2>1. Packet("CLSE", s, 0) \in Packets
    BY PacketIsPacket DEF Commands
  <2>2. Packet("CLSE", s, 0).command # "OKAY"
    BY DEF Packet
  <2>3. \/ WriteSucceeds(Packet("CLSE", s, 0), SocketClosed)
        \/ WriteFails
    BY <1>1 DEF CloseWrite
  <2>4. UNCHANGED <<rlPc, rlPkt, devAcked, got, recv>>
    BY <1>1 DEF CloseWrite, CloserGoes, devVars, loopVars, streamVars
  <2> QED
    BY <2>1, <2>2, <2>3, <2>4, QuietWriteKeepsKept
<1>2. CASE ~CloseWrite(s, c)
  <2>1. UNCHANGED <<toDev, rlPc, rlPkt, devAcked, got, recv>>
    BY <1>2 DEF CloseStart, CloseSteps, CloseCheck, CloseRemove, CloseFinish,
         CloserGoes, finish, devVars, loopVars, streamVars, wireVars
  <2> QED
    BY <2>1, StillKeepsKept
<1> QED
  BY <1>1, <1>2

LEMMA ConnectionCloseKeepsKept ==
  ASSUME TypeOK, TypeOK', Kept, AppClose \/ CloseSocket \/ Sweep
  PROVE  Kept'
<1>1. CASE CloseSocket
  <2>1. UNCHANGED <<rlPc, rlPkt, devAcked, got, recv>> /\ toDev' = <<>>
    BY <1>1 DEF CloseSocket, devVars, loopVars, streamVars
  <2> QED
    BY <2>1, ClearKeepsKept
<1>2. CASE AppClose \/ Sweep
  <2>1. UNCHANGED <<toDev, rlPc, rlPkt, devAcked, got, recv>>
    BY <1>2 DEF AppClose, Sweep, SweepOf, finish,
         devVars, loopVars, streamVars, wireVars
  <2> QED
    BY <2>1, StillKeepsKept
<1> QED
  BY <1>1, <1>2

(* Read moves a chunk from recv to its caller. *)
LEMMA ReaderKeepsKept ==
  ASSUME TypeOK, TypeOK', Kept, NEW s \in Streams, ReadData(s) \/ ReadError(s)
  PROVE  Kept'
<1>1. CASE ReadData(s)
  <2>1. UNCHANGED <<toDev, rlPc, rlPkt, devAcked>>
    BY <1>1 DEF ReadData, Reads, wireVars, loopVars, devVars
  <2>2. /\ recv[s] # <<>>
        /\ got' = [got EXCEPT ![s] = Append(@, Head(recv[s]))]
        /\ recv' = [recv EXCEPT ![s] = Tail(@)]
        /\ got \in [Streams -> Seq(Nat)] /\ recv \in [Streams -> Seq(Nat)]
    BY <1>1 DEF ReadData, Reads, ReadReturnsData, TypeOK, StreamTypeOK
  <2>3. ASSUME NEW t \in Streams
        PROVE  Promised(t)' <= Promised(t) + 0 /\ Queued(t)' = Queued(t) + 0
    <3>1. Promised(t)' = Promised(t)
      BY <2>1 DEF Promised, Acking, Count, Places
    <3>2. Len(got[s]) \in Nat /\ Len(recv[s]) \in Nat /\ Queued(t) \in Nat
      BY KeptTypes
    <3>3. CASE t = s
      <4>1. got'[s] = Append(got[s], Head(recv[s])) /\ recv'[s] = Tail(recv[s])
        BY <2>2
      <4>2. Len(got'[s]) = Len(got[s]) + 1
        BY <2>2, <4>1, TailIsSeq, AppendIsSeq
      <4>3. Len(recv'[s]) = Len(recv[s]) - 1
        BY <2>2, <4>1, TailIsSeq
      <4>4. Queued(s)' = Queued(s)
        BY <3>2, <4>2, <4>3, OneMoved DEF Queued
      <4> QED
        BY <3>1, <3>2, <3>3, <4>4, KeptTypes
    <3>4. CASE t # s
      <4>1. got'[t] = got[t] /\ recv'[t] = recv[t]
        BY <2>2, <3>4
      <4>2. Queued(t)' = Queued(t)
        BY <4>1 DEF Queued
      <4> QED
        BY <3>1, <3>2, <4>2, KeptTypes
    <3> QED
      BY <3>3, <3>4
  <2> QED
    BY <2>3, KeptIfLess
<1>2. CASE ReadError(s)
  <2>1. UNCHANGED <<toDev, rlPc, rlPkt, devAcked, got, recv>>
    BY <1>2 DEF ReadError, Reads, ReadReturnsError,
         devVars, loopVars, wireVars
  <2> QED
    BY <2>1, StillKeepsKept
<1> QED
  BY <1>1, <1>2

(* readLoop queues a chunk in the step in which it decides to acknowledge  *)
(* it, and stops deciding in the step that writes the OKAY.                *)
LEMMA ReadLoopKeepsKept ==
  ASSUME TypeOK, TypeOK', Kept, ReadLoop
  PROVE  Kept'
<1> USE DEF LoopGoes, LoopFrame
<1>1. CASE ReadPacket
  <2>1. UNCHANGED <<toDev, devAcked, got, recv>>
    BY <1>1 DEF ReadPacket, devVars, streamVars
  <2>2. Head(toHost).command \in Commands
    <3>1. toHost \in Seq(Packets) /\ toHost # <<>>
      BY <1>1 DEF ReadPacket, TypeOK, WireTypeOK
    <3>2. Head(toHost) \in Packets
      BY <3>1, TailIsSeq
    <3> QED
      BY <3>2 DEF Packets
  <2>3. rlPc' \notin {"ackCheck", "ackWrite"}
    BY <1>1, <2>2
       DEF ReadPacket, Handler, Handlers, Commands, loopVars
  <2> QED
    BY <2>1, <2>3, IdleLoopKeepsKept
<1>2. CASE HandleOkay \/ FinishEOF \/ ReadFail \/ LoopClose \/ LoopExit
  <2>1. UNCHANGED <<toDev, devAcked, got, recv>>
    BY <1>2 DEF HandleOkay, FinishEOF, ReadFail, FailsTo, LoopClose, LoopExit,
         handleOkay, finish, wireVars, devVars, streamVars
  <2>2. rlPc' \notin {"ackCheck", "ackWrite"}
    BY <1>2 DEF HandleOkay, FinishEOF, ReadFail, FailsTo, LoopClose, LoopExit
  <2> QED
    BY <2>1, <2>2, IdleLoopKeepsKept
<1>3. CASE AckCheck
  <2>1. UNCHANGED <<toDev, devAcked, got, recv>>
    BY <1>3 DEF AckCheck, wireVars, devVars, streamVars
  <2>2. CASE rlPc' = "read"
    BY <2>1, <2>2, IdleLoopKeepsKept
  <2>3. CASE rlPc' # "read"
    <3>1. ASSUME NEW t \in Streams
          PROVE  Promised(t)' <= Promised(t) + 0 /\ Queued(t)' = Queued(t) + 0
      <4>1. Acking(t)' = Acking(t)
        BY <1>3, <2>3 DEF AckCheck, Acking
      <4>2. Count(toDev, "OKAY", t)' = Count(toDev, "OKAY", t)
        BY <2>1, SameCount
      <4>3. Promised(t)' = Promised(t) /\ Queued(t)' = Queued(t)
        BY <2>1, <4>1, <4>2 DEF Promised, Queued
      <4> QED
        BY <4>3, KeptTypes
    <3> QED
      BY <3>1, KeptIfLess
  <2> QED
    BY <2>2, <2>3
<1>4. CASE AckSend
  <2> DEFINE p == Packet("OKAY", rlPkt.stream, 0)
  <2>1. UNCHANGED <<devAcked, got, recv>>
    BY <1>4 DEF AckSend, devVars, streamVars
  <2>2. rlPc = "ackWrite" /\ rlPc' = "read"
    BY <1>4 DEF AckSend
  <2>3. rlPkt.stream \in Streams
    BY <2>2 DEF TypeOK, ConnTypeOK, Packets
  <2>4. p \in Packets
    BY <2>3, PacketIsPacket DEF Commands
  <2>5. WriteSucceeds(p, SocketClosed) \/ WriteFails
    BY <1>4 DEF AckSend
  <2>6. ASSUME NEW t \in Streams
        PROVE  Promised(t)' <= Promised(t) + 0 /\ Queued(t)' = Queued(t) + 0
    <3>1. Is(p, "OKAY", t) = Acking(t) /\ Acking(t)' = 0
      BY <2>2 DEF Is, Packet, Acking
    <3>2. Count(toDev, "OKAY", t)' <= Count(toDev, "OKAY", t) + Acking(t)
      BY <2>4, <2>5, <3>1, WriteCount
    <3>3. Queued(t)' = Queued(t) /\ devAcked'[t] = devAcked[t]
      BY <2>1 DEF Queued
    <3> QED
      BY <3>1, <3>2, <3>3, KeptTypes, KeptTypesNext DEF Promised
  <2> QED
    BY <2>6, KeptIfLess
<1>5. CASE Deliver
  <2>1. UNCHANGED <<toDev, devAcked, got>>
    BY <1>5 DEF Deliver, deliverQueues, deliverDrops, wireVars, devVars, streamVars
  <2>2. CASE rlPc' = "read"
    <3>1. UNCHANGED recv
      BY <1>5, <2>2 DEF Deliver, deliverDrops, streamVars
    <3> QED
      BY <2>1, <2>2, <3>1, IdleLoopKeepsKept
  <2>3. CASE rlPc' # "read"
    <3> DEFINE s == rlPkt.stream
    <3>1. /\ rlPc = "deliver" /\ rlPc' = "ackCheck" /\ rlPkt' = rlPkt
          /\ recv' = [recv EXCEPT ![s] = Append(@, rlPkt.data)]
      BY <1>5, <2>3 DEF Deliver, deliverQueues
    <3>2. s \in Streams /\ rlPkt.data \in Nat /\ recv \in [Streams -> Seq(Nat)]
      BY <3>1 DEF TypeOK, ConnTypeOK, StreamTypeOK, Packets
    <3>3. ASSUME NEW t \in Streams
          PROVE  \E k \in {0, 1} : /\ Promised(t)' <= Promised(t) + k
                                   /\ Queued(t)' = Queued(t) + k
      <4> DEFINE k == IF t = s THEN 1 ELSE 0
      <4>1. Acking(t) = 0 /\ Acking(t)' = k
        BY <3>1 DEF Acking
      <4>2. Count(toDev, "OKAY", t)' = Count(toDev, "OKAY", t)
        BY <2>1, SameCount
      <4>3. Promised(t)' <= Promised(t) + k
        BY <2>1, <4>1, <4>2, KeptTypes, KeptTypesNext DEF Promised
      <4>4. Len(recv'[t]) = Len(recv[t]) + k
        <5>1. CASE t = s
          BY <3>1, <3>2, <5>1, AppendIsSeq
        <5>2. CASE t # s
          <6>1. recv'[t] = recv[t] /\ Len(recv[t]) \in Nat
            BY <3>1, <3>2, <5>2
          <6> QED
            BY <5>2, <6>1
        <5> QED
          BY <5>1, <5>2
      <4>5. Queued(t)' = Queued(t) + k
        <5>1. Queued(t)' = Len(got[t]) + (Len(recv[t]) + k)
          BY <2>1, <4>4 DEF Queued
        <5>2. k \in Nat /\ Len(got[t]) \in Nat /\ Len(recv[t]) \in Nat
          BY KeptTypes
        <5> HIDE DEF k
        <5> QED
          BY <5>1, <5>2, SumOfThree DEF Queued
      <4> QED
        BY <4>3, <4>5
    <3> QED
      BY <3>3, KeptIfLess
  <2> QED
    BY <2>2, <2>3
<1> QED
  BY <1>1, <1>2, <1>3, <1>4, <1>5 DEF ReadLoop

(* adbd turns an OKAY under way into one that it has counted. *)
LEMMA OutsideKeepsKept ==
  ASSUME TypeOK, TypeOK', Kept,
         \/ DeviceHandles \/ LinkFails
         \/ \E s \in Streams : DeviceWrites(s) \/ DeviceCloses(s)
  PROVE  Kept'
<1> USE DEF HostFrame
<1>1. CASE DeviceHandles
  <2>1. PICK s \in Streams : DevHandles(s) /\ HostFrame
    BY <1>1 DEF DeviceHandles
  <2>2. UNCHANGED <<rlPc, rlPkt, got, recv>>
    BY <2>1 DEF loopVars, streamVars
  <2>3. CASE DevHandlesOkay(s)
    <3>1. /\ Receives("OKAY", s)
          /\ devAcked' = [devAcked EXCEPT ![s] = @ + 1]
          /\ devAcked \in [Streams -> Nat]
      BY <2>3 DEF DevHandlesOkay, TypeOK, DeviceTypeOK
    <3>2. ASSUME NEW t \in Streams
          PROVE  Promised(t)' <= Promised(t) + 0 /\ Queued(t)' = Queued(t) + 0
      <4>1. Acking(t)' = Acking(t) /\ Queued(t)' = Queued(t)
        BY <2>2 DEF Acking, Queued
      <4>2. Count(toDev, "OKAY", t)
              = Count(toDev, "OKAY", t)' + (IF t = s THEN 1 ELSE 0)
        BY <3>1, ReceiveCount
      <4>3. devAcked'[t] = devAcked[t] + (IF t = s THEN 1 ELSE 0)
        BY <3>1
      <4>4. /\ devAcked[t] \in Nat /\ Count(toDev, "OKAY", t)' \in Nat
            /\ Acking(t) \in {0, 1} /\ Queued(t) \in Nat
        BY KeptTypes, KeptTypesNext
      <4>5. Promised(t)' = Promised(t)
        <5> HIDE DEF Count, Acking
        <5> QED
          BY <4>1, <4>2, <4>3, <4>4 DEF Promised
      <4> QED
        BY <4>1, <4>4, <4>5, KeptTypes
    <3> QED
      BY <3>2, KeptIfLess
  <2>4. CASE ~DevHandlesOkay(s)
    <3>1. UNCHANGED devAcked
      BY <2>1, <2>4 DEF DevHandles, DevAccepts, DevRefuses, DevConsumes,
           DevHandlesClse, DevIgnoresWrte, devVars
    <3>2. PICK d \in Commands : Receives(d, s)
      BY <2>1, <2>4 DEF DevHandles, DevAccepts, DevRefuses, DevConsumes,
           DevHandlesClse, DevIgnoresWrte, Commands
    <3> QED
      BY <2>2, <3>1, <3>2, QuietReceiveKeepsKept
  <2> QED
    BY <2>3, <2>4
<1>2. CASE LinkFails
  <2>1. UNCHANGED <<rlPc, rlPkt, devAcked, got, recv>> /\ toDev' = <<>>
    BY <1>2 DEF LinkFails, LinkBreaks, devVars, loopVars, streamVars
  <2> QED
    BY <2>1, ClearKeepsKept
<1>3. CASE \E s \in Streams : DeviceWrites(s) \/ DeviceCloses(s)
  <2>1. UNCHANGED <<toDev, rlPc, rlPkt, devAcked, got, recv>>
    BY <1>3 DEF DeviceWrites, DeviceCloses, DevWrites, DevCloses,
         loopVars, streamVars
  <2> QED
    BY <2>1, StillKeepsKept
<1> QED
  BY <1>1, <1>2, <1>3

LEMMA NextKeepsKept == TypeOK /\ TypeOK' /\ Kept /\ [Next]_vars => Kept'
<1> SUFFICES ASSUME TypeOK, TypeOK', Kept, [Next]_vars PROVE Kept'
  OBVIOUS
<1>1. CASE UNCHANGED vars \/ AllReturned
  <2>1. UNCHANGED <<toDev, rlPc, rlPkt, devAcked, got, recv>>
    BY <1>1 DEF AllReturned, vars, wireVars, loopVars, devVars, streamVars
  <2> QED
    BY <2>1, StillKeepsKept
<1>2. CASE Next /\ ~AllReturned
  BY <1>2, OpenKeepsKept, WriterKeepsKept, ReaderKeepsKept, CloserKeepsKept,
     ConnectionCloseKeepsKept, ReadLoopKeepsKept, OutsideKeepsKept
     DEF Next
<1> QED
  BY <1>1, <1>2

LEMMA KeptHolds == TypeOK /\ Kept => AcknowledgedDataIsKept
<1> SUFFICES ASSUME TypeOK, Kept, NEW s \in Streams
             PROVE  devAcked[s] <= Len(got[s]) + Len(recv[s])
  BY DEF AcknowledgedDataIsKept
<1>1. Promised(s) <= Queued(s)
  BY DEF Kept
<1>2. devAcked[s] <= Promised(s)
  BY KeptTypes DEF Promised
<1>3. devAcked[s] <= Queued(s)
  BY <1>1, <1>2, KeptTypes
<1> QED
  BY <1>3 DEF Queued

(* readLoop acknowledges only what deliver queued (connection.go:205-208): *)
(* what adbd believes delivered was read or can still be read, whatever    *)
(* ended the stream or the connection meanwhile.                           *)
THEOREM AcknowledgedIsKept == Spec => []AcknowledgedDataIsKept
<1>1. Init => Kept
  BY InitKept
<1>2. TypeOK /\ TypeOK' /\ Kept /\ [Next]_vars => Kept'
  BY NextKeepsKept
<1>3. TypeOK /\ Kept => AcknowledgedDataIsKept
  BY KeptHolds
<1> QED
  BY <1>1, <1>2, <1>3, TypeCorrect, PTL DEF Spec

----------------------------------------------------------------------------
(* The requests of a stream and adbd's answers: the invariant Served.      *)

One(b) == IF b THEN 1 ELSE 0
Up(c, s) == Count(toDev, c, s)
Down(c, s) == Count(toHost, c, s)

(* readLoop is about to hand an OKAY to s.                                 *)
Taking(s) == rlPc = "okay" /\ rlPkt.stream = s

Unsent(s) == op[s] \in {"idle", "check", "write"}

(* Each OKAY answers the OPEN or one WRTE, and each is used once: the first*)
(* for the OPEN, every other for at most one chunk.                        *)
Balanced(s) ==
  /\ wsent[s] + One(ack[s]) + Down("OKAY", s) + One(Taking(s)) + Up("OPEN", s) + One(Unsent(s))
       <= devGot[s] + abandoned[s] + One(wr[s] = "wait") + One(~hasRemote[s])
  /\ ack[s] => hasRemote[s]
  /\ confirmed[s] <= devGot[s] + abandoned[s]

OpenedOnce(s) == Up("OPEN", s) + One(Unsent(s)) + One(dev[s] # "none") <= 1

Answered(s) ==
  /\ hasRemote[s] \/ Down("OKAY", s) > 0 \/ Taking(s) => dev[s] # "none"
  /\ Held(s) => hasRemote[s]
  /\ wr[s] # "idle" => Held(s)

(* A closer has got past its CLSE.                                         *)
Closing(s) == \E c \in Closers : cl[s][c] \in {"remove", "finish", "done"}

ClosedAfter(s) ==
  /\ Unsent(s) \/ op[s] = "wait" => \A c \in Closers : cl[s][c] = "idle"
  /\ \A c \in Closers : /\ cl[s][c] \in {"check", "write"} => hasRemote[s]
                        /\ cl[s][c] = "done" => Done(s)
  /\ Up("CLSE", s) > 0 => hasRemote[s] /\ Closing(s)

(* The end of a service reaches the stream.                                *)
EndIsComing(s) ==
  linkUp /\ op[s] \in {"wait", "cancel", "ok"} /\ dev[s] = "closed" /\ ~Done(s)
    => Down("CLSE", s) > 0 \/ FinishPending(s)

(* The end of a stream reaches the service.                                *)
Told(s) ==
  Held(s) /\ linkUp /\ ~ConnDone /\ Closing(s) => dev[s] = "closed" \/ Up("CLSE", s) > 0

Woken(s) ==
  wr[s] = "wait" /\ linkUp /\ ~Done(s) /\ ~ack[s] =>
    Up("WRTE", s) > 0 \/ Down("OKAY", s) > 0 \/ Down("CLSE", s) > 0 \/ Taking(s) \/ FinishPending(s)

Served(s) ==
  /\ Balanced(s) /\ OpenedOnce(s) /\ Answered(s) /\ ClosedAfter(s)
  /\ EndIsComing(s) /\ Told(s) /\ Woken(s)

LEMMA CountsAreNat ==
  ASSUME TypeOK, NEW c, NEW s
  PROVE  Up(c, s) \in Nat /\ Down(c, s) \in Nat
BY CountType DEF Up, Down, TypeOK, WireTypeOK

LEMMA CountsStayNat ==
  ASSUME TypeOK', NEW c, NEW s
  PROVE  Up(c, s)' \in Nat /\ Down(c, s)' \in Nat
<1>1. toDev' \in Seq(Packets) /\ toHost' \in Seq(Packets)
  BY DEF TypeOK, WireTypeOK
<1>2. Count(toDev', c, s) \in Nat /\ Count(toHost', c, s) \in Nat
  BY <1>1, CountType
<1> QED BY <1>2 DEF Up, Down, Count, Places

LEMMA SameUpDown ==
  ASSUME NEW c, NEW s
  PROVE  /\ toDev' = toDev => Up(c, s)' = Up(c, s)
         /\ toHost' = toHost => Down(c, s)' = Down(c, s)
         /\ toDev' = <<>> => Up(c, s)' = 0
         /\ toHost' = <<>> => Down(c, s)' = 0
BY SameCount, EmptyCount DEF Up, Down

LEMMA UpWritten ==
  ASSUME TypeOK, NEW p \in Packets, NEW b, WriteSucceeds(p, b) \/ WriteFails, NEW c, NEW s
  PROVE  \/ Up(c, s)' = Up(c, s) + Is(p, c, s)
         \/ ~linkUp /\ Up(c, s)' = Up(c, s)
<1>1. toDev' = Append(toDev, p) \/ (~linkUp /\ toDev' = toDev)
  BY DEF WriteSucceeds, WriteFails
<1>2. CASE toDev' = Append(toDev, p)
  <2>1. Count(toDev, c, s)' = Count(Append(toDev, p), c, s)
    BY <1>2 DEF Count, Places
  <2> QED BY <2>1, CountAppend DEF Up, TypeOK, WireTypeOK
<1> QED BY <1>1, <1>2, SameUpDown

LEMMA UpReceived ==
  ASSUME TypeOK, NEW d, NEW t, Receives(d, t), NEW c, NEW s
  PROVE  Up(c, s) = Up(c, s)' + One(c = d /\ s = t)
BY ReceiveCount DEF Up, One

LEMMA DownReplied ==
  ASSUME TypeOK, NEW p \in Packets, toHost' = Append(toHost, p), NEW c, NEW s
  PROVE  Down(c, s)' = Down(c, s) + Is(p, c, s)
<1>1. Count(toHost, c, s)' = Count(Append(toHost, p), c, s)
  BY DEF Count, Places
<1> QED BY <1>1, CountAppend DEF Down, TypeOK, WireTypeOK

LEMMA DownRead ==
  ASSUME TypeOK, toHost # <<>>, toHost' = Tail(toHost), NEW c, NEW s
  PROVE  Down(c, s) = Down(c, s)' + Is(Head(toHost), c, s)
<1>1. Count(toHost, c, s)' = Count(Tail(toHost), c, s)
  BY DEF Count, Places
<1> QED BY <1>1, CountTail DEF Down, TypeOK, WireTypeOK

LEMMA CarriesIsCount ==
  ASSUME NEW q \in Seq(Packets), NEW c, NEW s
  PROVE  Carries(q, c, s) <=> Count(q, c, s) > 0
<1>1. Carries(q, c, s) <=> Places(q, c, s) # {}
  BY DEF Carries, Places
<1>2. IsFiniteSet(Places(q, c, s)) /\ Cardinality(Places(q, c, s)) \in Nat
  BY PlacesAreFinite, FS_CardinalityType
<1>3. Places(q, c, s) = {} <=> Cardinality(Places(q, c, s)) = 0
  BY <1>2, FS_EmptySet
<1> QED BY <1>1, <1>2, <1>3 DEF Count

(* What belongs to s alone; s may have ended in the step.                  *)
Unseen(s) ==
  /\ op'[s] = op[s] /\ dev'[s] = dev[s] /\ hasRemote'[s] = hasRemote[s] /\ wr'[s] = wr[s]
  /\ cl'[s] = cl[s] /\ (Done(s) => Done(s)') /\ ack'[s] = ack[s] /\ wsent'[s] = wsent[s]
  /\ devGot'[s] = devGot[s] /\ abandoned'[s] = abandoned[s] /\ confirmed'[s] = confirmed[s]

(* What s shares with others: its packets under way and in readLoop's hand.*)
Calm(s) ==
  /\ linkUp' => linkUp
  /\ ConnDone => ConnDone'
  /\ \A c \in {"OPEN", "WRTE", "CLSE"} :
       Up(c, s)' <= Up(c, s) /\ (linkUp' => Up(c, s)' = Up(c, s))
  /\ \A c \in {"OKAY", "CLSE"} :
       Down(c, s)' <= Down(c, s) /\ (linkUp' => Down(c, s)' = Down(c, s))
  /\ Taking(s)' = Taking(s)
  /\ FinishPending(s) => FinishPending(s)' \/ Done(s)'

LEMMA SeenTypes ==
  ASSUME TypeOK, NEW s \in Streams
  PROVE  /\ wsent[s] \in Nat /\ devGot[s] \in Nat /\ abandoned[s] \in Nat /\ confirmed[s] \in Nat
         /\ ack[s] \in BOOLEAN /\ hasRemote[s] \in BOOLEAN /\ dev[s] \in {"none", "open", "closed"}
BY DEF TypeOK, ConnTypeOK, DeviceTypeOK, StreamTypeOK

LEMMA CalmKeepsServed ==
  ASSUME TypeOK, TypeOK', NEW s \in Streams, Served(s), Unseen(s), Calm(s)
  PROVE  Served(s)'
<1>1. \A c \in Commands : /\ Up(c, s) \in Nat /\ Up(c, s)' \in Nat
                          /\ Down(c, s) \in Nat /\ Down(c, s)' \in Nat
  BY CountsAreNat, CountsStayNat
<1>2. /\ "OPEN" \in Commands /\ "OKAY" \in Commands /\ "WRTE" \in Commands /\ "CLSE" \in Commands
  BY DEF Commands
<1>3. /\ Unsent(s)' = Unsent(s) /\ Held(s)' = Held(s) /\ Closing(s)' = Closing(s)
  BY DEF Unseen, Unsent, Held, Closing
<1>4. Balanced(s)' /\ OpenedOnce(s)'
  BY <1>1, <1>2, <1>3, SeenTypes DEF Served, Unseen, Calm, Balanced, OpenedOnce, One
<1>5. Answered(s)' /\ ClosedAfter(s)'
  BY <1>1, <1>2, <1>3 DEF Served, Unseen, Calm, Answered, ClosedAfter
<1>6. EndIsComing(s)' /\ Told(s)' /\ Woken(s)'
  BY <1>1, <1>2, <1>3 DEF Served, Unseen, Calm, EndIsComing, Told, Woken
<1> QED BY <1>4, <1>5, <1>6 DEF Served

(* A step that writes at most packets of another stream and touches        *)
(* neither adbd nor readLoop.                                              *)
LEMMA CalmIfAway ==
  ASSUME TypeOK, NEW s \in Streams,
         UNCHANGED <<toHost, linkUp, closePc, rlPc, rlPkt>>, cl'[s] = cl[s],
         \/ toDev' = toDev
         \/ \E p \in Packets, b \in BOOLEAN : p.stream # s /\ (WriteSucceeds(p, b) \/ WriteFails)
  PROVE  Calm(s)
<1>1. Taking(s)' = Taking(s) /\ FinishPending(s)' = FinishPending(s) /\ ConnDone' = ConnDone
  BY DEF Taking, FinishPending, ConnDone
<1>2. ASSUME NEW c
      PROVE  /\ Up(c, s) \in Nat /\ Down(c, s) \in Nat
             /\ Up(c, s)' = Up(c, s) /\ Down(c, s)' = Down(c, s)
  <2>1. Up(c, s) \in Nat /\ Down(c, s) \in Nat /\ Down(c, s)' = Down(c, s)
    BY CountsAreNat, SameUpDown
  <2>2. CASE toDev' = toDev
    BY <2>1, <2>2, SameUpDown
  <2>3. ASSUME NEW p \in Packets, NEW b \in BOOLEAN, p.stream # s, WriteSucceeds(p, b) \/ WriteFails
        PROVE  Up(c, s)' = Up(c, s)
    <3>1. Is(p, c, s) = 0
      BY <2>3 DEF Is
    <3> QED BY <2>1, <2>3, <3>1, UpWritten
  <2> QED BY <2>1, <2>2, <2>3
<1> QED BY <1>1, <1>2 DEF Calm

(* The types of what a step of AdbConnection changes by EXCEPT.            *)
LEMMA FunctionTypes ==
  ASSUME TypeOK
  PROVE  /\ op \in [Streams -> OpenPcs] /\ wr \in [Streams -> WriterPcs]
         /\ cl \in [Streams -> [Closers -> CloserPcs]] /\ left \in [Streams -> Nat]
         /\ wsent \in [Streams -> Nat] /\ confirmed \in [Streams -> Nat] /\ abandoned \in [Streams -> Nat]
         /\ dev \in [Streams -> {"none", "open", "closed"}] /\ devGot \in [Streams -> Nat]
         /\ ack \in [Streams -> BOOLEAN] /\ hasRemote \in [Streams -> BOOLEAN]
         /\ ended \in [Streams -> Causes \cup {"no"}]
         /\ toDev \in Seq(Packets) /\ toHost \in Seq(Packets) /\ linkUp \in BOOLEAN
         /\ SocketClosed \in BOOLEAN
BY DEF TypeOK, ConnTypeOK, DeviceTypeOK, StreamTypeOK, WireTypeOK, SocketClosed

LEMMA CloserIs ==
  ASSUME TypeOK, NEW s \in Streams, NEW c \in Closers, NEW x \in CloserPcs,
         cl' = [cl EXCEPT ![s][c] = x]
  PROVE  /\ \A t \in Streams \ {s} : cl'[t] = cl[t]
         /\ cl'[s][c] = x /\ \A d \in Closers \ {c} : cl'[s][d] = cl[s][d]
<1>1. cl \in [Streams -> [Closers -> CloserPcs]]
  BY FunctionTypes
<1>2. cl' = [cl EXCEPT ![s] = [cl[s] EXCEPT ![c] = x]]
  OBVIOUS
<1> QED BY <1>1, <1>2

LEMMA OpenKeepsServed ==
  ASSUME TypeOK, TypeOK', NEW s \in Streams, NEW t \in Streams, Served(s),
         \/ OpenStart(t) \/ OpenSteps(t)
         \/ \E c \in Closers : OpenCancelled(t, c)
  PROVE  Served(s)'
<1> DEFINE o == Packet("OPEN", t, 0)
<1>0. o \in Packets /\ o.stream = t /\ o.command = "OPEN"
  BY PacketIsPacket DEF Commands, Packet
<1> HIDE DEF o
<1>1. /\ UNCHANGED <<toHost, linkUp, closePc, rlPc, rlPkt, devVars, streamVars, writeVars>>
      /\ op' = [op EXCEPT ![t] = op'[t]]
      /\ \/ toDev' = toDev
         \/ /\ WriteSucceeds(o, SocketClosed) /\ op[t] = "write" /\ op'[t] = "wait"
         \/ /\ WriteFails /\ op[t] = "write" /\ op'[t] = "unregister"
  BY FunctionTypes DEF OpenStart, OpenSteps, OpenCheck, OpenWrite, OpenUnregister, OpenOpened, OpenConnDone,
     OpenCancelDone, OpenCancelled, OpenOnly, OpenGoes, wireVars, streamVars, loopVars, o
<1>2. CASE s # t
  <2>1. cl'[s] = cl[s] /\ op'[s] = op[s]
    BY <1>1, <1>2, FunctionTypes DEF OpenStart, OpenSteps, OpenCheck, OpenWrite, OpenUnregister, OpenOpened, OpenConnDone,
       OpenCancelDone, OpenCancelled, StartClose, OpenOnly
  <2>2. Unseen(s)
    BY <1>1, <2>1 DEF Unseen, Done, devVars, streamVars, writeVars
  <2>3. Calm(s)
    BY <1>0, <1>1, <1>2, <2>1, CalmIfAway, FunctionTypes
  <2> QED BY <2>2, <2>3, CalmKeepsServed
<1>3. CASE s = t
  <2>1. \A c \in Commands : Up(c, s) \in Nat /\ Down(c, s) \in Nat /\ Down(c, s)' = Down(c, s)
    BY <1>1, CountsAreNat, SameUpDown
  <2>2. /\ "OPEN" \in Commands /\ "OKAY" \in Commands /\ "WRTE" \in Commands /\ "CLSE" \in Commands
    BY DEF Commands
  <2>3. /\ Taking(s)' = Taking(s) /\ ConnDone' = ConnDone /\ Done(s)' = Done(s) /\ linkUp' = linkUp
        /\ dev' = dev /\ devGot' = devGot /\ ack' = ack /\ hasRemote' = hasRemote /\ wr' = wr
        /\ wsent' = wsent /\ abandoned' = abandoned /\ confirmed' = confirmed
    BY <1>1 DEF Taking, ConnDone, Done, devVars, streamVars, writeVars
  <2>4. CASE OpenWrite(t)
    <3>1. /\ op[s] = "write" /\ cl' = cl /\ op'[s] \in {"wait", "unregister"}
          /\ \A c \in Commands : Up(c, s)' <= Up(c, s) + One(op'[s] = "wait" /\ c = "OPEN") /\ Up(c, s)' \in Nat
          /\ \A c \in Commands \ {"OPEN"} : Up(c, s)' = Up(c, s)
      <4>1. cl' = cl /\ op[s] = "write" /\ op'[s] \in {"wait", "unregister"}
        BY <1>3, <2>4, FunctionTypes DEF OpenWrite, OpenGoes
      <4>2. \A c \in Commands : Is(o, c, s) = One(c = "OPEN")
        BY <1>0, <1>3 DEF Is, One
      <4>3. CASE op'[s] = "wait"
        <5>1. WriteSucceeds(o, SocketClosed) \/ toDev' = toDev
          BY <1>1, <1>3, <4>3
        <5>2. ASSUME NEW c \in Commands
              PROVE  Up(c, s)' = Up(c, s) \/ Up(c, s)' = Up(c, s) + One(c = "OPEN")
          BY <1>0, <4>2, <5>1, UpWritten, SameUpDown
        <5> QED BY <2>1, <4>1, <4>3, <5>2 DEF One
      <4>4. CASE op'[s] # "wait"
        <5>1. toDev' = toDev
          BY <1>1, <1>3, <4>1, <4>4 DEF WriteFails
        <5> QED BY <2>1, <4>1, <4>4, <5>1, SameUpDown DEF One
      <4> QED BY <4>3, <4>4
    <3>2. /\ Closing(s)' = Closing(s) /\ FinishPending(s)' = FinishPending(s)
          /\ ~Held(s) /\ ~Held(s)' /\ Unsent(s) /\ ~Unsent(s)'
      BY <1>1, <3>1 DEF Closing, FinishPending, Held, Unsent
    <3>3. dev[s] = "none" /\ Up("OPEN", s) = 0
      BY <2>1, <2>2, <3>2, SeenTypes DEF Served, OpenedOnce, One
    <3>4. Balanced(s)' /\ OpenedOnce(s)'
      BY <2>1, <2>2, <2>3, <3>1, <3>2, <3>3, SeenTypes DEF Served, Balanced, OpenedOnce, One
    <3>5. Answered(s)' /\ ClosedAfter(s)' /\ EndIsComing(s)'
      BY <2>1, <2>2, <2>3, <3>1, <3>2, <3>3 DEF Served, Answered, ClosedAfter, EndIsComing
    <3>6. Told(s)' /\ Woken(s)'
      BY <2>1, <2>2, <2>3, <3>1, <3>2 DEF Served, Answered, Told, Woken
    <3> QED BY <3>4, <3>5, <3>6 DEF Served
  <2>5. CASE ~OpenWrite(t)
    <3>1. \A c \in Commands : Up(c, s)' = Up(c, s)
      <4>1. toDev' = toDev
        BY <1>1, <2>5 DEF OpenStart, OpenSteps, OpenCheck, OpenUnregister, OpenOpened, OpenConnDone,
           OpenCancelDone, OpenCancelled, OpenOnly, wireVars
      <4> QED BY <4>1, SameUpDown
    <3>2. /\ op[s] # "ok" /\ op'[s] # "wait" /\ (Unsent(s)' => Unsent(s))
          /\ op'[s] \in {"cancel", "ok"} => op[s] = "wait"
          /\ op'[s] = "ok" => hasRemote[s] /\ cl' = cl
      BY <1>3, <2>5, FunctionTypes DEF OpenStart, OpenSteps, OpenCheck, OpenUnregister, OpenOpened, OpenConnDone,
         OpenCancelDone, OpenCancelled, OpenOnly, OpenGoes, Opened, Unsent
    <3>3. \/ cl' = cl
          \/ /\ op[s] = "wait" /\ op'[s] = "cancel"
             /\ \E c \in Closers : /\ cl[s][c] = "idle" /\ \A d \in Closers \ {c} : cl'[s][d] = cl[s][d]
                                   /\ cl'[s][c] = IF hasRemote[s] THEN "check" ELSE "remove"
      <4>1. CASE \E c \in Closers : OpenCancelled(t, c)
        <5>1. PICK c \in Closers : OpenCancelled(t, c)
          BY <4>1
        <5> DEFINE x == IF hasRemote[s] THEN "check" ELSE "remove"
        <5>2. x \in CloserPcs /\ cl' = [cl EXCEPT ![s][c] = x] /\ cl[s][c] = "idle"
          BY <1>3, <5>1 DEF OpenCancelled, StartClose, CloserPcs
        <5> HIDE DEF x
        <5>3. cl'[s][c] = x /\ \A d \in Closers \ {c} : cl'[s][d] = cl[s][d]
          BY <5>2, CloserIs
        <5>4. op[s] = "wait" /\ op'[s] = "cancel"
          BY <1>3, <5>1, FunctionTypes DEF OpenCancelled, OpenGoes
        <5> QED BY <5>2, <5>3, <5>4 DEF x
      <4>2. CASE OpenStart(t) \/ OpenSteps(t)
        BY <2>5, <4>2 DEF OpenStart, OpenSteps, OpenCheck, OpenUnregister, OpenOpened, OpenConnDone,
           OpenCancelDone, OpenOnly
      <4> QED BY <4>1, <4>2
    <3>4. /\ Closing(s) => Closing(s)'
          /\ FinishPending(s) => FinishPending(s)'
          /\ Held(s)' => op[s] = "wait" /\ hasRemote[s] /\ cl' = cl
          /\ ~Held(s)
      BY <1>1, <3>2, <3>3 DEF Closing, FinishPending, Held
    <3>5. Balanced(s)' /\ OpenedOnce(s)'
      BY <2>1, <2>2, <2>3, <3>1, <3>2, SeenTypes DEF Served, Balanced, OpenedOnce, One
    <3>6. ClosedAfter(s)'
      BY <2>2, <2>3, <3>1, <3>2, <3>3, <3>4 DEF Served, ClosedAfter, Unsent
    <3>7. Answered(s)' /\ EndIsComing(s)' /\ Woken(s)'
      BY <2>1, <2>2, <2>3, <3>1, <3>2, <3>4 DEF Served, Answered, EndIsComing, Woken
    <3>8. Told(s)'
      BY <3>4 DEF Served, ClosedAfter, Told, Closing
    <3> QED BY <3>5, <3>6, <3>7, <3>8 DEF Served
  <2> QED BY <2>4, <2>5
<1> QED BY <1>2, <1>3

LEMMA WriterKeepsServed ==
  ASSUME TypeOK, TypeOK', NEW s \in Streams, NEW t \in Streams, Served(s),
         WriteStart(t) \/ WriteSteps(t) \/ WriteCancelled(t)
  PROVE  Served(s)'
<1> DEFINE o == Packet("WRTE", t, wsent[t] + 1)
<1>0. o \in Packets /\ o.stream = t /\ o.command = "WRTE"
  BY FunctionTypes, PacketIsPacket DEF Commands, Packet
<1>1. /\ UNCHANGED <<toHost, linkUp, closePc, rlPc, rlPkt, devVars, op, cl, hasRemote, ended>>
      /\ toDev' = toDev \/ WriteSucceeds(o, SocketClosed) \/ WriteFails
  BY DEF WriteStart, WriteSteps, WriteCheck, WriteSend, WriteAcked, WriteEnded, WriteCancelled,
     WriteGivesUp, WriterFrame, wireVars, streamVars, connVars, loopVars
<1> HIDE DEF o
<1>2. CASE s # t
  <2>1. /\ wr'[s] = wr[s] /\ ack'[s] = ack[s] /\ wsent'[s] = wsent[s]
        /\ abandoned'[s] = abandoned[s] /\ confirmed'[s] = confirmed[s]
    BY <1>2, FunctionTypes DEF WriteStart, WriteSteps, WriteCheck, WriteSend, WriteAcked, WriteEnded,
       WriteCancelled, WriteGivesUp, WriteReturns, WriterFrame, streamVars
  <2>2. Unseen(s)
    BY <1>1, <2>1 DEF Unseen, Done, devVars
  <2>3. Calm(s)
    BY <1>0, <1>1, <1>2, CalmIfAway, FunctionTypes
  <2> QED BY <2>2, <2>3, CalmKeepsServed
<1>3. CASE s = t
  <2>1. \A c \in Commands : Up(c, s) \in Nat /\ Down(c, s) \in Nat /\ Down(c, s)' = Down(c, s)
    BY <1>1, CountsAreNat, SameUpDown
  <2>2. /\ "OPEN" \in Commands /\ "OKAY" \in Commands /\ "WRTE" \in Commands /\ "CLSE" \in Commands
    BY DEF Commands
  <2>3. /\ Taking(s)' = Taking(s) /\ ConnDone' = ConnDone /\ Done(s)' = Done(s) /\ linkUp' = linkUp
        /\ Closing(s)' = Closing(s) /\ FinishPending(s)' = FinishPending(s) /\ Held(s)' = Held(s)
        /\ Unsent(s)' = Unsent(s)
        /\ dev' = dev /\ devGot' = devGot /\ hasRemote' = hasRemote /\ op' = op /\ cl' = cl
    BY <1>1 DEF Taking, ConnDone, Done, Closing, FinishPending, Held, Unsent, devVars
  <2>4. Held(s)
    BY <1>3 DEF WriteStart, WriteSteps, WriteCheck, WriteSend, WriteAcked, WriteEnded, WriteCancelled,
       WriteGivesUp, Served, Answered
  <2>5. ASSUME \A c \in Commands : Up(c, s)' = Up(c, s), Balanced(s)', Woken(s)'
        PROVE  Served(s)'
    <3>1. OpenedOnce(s)' /\ Answered(s)' /\ ClosedAfter(s)' /\ EndIsComing(s)' /\ Told(s)'
      BY <2>1, <2>2, <2>3, <2>4, <2>5 DEF Served, OpenedOnce, Answered, ClosedAfter, EndIsComing, Told
    <3> QED BY <2>5, <3>1 DEF Served
  <2>6. CASE WriteStart(t) \/ WriteCheck(t)
    <3>1. /\ wr[s] # "wait" /\ wr'[s] # "wait" /\ \A c \in Commands : Up(c, s)' = Up(c, s)
          /\ ack' = ack /\ wsent' = wsent /\ abandoned' = abandoned /\ confirmed' = confirmed
      BY <1>3, <2>6, FunctionTypes, SameUpDown DEF WriteStart, WriteCheck, WriteReturns, WriterFrame, wireVars, streamVars
    <3>2. Balanced(s)' /\ Woken(s)'
      BY <2>1, <2>2, <2>3, <3>1 DEF Served, Balanced, Woken, One
    <3> QED BY <2>5, <3>1, <3>2
  <2>7. CASE WriteSend(t)
    <3>1. ack' = ack /\ confirmed' = confirmed /\ abandoned' = abandoned /\ wr[s] = "write"
      BY <1>3, <2>7 DEF WriteSend, WriterFrame, streamVars
    <3>2. CASE WriteFails /\ WriteReturns(s) /\ wsent' = wsent
      <4>1. wr'[s] # "wait" /\ \A c \in Commands : Up(c, s)' = Up(c, s)
        BY <3>2, FunctionTypes, SameUpDown DEF WriteReturns, WriteFails
      <4>2. Balanced(s)' /\ Woken(s)'
        BY <2>1, <2>2, <2>3, <3>1, <3>2, <4>1 DEF Served, Balanced, Woken, One
      <4> QED BY <2>5, <4>1, <4>2
    <3>3. CASE /\ WriteSucceeds(o, SocketClosed) /\ wr' = [wr EXCEPT ![s] = "wait"]
               /\ wsent' = [wsent EXCEPT ![s] = @ + 1]
      <4>1. wsent'[s] = wsent[s] + 1 /\ wr'[s] = "wait"
        BY <3>3, FunctionTypes
      <4>2. \A c \in Commands : Is(o, c, s) = One(c = "WRTE")
        BY <1>0, <1>3 DEF Is, One
      <4>3. \A c \in Commands \ {"WRTE"} : Up(c, s)' = Up(c, s)
        BY <1>0, <2>1, <3>3, <4>2, UpWritten DEF One
      <4>4. linkUp => Up("WRTE", s)' > 0
        BY <1>0, <2>1, <2>2, <3>3, <4>2, UpWritten DEF One
      <4>5. Balanced(s)'
        BY <2>1, <2>2, <2>3, <3>1, <4>1, <4>3, SeenTypes DEF Served, Balanced, One
      <4>6. OpenedOnce(s)' /\ Answered(s)' /\ ClosedAfter(s)' /\ EndIsComing(s)'
        BY <2>1, <2>2, <2>3, <2>4, <4>3 DEF Served, OpenedOnce, Answered, ClosedAfter, EndIsComing
      <4>7. Told(s)' /\ Woken(s)'
        BY <2>2, <2>3, <4>3, <4>4 DEF Served, Told, Woken
      <4> QED BY <4>5, <4>6, <4>7 DEF Served
    <3> QED BY <1>3, <2>7, <3>2, <3>3 DEF WriteSend, o
  <2>8. CASE WriteAcked(t)
    <3>1. /\ wr[s] = "wait" /\ wr'[s] # "wait" /\ ack[s] /\ ~ack'[s] /\ wsent' = wsent
          /\ confirmed'[s] = wsent[s] /\ abandoned' = abandoned
          /\ \A c \in Commands : Up(c, s)' = Up(c, s)
      BY <1>3, <2>8, FunctionTypes, SameUpDown DEF WriteAcked, WriteReturns, wireVars
    <3>2. Balanced(s)'
      BY <2>1, <2>2, <2>3, <3>1, SeenTypes DEF Served, Balanced, One
    <3>3. Woken(s)'
      BY <3>1 DEF Woken
    <3> QED BY <2>5, <3>1, <3>2, <3>3
  <2>9. CASE WriteEnded(t) \/ WriteCancelled(t)
    <3>1. /\ wr[s] = "wait" /\ wr'[s] # "wait" /\ ack' = ack /\ wsent' = wsent /\ confirmed' = confirmed
          /\ abandoned'[s] = abandoned[s] + 1
          /\ \A c \in Commands : Up(c, s)' = Up(c, s)
      BY <1>3, <2>9, FunctionTypes, SameUpDown DEF WriteEnded, WriteCancelled, WriteGivesUp, WriteReturns,
         WriterFrame, wireVars, streamVars
    <3>2. Balanced(s)'
      BY <2>1, <2>2, <2>3, <3>1, SeenTypes DEF Served, Balanced, One
    <3>3. Woken(s)'
      BY <3>1 DEF Woken
    <3> QED BY <2>5, <3>1, <3>2, <3>3
  <2> QED BY <2>6, <2>7, <2>8, <2>9 DEF WriteSteps
<1> QED BY <1>2, <1>3

LEMMA ReaderKeepsServed ==
  ASSUME TypeOK, TypeOK', NEW s \in Streams, NEW t \in Streams, Served(s), ReadData(t) \/ ReadError(t)
  PROVE  Served(s)'
<1>1. UNCHANGED <<wireVars, devVars, connVars, loopVars, callVars, hasRemote, ack, ended>>
  BY DEF ReadData, ReadError, Reads, ReadReturnsData, ReadReturnsError
<1>2. Unseen(s)
  BY <1>1 DEF Unseen, Done, devVars, callVars, writeVars
<1>3. Calm(s)
  BY <1>1, CalmIfAway DEF wireVars, connVars, loopVars, callVars
<1> QED BY <1>2, <1>3, CalmKeepsServed

LEMMA FinishIs ==
  ASSUME TypeOK, NEW S, NEW x \in Causes, finish(S, x), NEW s \in Streams
  PROVE  /\ Done(s)' <=> Done(s) \/ s \in S
         /\ hasRemote' = hasRemote /\ ack' = ack
BY FunctionTypes DEF finish, Done, Causes

LEMMA CloserKeepsServed ==
  ASSUME TypeOK, TypeOK', NEW s \in Streams, NEW t \in Streams, NEW c \in Closers, Served(s), Served(t),
         CloseStart(t, c) \/ CloseSteps(t, c)
  PROVE  Served(s)'
<1> DEFINE o == Packet("CLSE", t, 0)
<1>0. o \in Packets /\ o.stream = t /\ o.command = "CLSE"
  BY PacketIsPacket DEF Commands, Packet
<1>1. /\ UNCHANGED <<toHost, linkUp, closePc, rlPc, rlPkt, devVars, op, writeVars, hasRemote, ack>>
      /\ toDev' = toDev \/ (CloseWrite(t, c) /\ WriteSucceeds(o, SocketClosed))
  BY DEF CloseStart, CloseSteps, CloseCheck, CloseWrite, CloseRemove, CloseFinish, CloserGoes, finish,
     WriteFails, wireVars, streamVars, connVars, loopVars
<1> HIDE DEF o
<1>2. PICK x \in CloserPcs :
        /\ cl' = [cl EXCEPT ![t][c] = x]
        /\ \/ CloseStart(t, c) /\ cl[t][c] = "idle" /\ x = "check" /\ hasRemote[t]
           \/ CloseCheck(t, c) /\ cl[t][c] = "check" /\ x = "write"
           \/ CloseCheck(t, c) /\ cl[t][c] = "check" /\ x = "remove" /\ ConnDone
           \/ CloseWrite(t, c) /\ cl[t][c] = "write" /\ x = "remove"
           \/ CloseRemove(t, c) /\ cl[t][c] = "remove" /\ x = "finish"
           \/ CloseFinish(t, c) /\ cl[t][c] = "finish" /\ x = "done"
  <2>1. CASE CloseStart(t, c)
    <3>1. hasRemote[t]
      BY <2>1 DEF CloseStart, Served, Answered
    <3> QED BY <2>1, <3>1 DEF CloseStart, StartClose, CloserPcs
  <2>2. CASE CloseCheck(t, c)
    BY <2>2 DEF CloseCheck, CloserGoes, CloserPcs
  <2>3. CASE CloseWrite(t, c) \/ CloseRemove(t, c) \/ CloseFinish(t, c)
    BY <2>3 DEF CloseWrite, CloseRemove, CloseFinish, CloserGoes, CloserPcs
  <2> QED BY <2>1, <2>2, <2>3 DEF CloseSteps
<1>3. /\ \A u \in Streams \ {t} : cl'[u] = cl[u]
      /\ cl'[t][c] = x /\ \A d \in Closers \ {c} : cl'[t][d] = cl[t][d]
  BY <1>2, CloserIs
<1>4. /\ Done(s) => Done(s)'
      /\ x = "done" => Done(t)'
  <2>1. CASE CloseFinish(t, c)
    BY <2>1, FinishIs DEF CloseFinish, Causes
  <2>2. CASE ~CloseFinish(t, c)
    <3>1. ended' = ended
      BY <2>2 DEF CloseStart, CloseSteps, CloseCheck, CloseWrite, CloseRemove, streamVars
    <3>2. x # "done"
      BY <1>2, <2>2
    <3> QED BY <3>1, <3>2 DEF Done
  <2> QED BY <2>1, <2>2
<1>5. CASE s # t
  <2>1. Unseen(s)
    BY <1>1, <1>3, <1>4, <1>5 DEF Unseen, devVars, writeVars
  <2>2. Calm(s)
    BY <1>0, <1>1, <1>3, <1>5, CalmIfAway, FunctionTypes
  <2> QED BY <2>1, <2>2, CalmKeepsServed
<1>6. CASE s = t
  <2>1. \A d \in Commands : Up(d, s) \in Nat /\ Down(d, s) \in Nat /\ Down(d, s)' = Down(d, s)
    BY <1>1, CountsAreNat, SameUpDown
  <2>2. /\ "OPEN" \in Commands /\ "OKAY" \in Commands /\ "WRTE" \in Commands /\ "CLSE" \in Commands
    BY DEF Commands
  <2>3. /\ Taking(s)' = Taking(s) /\ ConnDone' = ConnDone /\ linkUp' = linkUp /\ Held(s)' = Held(s)
        /\ Unsent(s)' = Unsent(s)
        /\ dev' = dev /\ devGot' = devGot /\ hasRemote' = hasRemote /\ op' = op /\ wr' = wr /\ ack' = ack
        /\ wsent' = wsent /\ abandoned' = abandoned /\ confirmed' = confirmed
    BY <1>1 DEF Taking, ConnDone, Held, Unsent, devVars, writeVars
  <2>4. /\ \A d \in Commands \ {"CLSE"} : Up(d, s)' = Up(d, s)
        /\ ~CloseWrite(t, c) => Up("CLSE", s)' = Up("CLSE", s)
        /\ CloseWrite(t, c) /\ linkUp => Up("CLSE", s)' > 0
    <3>1. \A d \in Commands : Is(o, d, s) = One(d = "CLSE")
      BY <1>0, <1>6 DEF Is, One
    <3>2. CASE toDev' = toDev /\ ~(CloseWrite(t, c) /\ WriteSucceeds(o, SocketClosed))
      <4>1. CloseWrite(t, c) => ~linkUp
        BY <3>2 DEF CloseWrite, WriteFails, o
      <4> QED BY <3>2, <4>1, SameUpDown
    <3>3. CASE CloseWrite(t, c) /\ WriteSucceeds(o, SocketClosed)
      BY <1>0, <2>1, <2>2, <3>1, <3>3, UpWritten DEF One
    <3> QED BY <1>1, <3>2, <3>3
  <2>5. /\ Closing(s) => Closing(s)'
        /\ Closing(s)' => Closing(s) \/ ConnDone \/ CloseWrite(t, c)
        /\ FinishPending(s) => FinishPending(s)' \/ Done(s)'
    <3>1. Closing(s) => Closing(s)'
      BY <1>2, <1>3, <1>6 DEF Closing
    <3>2. Closing(s)' => Closing(s) \/ ConnDone \/ CloseWrite(t, c)
      BY <1>2, <1>3, <1>6 DEF Closing
    <3>3. FinishPending(s) => FinishPending(s)' \/ Done(s)'
      BY <1>1, <1>2, <1>3, <1>4, <1>6 DEF FinishPending
    <3> QED BY <3>1, <3>2, <3>3
  <2>6. Balanced(s)' /\ OpenedOnce(s)' /\ Answered(s)'
    BY <2>1, <2>2, <2>3, <2>4 DEF Served, Balanced, OpenedOnce, Answered
  <2>7. ClosedAfter(s)'
    <3>1. ~(Unsent(s) \/ op[s] = "wait")
      <4>1. (hasRemote[s] /\ Held(s)) \/ cl[s][c] # "idle"
        BY <1>2, <1>6 DEF CloseStart
      <4> QED BY <4>1 DEF Served, ClosedAfter, Unsent, Held
    <3>2. \A d \in Closers : /\ cl'[s][d] \in {"check", "write"} => hasRemote[s]
                             /\ cl'[s][d] = "done" => Done(s)'
      BY <1>2, <1>3, <1>4, <1>6 DEF Served, ClosedAfter
    <3>3. Up("CLSE", s)' > 0 => hasRemote[s] /\ Closing(s)'
      <4>1. CASE CloseWrite(t, c)
        BY <1>2, <1>3, <1>6, <4>1 DEF Served, ClosedAfter, Closing, CloseWrite, CloserGoes
      <4> QED BY <2>4, <2>5, <4>1 DEF Served, ClosedAfter
    <3> QED BY <2>3, <3>1, <3>2, <3>3 DEF ClosedAfter
  <2>8. EndIsComing(s)' /\ Woken(s)'
    BY <1>4, <2>1, <2>2, <2>3, <2>4, <2>5 DEF Served, EndIsComing, Woken
  <2>9. Told(s)'
    BY <2>2, <2>3, <2>4, <2>5 DEF Served, Told
  <2> QED BY <2>6, <2>7, <2>8, <2>9 DEF Served
<1> QED BY <1>5, <1>6

LEMMA ConnectionCloseKeepsServed ==
  ASSUME TypeOK, TypeOK', NEW s \in Streams, Served(s), AppClose \/ CloseSocket \/ Sweep
  PROVE  Served(s)'
<1>1. /\ UNCHANGED <<toHost, devVars, hasRemote, ack, loopVars, callVars>>
      /\ (Done(s) => Done(s)') /\ (linkUp' => linkUp) /\ ConnDone'
      /\ toDev' = toDev \/ (toDev' = <<>> /\ linkUp' = FALSE)
  <2>1. CASE Sweep
    <3>1. /\ finish(streams, "conn") /\ "conn" \in Causes /\ closePc' = "closed"
          /\ UNCHANGED <<toHost, toDev, linkUp, devVars, loopVars, callVars>>
      BY <2>1 DEF Sweep, SweepOf, Causes, wireVars
    <3>2. (Done(s) => Done(s)') /\ hasRemote' = hasRemote /\ ack' = ack
      BY <3>1, FinishIs
    <3> QED BY <3>1, <3>2 DEF ConnDone
  <2>2. CASE AppClose \/ CloseSocket
    BY <2>2 DEF AppClose, CloseSocket, ConnDone, Done, wireVars, streamVars
  <2> QED BY <2>1, <2>2
<1>2. Unseen(s)
  BY <1>1 DEF Unseen, devVars, callVars, writeVars
<1>3. Taking(s)' = Taking(s) /\ FinishPending(s)' = FinishPending(s)
  BY <1>1 DEF Taking, FinishPending, loopVars, callVars
<1>4. \A c : Up(c, s) \in Nat /\ Down(c, s) \in Nat
  BY CountsAreNat
<1>5. /\ \A c : Up(c, s)' <= Up(c, s) /\ (linkUp' => Up(c, s)' = Up(c, s))
      /\ \A c : Down(c, s)' <= Down(c, s) /\ (linkUp' => Down(c, s)' = Down(c, s))
  BY <1>1, <1>4, SameUpDown
<1>6. Calm(s)
  BY <1>1, <1>3, <1>5 DEF Calm
<1> QED BY <1>2, <1>6, CalmKeepsServed

LEMMA ReadPacketKeepsServed ==
  ASSUME TypeOK, TypeOK', Findable, NEW s \in Streams, Served(s), ReadPacket
  PROVE  Served(s)'
<1> DEFINE p == Head(toHost)
<1>0. /\ p.command \in Commands /\ toHost # <<>> /\ toHost' = Tail(toHost)
  <2>1. toHost \in Seq(Packets) /\ toHost # <<>> /\ toHost' = Tail(toHost)
    BY FunctionTypes DEF ReadPacket
  <2>2. p \in Packets
    BY <2>1, TailIsSeq
  <2> QED BY <2>1, <2>2 DEF Packets
<1>1. /\ rlPc = "read" /\ UNCHANGED <<toDev, linkUp, streamVars, devVars, closePc, callVars>>
      /\ p.stream \in streams => rlPc' = Handler[p.command] /\ rlPkt' = p
      /\ p.stream \notin streams => rlPc' = "read"
  BY DEF ReadPacket, LoopFrame, loopVars
<1>2. \A c : Down(c, s) = Down(c, s)' + Is(p, c, s) /\ Up(c, s)' = Up(c, s)
  BY <1>0, <1>1, DownRead, SameUpDown
<1>3. \A c : /\ Up(c, s) \in Nat /\ Down(c, s) \in Nat /\ Down(c, s)' \in Nat
  BY CountsAreNat, CountsStayNat
<1>i. \A c : Is(p, c, s) = One(p.command = c /\ p.stream = s)
  BY DEF Is, One
<1> HIDE DEF p
<1>4. Unseen(s)
  BY <1>1 DEF Unseen, Done, devVars, streamVars, callVars, writeVars
<1>5. /\ linkUp' = linkUp /\ ConnDone' = ConnDone /\ Done(s)' = Done(s)
      /\ ~Taking(s) /\ (FinishPending(s) => FinishPending(s)')
  BY <1>1 DEF ConnDone, Done, Taking, FinishPending, streamVars, callVars
<1>6. Taking(s)' <=> p.command = "OKAY" /\ p.stream = s /\ s \in streams
  BY <1>0, <1>1 DEF Taking, Handler, Handlers, Commands
<1>7. CASE p.stream # s \/ p.command \in {"OPEN", "WRTE"}
  <2>1. Is(p, "OKAY", s) = 0 /\ Is(p, "CLSE", s) = 0
    BY <1>7, <1>i DEF One
  <2>2. Down("OKAY", s)' = Down("OKAY", s) /\ Down("CLSE", s)' = Down("CLSE", s)
    BY <1>2, <1>3, <2>1
  <2>3. ~Taking(s)'
    BY <1>6, <1>7
  <2>4. /\ \A c \in {"OPEN", "WRTE", "CLSE"} : Up(c, s)' <= Up(c, s) /\ Up(c, s)' = Up(c, s)
        /\ \A c \in {"OKAY", "CLSE"} : Down(c, s)' <= Down(c, s) /\ Down(c, s)' = Down(c, s)
    BY <1>2, <1>3, <2>2
  <2>5. (linkUp' => linkUp) /\ (ConnDone => ConnDone') /\ Taking(s)' = Taking(s)
    BY <1>5, <2>3 DEF Taking
  <2>6. Calm(s)
    BY <1>5, <2>4, <2>5 DEF Calm
  <2> QED BY <1>4, <2>6, CalmKeepsServed
<1>8. CASE p.stream = s /\ p.command \in {"OKAY", "CLSE"}
  <2>1. /\ Down("OKAY", s) = Down("OKAY", s)' + One(p.command = "OKAY")
        /\ Down("CLSE", s) = Down("CLSE", s)' + One(p.command = "CLSE")
    BY <1>2, <1>i, <1>8
  <2>2. /\ Taking(s)' => p.command = "OKAY"
        /\ Taking(s)' \/ FinishPending(s)' \/ op[s] \notin {"wait", "cancel", "ok"} \/ Done(s)
    <3>1. CASE s \in streams
      BY <1>0, <1>1, <1>6, <1>8, <3>1 DEF FinishPending, Handler, Handlers
    <3>2. CASE s \notin streams
      BY <1>5, <1>6, <3>2 DEF Findable
    <3> QED BY <1>6, <3>1, <3>2
  <2>3. p.command = "CLSE" => ~Taking(s)'
    BY <1>6
  <2>4. p.command = "OKAY" => Down("OKAY", s) > 0 /\ Down("CLSE", s)' = Down("CLSE", s)
    BY <1>3, <2>1 DEF One
  <2>5. p.command = "CLSE" => Down("OKAY", s)' = Down("OKAY", s)
    BY <1>3, <2>1 DEF One
  <2>6. Balanced(s)'
    <3>1. Down("OKAY", s)' + One(Taking(s)') <= Down("OKAY", s) + One(Taking(s))
      BY <1>3, <1>5, <2>1, <2>2 DEF One
    <3> QED BY <1>2, <1>3, <1>4, <2>1, <2>2, <1>5, SeenTypes DEF Served, Balanced, Unseen, Unsent, One
  <2>7. OpenedOnce(s)' /\ ClosedAfter(s)' /\ Told(s)'
    BY <1>2, <1>4, <1>5 DEF Served, Unseen, OpenedOnce, ClosedAfter, Told, Unsent, Held, Closing
  <2>8. Answered(s)'
    BY <1>3, <1>4, <1>8, <2>1, <2>2, <2>4, <2>5 DEF Served, Unseen, Answered, Held
  <2>9. EndIsComing(s)'
    BY <1>4, <1>5, <1>8, <2>2, <2>3, <2>4 DEF Served, Unseen, EndIsComing
  <2>10. Woken(s)'
    <3>1. wr[s] = "wait" => op[s] = "ok"
      BY DEF Served, Answered, Held
    <3> QED BY <1>4, <1>5, <2>2, <3>1 DEF Unseen, Woken
  <2> QED BY <2>6, <2>7, <2>8, <2>9, <2>10 DEF Served
<1> QED BY <1>0, <1>7, <1>8 DEF Commands

LEMMA HandleOkayKeepsServed ==
  ASSUME TypeOK, TypeOK', NEW s \in Streams, Served(s), HandleOkay
  PROVE  Served(s)'
<1>1. /\ rlPc = "okay" /\ rlPc' = "read" /\ rlPkt.stream \in Streams
      /\ hasRemote' = [hasRemote EXCEPT ![rlPkt.stream] = TRUE]
      /\ ack' = [ack EXCEPT ![rlPkt.stream] = @ \/ hasRemote[rlPkt.stream]]
      /\ UNCHANGED <<toDev, toHost, linkUp, ended, devVars, closePc, callVars>>
  BY DEF HandleOkay, LoopGoes, handleOkay, LoopFrame, wireVars, TypeOK, ConnTypeOK, Packets
<1>2. \A c : /\ Up(c, s)' = Up(c, s) /\ Down(c, s)' = Down(c, s)
             /\ Up(c, s) \in Nat /\ Down(c, s) \in Nat
  BY <1>1, SameUpDown, CountsAreNat
<1>3. /\ ConnDone' = ConnDone /\ Done(s)' = Done(s) /\ FinishPending(s)' = FinishPending(s)
      /\ ~Taking(s)'
  BY <1>1 DEF ConnDone, Done, FinishPending, Taking, callVars
<1>4. CASE rlPkt.stream # s
  <2>1. Unseen(s)
    BY <1>1, <1>3, <1>4, FunctionTypes DEF Unseen, devVars, callVars, writeVars
  <2>2. Calm(s)
    BY <1>1, <1>2, <1>3, <1>4 DEF Calm, Taking
  <2> QED BY <2>1, <2>2, CalmKeepsServed
<1>5. CASE rlPkt.stream = s
  <2>1. /\ Taking(s) /\ hasRemote'[s] = TRUE /\ ack'[s] = (ack[s] \/ hasRemote[s])
    BY <1>1, <1>5, FunctionTypes DEF Taking
  <2>2. /\ op' = op /\ dev' = dev /\ wr' = wr /\ cl' = cl /\ wsent' = wsent /\ linkUp' = linkUp
        /\ devGot' = devGot /\ abandoned' = abandoned /\ confirmed' = confirmed
    BY <1>1 DEF devVars, callVars, writeVars
  <2>3. Balanced(s)'
    BY <1>2, <1>3, <2>1, <2>2, SeenTypes DEF Served, Balanced, Unsent, One
  <2>4. OpenedOnce(s)' /\ EndIsComing(s)' /\ Told(s)'
    BY <1>2, <1>3, <2>2 DEF Served, OpenedOnce, EndIsComing, Told, Unsent, Held, Closing
  <2>5. Answered(s)' /\ ClosedAfter(s)'
    BY <1>2, <1>3, <2>1, <2>2 DEF Served, Answered, ClosedAfter, Unsent, Held, Closing
  <2>6. Woken(s)'
    <3>1. ack'[s] = TRUE \/ wr[s] # "wait"
      BY <2>1, SeenTypes DEF Served, Answered
    <3> QED BY <2>2, <3>1 DEF Woken
  <2> QED BY <2>3, <2>4, <2>5, <2>6 DEF Served
<1> QED BY <1>4, <1>5

LEMMA ReadLoopKeepsServed ==
  ASSUME TypeOK, TypeOK', Findable, NEW s \in Streams, Served(s), ReadLoop
  PROVE  Served(s)'
<1> DEFINE Rest == Deliver \/ AckCheck \/ AckSend \/ FinishEOF \/ ReadFail \/ LoopClose \/ LoopExit
<1>1. CASE ReadPacket
  BY <1>1, ReadPacketKeepsServed
<1>2. CASE HandleOkay
  BY <1>2, HandleOkayKeepsServed
<1>3. CASE Rest
  <2>1. UNCHANGED <<linkUp, hasRemote, ack, devVars, callVars>>
    BY <1>3 DEF Deliver, AckCheck, AckSend, FinishEOF, ReadFail, FailsTo, LoopClose, LoopExit, LoopGoes, LoopFrame,
       wireVars, streamVars, deliverQueues, deliverDrops, finish
  <2>2. /\ rlPc \notin {"read", "okay", "finish"} \/ FinishEOF \/ ReadFail
        /\ rlPc' \notin {"okay", "finish"} /\ rlPc # "okay"
        /\ ConnDone => ConnDone'
    BY <1>3 DEF Deliver, AckCheck, AckSend, FinishEOF, ReadFail, FailsTo, LoopClose, LoopExit, LoopGoes, LoopFrame,
       ConnDone
  <2>3. /\ Done(s) => Done(s)'
        /\ rlPc = "finish" /\ rlPkt.stream = s => Done(s)'
    <3>1. CASE FinishEOF
      <4>1. finish({rlPkt.stream}, "remote") /\ "remote" \in Causes
        BY <3>1 DEF FinishEOF, Causes
      <4> QED BY <4>1, FinishIs
    <3>2. CASE ~FinishEOF
      <4>1. ended' = ended
        BY <1>3, <3>2 DEF Deliver, AckCheck, AckSend, ReadFail, FailsTo, LoopClose, LoopExit, streamVars,
           deliverQueues, deliverDrops
      <4>2. rlPc # "finish"
        BY <2>2, <3>2 DEF ReadFail, FailsTo, LoopGoes
      <4> QED BY <4>1, <4>2 DEF Done
    <3> QED BY <3>1, <3>2
  <2>4. Unseen(s)
    BY <2>1, <2>3 DEF Unseen, devVars, callVars, writeVars
  <2>5. /\ ~Taking(s) /\ ~Taking(s)'
        /\ FinishPending(s) => FinishPending(s)' \/ Done(s)'
    BY <2>1, <2>2, <2>3 DEF Taking, FinishPending, callVars
  <2>6. \A d \in {"OPEN", "WRTE", "CLSE"} : Up(d, s)' <= Up(d, s) /\ (linkUp' => Up(d, s)' = Up(d, s))
    <3>1. SUFFICES ASSUME NEW d \in {"OPEN", "WRTE", "CLSE"} PROVE Up(d, s)' = Up(d, s)
      BY CountsAreNat
    <3>2. CASE AckSend
      <4> DEFINE o == Packet("OKAY", rlPkt.stream, 0)
      <4>1. rlPkt.stream \in Streams
        BY <3>2 DEF AckSend, LoopGoes, TypeOK, ConnTypeOK, Packets
      <4>2. o \in Packets /\ o.command = "OKAY" /\ (WriteSucceeds(o, SocketClosed) \/ WriteFails)
        BY <3>2, <4>1, PacketIsPacket DEF AckSend, Commands, Packet
      <4> HIDE DEF o
      <4>3. Is(o, d, s) = 0
        BY <4>2 DEF Is
      <4> QED BY <4>2, <4>3, UpWritten, CountsAreNat
    <3>3. CASE ~AckSend
      <4>1. toDev' = toDev
        BY <1>3, <3>3 DEF Deliver, AckCheck, FinishEOF, ReadFail, FailsTo, LoopClose, LoopExit, wireVars
      <4> QED BY <4>1, SameUpDown
    <3> QED BY <3>2, <3>3
  <2>7. \A d \in {"OKAY", "CLSE"} : Down(d, s)' <= Down(d, s) /\ (linkUp' => Down(d, s)' = Down(d, s))
    <3>1. toHost' = toHost \/ (toHost' = <<>> /\ ~linkUp')
      BY <1>3 DEF Deliver, AckCheck, AckSend, FinishEOF, ReadFail, FailsTo, LoopClose, LoopExit, wireVars
    <3> QED BY <3>1, SameUpDown, CountsAreNat
  <2>8. (linkUp' => linkUp) /\ (ConnDone => ConnDone') /\ Taking(s)' = Taking(s)
    BY <2>1, <2>2, <2>5 DEF Taking
  <2>9. Calm(s)
    BY <2>5, <2>6, <2>7, <2>8 DEF Calm
  <2> QED BY <2>4, <2>9, CalmKeepsServed
<1> QED BY <1>1, <1>2, <1>3 DEF ReadLoop

LEMMA OutsideKeepsOthersServed ==
  ASSUME TypeOK, TypeOK', NEW s \in Streams, NEW t \in Streams, s # t, Served(s),
         DevHandles(t) \/ DevWrites(t) \/ DevCloses(t), HostFrame
  PROVE  Served(s)'
<1>1. UNCHANGED <<linkUp, streamVars, connVars, loopVars, callVars>>
  BY DEF HostFrame, DevHandles, DevAccepts, DevRefuses, DevConsumes, DevHandlesOkay, DevHandlesClse,
     DevIgnoresWrte, DevWrites, DevCloses, Receives
<1>2. dev'[s] = dev[s] /\ devGot'[s] = devGot[s]
  BY FunctionTypes DEF DevHandles, DevAccepts, DevRefuses, DevConsumes, DevHandlesOkay, DevHandlesClse,
     DevIgnoresWrte, DevWrites, DevCloses, devVars
<1>3. Unseen(s)
  BY <1>1, <1>2 DEF Unseen, Done, streamVars, callVars, writeVars
<1>4. ASSUME NEW c
      PROVE  Up(c, s)' = Up(c, s) /\ Up(c, s) \in Nat
  <2>1. toDev' = toDev \/ \E d \in Commands : Receives(d, t)
    BY DEF DevHandles, DevAccepts, DevRefuses, DevConsumes, DevHandlesOkay, DevHandlesClse,
       DevIgnoresWrte, DevWrites, DevCloses, Commands
  <2>2. ASSUME NEW d \in Commands, Receives(d, t)
        PROVE  Up(c, s)' = Up(c, s)
    <3>1. Up(c, s) = Up(c, s)' + One(c = d /\ s = t)
      BY <2>2, UpReceived
    <3> QED BY <3>1, CountsStayNat DEF One
  <2> QED BY <2>1, <2>2, SameUpDown, CountsAreNat
<1>5. ASSUME NEW c
      PROVE  Down(c, s)' = Down(c, s) /\ Down(c, s) \in Nat
  <2>1. toHost' = toHost \/ \E p \in Packets : p.stream = t /\ toHost' = Append(toHost, p)
    <3>1. \A d \in Commands, n \in Nat : Packet(d, t, n) \in Packets /\ Packet(d, t, n).stream = t
      BY PacketIsPacket DEF Packet
    <3>2. devSent[t] + 1 \in Nat
      BY DEF TypeOK, DeviceTypeOK
    <3> QED BY <3>1, <3>2 DEF DevHandles, DevAccepts, DevRefuses, DevConsumes, DevHandlesOkay, DevHandlesClse,
          DevIgnoresWrte, DevWrites, DevCloses, Replies, Commands
  <2>2. ASSUME NEW p \in Packets, p.stream = t, toHost' = Append(toHost, p)
        PROVE  Down(c, s)' = Down(c, s)
    <3>1. Is(p, c, s) = 0
      BY <2>2 DEF Is
    <3> QED BY <2>2, <3>1, DownReplied, CountsAreNat
  <2> QED BY <2>1, <2>2, SameUpDown, CountsAreNat
<1>6. /\ \A c \in {"OPEN", "WRTE", "CLSE"} : Up(c, s)' <= Up(c, s) /\ Up(c, s)' = Up(c, s)
      /\ \A c \in {"OKAY", "CLSE"} : Down(c, s)' <= Down(c, s) /\ Down(c, s)' = Down(c, s)
  BY <1>4, <1>5
<1>7. /\ linkUp' = linkUp /\ ConnDone' = ConnDone /\ Taking(s)' = Taking(s)
      /\ FinishPending(s)' = FinishPending(s)
  BY <1>1 DEF ConnDone, Taking, FinishPending, connVars, loopVars, callVars
<1>8. Calm(s)
  BY <1>6, <1>7 DEF Calm
<1> QED BY <1>3, <1>8, CalmKeepsServed

LEMMA OutsideKeepsItsServed ==
  ASSUME TypeOK, TypeOK', NEW s \in Streams, Served(s),
         DevHandles(s) \/ DevWrites(s) \/ DevCloses(s), HostFrame
  PROVE  Served(s)'
<1>1. linkUp /\ UNCHANGED <<linkUp, streamVars, connVars, loopVars, callVars>>
  BY DEF HostFrame, DevHandles, DevAccepts, DevRefuses, DevConsumes, DevHandlesOkay, DevHandlesClse,
     DevIgnoresWrte, DevWrites, DevCloses, Receives
<1>2. /\ ConnDone' = ConnDone /\ Taking(s)' = Taking(s) /\ FinishPending(s)' = FinishPending(s)
      /\ Done(s)' = Done(s) /\ Closing(s)' = Closing(s) /\ Held(s)' = Held(s) /\ Unsent(s)' = Unsent(s)
      /\ op' = op /\ cl' = cl /\ wr' = wr /\ ack' = ack /\ hasRemote' = hasRemote
      /\ wsent' = wsent /\ confirmed' = confirmed /\ abandoned' = abandoned
  BY <1>1 DEF ConnDone, Taking, FinishPending, Done, Closing, Held, Unsent,
     streamVars, connVars, loopVars, callVars, writeVars
<1>3. \A c \in Commands : /\ Up(c, s) \in Nat /\ Up(c, s)' \in Nat
                          /\ Down(c, s) \in Nat /\ Down(c, s)' \in Nat
  BY CountsAreNat, CountsStayNat
<1>4. /\ "OPEN" \in Commands /\ "OKAY" \in Commands /\ "WRTE" \in Commands /\ "CLSE" \in Commands
  BY DEF Commands
<1>5. ASSUME NEW d \in Commands, Receives(d, s)
      PROVE  Up(d, s) = Up(d, s)' + 1 /\ \A c \in Commands \ {d} : Up(c, s)' = Up(c, s)
  <2>1. \A c \in Commands : Up(c, s) = Up(c, s)' + One(c = d)
    BY <1>5, UpReceived
  <2> QED BY <1>3, <2>1 DEF One
<1>6. ASSUME NEW d \in Commands, Replies(d, s)
      PROVE  Down(d, s)' = Down(d, s) + 1 /\ \A c \in Commands \ {d} : Down(c, s)' = Down(c, s)
  <2> DEFINE p == Packet(d, s, 0)
  <2>1. p \in Packets /\ toHost' = Append(toHost, p) /\ \A c \in Commands : Is(p, c, s) = One(c = d)
    BY <1>6, PacketIsPacket DEF Replies, Is, One, Packet
  <2> HIDE DEF p
  <2>2. \A c \in Commands : Down(c, s)' = Down(c, s) + One(c = d)
    BY <2>1, DownReplied
  <2> QED BY <1>3, <2>2 DEF One
<1>7. toDev' = toDev => \A c \in Commands : Up(c, s)' = Up(c, s)
  BY SameUpDown
<1>8. toHost' = toHost => \A c \in Commands : Down(c, s)' = Down(c, s)
  BY SameUpDown
<1>9. CASE DevAccepts(s)
  <2>1. /\ Up("OPEN", s) = Up("OPEN", s)' + 1 /\ \A c \in Commands \ {"OPEN"} : Up(c, s)' = Up(c, s)
        /\ Down("OKAY", s)' = Down("OKAY", s) + 1
        /\ \A c \in Commands \ {"OKAY"} : Down(c, s)' = Down(c, s)
        /\ dev'[s] = "open" /\ devGot' = devGot
    BY <1>4, <1>5, <1>6, <1>9, FunctionTypes DEF DevAccepts
  <2>2. dev[s] = "none" /\ Up("OPEN", s)' = 0 /\ ~Unsent(s)
    BY <1>3, <1>4, <2>1, SeenTypes DEF Served, OpenedOnce, One
  <2>3. ~hasRemote[s] /\ ~Held(s) /\ wr[s] # "wait"
    BY <2>2 DEF Served, Answered
  <2>4. Balanced(s)' /\ OpenedOnce(s)'
    BY <1>2, <1>3, <1>4, <2>1, <2>2, <2>3, SeenTypes DEF Served, Balanced, OpenedOnce, One
  <2>5. Answered(s)' /\ ClosedAfter(s)'
    BY <1>2, <1>3, <1>4, <2>1 DEF Served, Answered, ClosedAfter
  <2>6. EndIsComing(s)' /\ Told(s)' /\ Woken(s)'
    BY <1>2, <2>1, <2>3 DEF EndIsComing, Told, Woken
  <2> QED BY <2>4, <2>5, <2>6 DEF Served
<1>10. CASE DevRefuses(s)
  <2>1. /\ Up("OPEN", s) = Up("OPEN", s)' + 1 /\ \A c \in Commands \ {"OPEN"} : Up(c, s)' = Up(c, s)
        /\ Down("CLSE", s)' = Down("CLSE", s) + 1
        /\ \A c \in Commands \ {"CLSE"} : Down(c, s)' = Down(c, s)
        /\ dev'[s] = "closed" /\ devGot' = devGot
    BY <1>4, <1>5, <1>6, <1>10, FunctionTypes DEF DevRefuses
  <2>2. dev[s] = "none" /\ Up("OPEN", s)' = 0 /\ ~Unsent(s)
    BY <1>3, <1>4, <2>1, SeenTypes DEF Served, OpenedOnce, One
  <2>3. ~Held(s) /\ wr[s] # "wait"
    BY <2>2 DEF Served, Answered
  <2>4. Balanced(s)' /\ OpenedOnce(s)'
    BY <1>2, <1>3, <1>4, <2>1, <2>2, <2>3, SeenTypes DEF Served, Balanced, OpenedOnce, One
  <2>5. Answered(s)' /\ ClosedAfter(s)'
    BY <1>2, <1>3, <1>4, <2>1 DEF Served, Answered, ClosedAfter
  <2>6. EndIsComing(s)' /\ Told(s)' /\ Woken(s)'
    BY <1>2, <1>3, <1>4, <2>1, <2>3 DEF EndIsComing, Told, Woken
  <2> QED BY <2>4, <2>5, <2>6 DEF Served
<1>11. CASE DevConsumes(s)
  <2>1. /\ \A c \in Commands \ {"WRTE"} : Up(c, s)' = Up(c, s)
        /\ Down("OKAY", s)' = Down("OKAY", s) + 1
        /\ \A c \in Commands \ {"OKAY"} : Down(c, s)' = Down(c, s)
        /\ dev' = dev /\ dev[s] = "open" /\ devGot'[s] = devGot[s] + 1
    BY <1>4, <1>5, <1>6, <1>11, FunctionTypes DEF DevConsumes
  <2>2. Balanced(s)' /\ OpenedOnce(s)'
    BY <1>2, <1>3, <1>4, <2>1, SeenTypes DEF Served, Balanced, OpenedOnce, One
  <2>3. Answered(s)' /\ ClosedAfter(s)'
    BY <1>2, <1>3, <1>4, <2>1 DEF Served, Answered, ClosedAfter
  <2>4. EndIsComing(s)' /\ Told(s)' /\ Woken(s)'
    BY <1>1, <1>2, <1>3, <1>4, <2>1 DEF Served, EndIsComing, Told, Woken
  <2> QED BY <2>2, <2>3, <2>4 DEF Served
<1>12. CASE DevHandlesOkay(s) \/ DevWrites(s)
  <2>1. /\ \A c \in Commands \ {"OKAY"} : Up(c, s)' = Up(c, s)
        /\ dev' = dev /\ devGot' = devGot
    BY <1>4, <1>5, <1>7, <1>12 DEF DevHandlesOkay, DevWrites
  <2>2. \A c \in Commands \ {"WRTE"} : Down(c, s)' = Down(c, s)
    <3>1. CASE DevWrites(s)
      <4> DEFINE p == Packet("WRTE", s, devSent[s] + 1)
      <4>1. devSent[s] + 1 \in Nat
        BY DEF TypeOK, DeviceTypeOK
      <4>2. /\ p \in Packets /\ toHost' = Append(toHost, p)
            /\ \A c \in Commands \ {"WRTE"} : Is(p, c, s) = 0
        BY <1>4, <3>1, <4>1, PacketIsPacket DEF DevWrites, Is, Packet
      <4> HIDE DEF p
      <4> QED BY <1>3, <4>2, DownReplied
    <3>2. CASE DevHandlesOkay(s)
      BY <1>8, <3>2 DEF DevHandlesOkay
    <3> QED BY <1>12, <3>1, <3>2
  <2>3. Balanced(s)' /\ OpenedOnce(s)' /\ Answered(s)' /\ ClosedAfter(s)'
    BY <1>2, <1>4, <2>1, <2>2 DEF Served, Balanced, OpenedOnce, Answered, ClosedAfter
  <2>4. EndIsComing(s)' /\ Told(s)' /\ Woken(s)'
    BY <1>1, <1>2, <1>4, <2>1, <2>2 DEF Served, EndIsComing, Told, Woken
  <2> QED BY <2>3, <2>4 DEF Served
<1>13. CASE DevHandlesClse(s)
  <2>1. /\ Up("CLSE", s) > 0 /\ \A c \in Commands \ {"CLSE"} : Up(c, s)' = Up(c, s)
        /\ dev'[s] = "closed" /\ devGot' = devGot
        /\ Up("CLSE", s) = Up("CLSE", s)' + 1
    <3>1. Receives("CLSE", s) /\ dev' = [dev EXCEPT ![s] = "closed"] /\ devGot' = devGot
      BY <1>13 DEF DevHandlesClse
    <3>2. Up("CLSE", s) = Up("CLSE", s)' + 1 /\ \A c \in Commands \ {"CLSE"} : Up(c, s)' = Up(c, s)
      BY <1>4, <1>5, <3>1
    <3>3. Up("CLSE", s) > 0
      BY <1>3, <1>4, <3>2
    <3> QED BY <3>1, <3>2, <3>3, FunctionTypes
  <2>2. \A c \in Commands \ {"CLSE"} : Down(c, s)' = Down(c, s)
    BY <1>4, <1>6, <1>8, <1>13 DEF DevHandlesClse
  <2>3. /\ hasRemote[s] /\ Closing(s) /\ dev[s] # "none"
        /\ FinishPending(s) \/ Done(s)
    BY <2>1 DEF Served, ClosedAfter, Answered, Closing, FinishPending
  <2>4. Balanced(s)' /\ OpenedOnce(s)'
    BY <1>2, <1>3, <1>4, <2>1, <2>2, <2>3, SeenTypes DEF Served, Balanced, OpenedOnce, One
  <2>5. Answered(s)' /\ ClosedAfter(s)'
    BY <1>2, <1>3, <1>4, <2>1, <2>2, <2>3 DEF Served, Answered, ClosedAfter
  <2>6. EndIsComing(s)' /\ Told(s)' /\ Woken(s)'
    BY <1>2, <2>1, <2>3 DEF EndIsComing, Told, Woken
  <2> QED BY <2>4, <2>5, <2>6 DEF Served
<1>14. CASE DevIgnoresWrte(s)
  <2>1. /\ \A c \in Commands \ {"WRTE"} : Up(c, s)' = Up(c, s)
        /\ \A c \in Commands : Down(c, s)' = Down(c, s)
        /\ dev' = dev /\ dev[s] # "open" /\ devGot' = devGot
    BY <1>4, <1>5, <1>8, <1>14 DEF DevIgnoresWrte, devVars
  <2>2. Balanced(s)' /\ OpenedOnce(s)' /\ Answered(s)' /\ ClosedAfter(s)'
    BY <1>2, <1>4, <2>1 DEF Served, Balanced, OpenedOnce, Answered, ClosedAfter
  <2>3. EndIsComing(s)' /\ Told(s)'
    BY <1>1, <1>2, <1>4, <2>1 DEF Served, EndIsComing, Told
  <2>4. wr[s] = "wait" => op[s] = "ok" /\ dev[s] = "closed"
    BY <2>1, SeenTypes DEF Served, Answered, Held
  <2>5. Woken(s)'
    BY <1>1, <1>2, <1>4, <2>1, <2>4 DEF Served, EndIsComing, Woken
  <2> QED BY <2>2, <2>3, <2>5 DEF Served
<1>15. CASE DevCloses(s)
  <2>1. /\ \A c \in Commands : Up(c, s)' = Up(c, s)
        /\ Down("CLSE", s)' = Down("CLSE", s) + 1
        /\ \A c \in Commands \ {"CLSE"} : Down(c, s)' = Down(c, s)
        /\ dev[s] = "open" /\ dev'[s] = "closed" /\ devGot' = devGot
    BY <1>4, <1>6, <1>7, <1>15, FunctionTypes DEF DevCloses
  <2>2. Balanced(s)' /\ OpenedOnce(s)'
    BY <1>2, <1>3, <1>4, <2>1, SeenTypes DEF Served, Balanced, OpenedOnce, One
  <2>3. Answered(s)' /\ ClosedAfter(s)'
    BY <1>2, <1>3, <1>4, <2>1 DEF Served, Answered, ClosedAfter
  <2>4. EndIsComing(s)' /\ Told(s)' /\ Woken(s)'
    BY <1>2, <1>3, <1>4, <2>1 DEF EndIsComing, Told, Woken
  <2> QED BY <2>2, <2>3, <2>4 DEF Served
<1> QED BY <1>9, <1>10, <1>11, <1>12, <1>13, <1>14, <1>15 DEF DevHandles

LEMMA LinkFailsKeepsServed ==
  ASSUME TypeOK, TypeOK', NEW s \in Streams, Served(s), LinkFails
  PROVE  Served(s)'
<1>1. /\ ~linkUp' /\ linkUp /\ toDev' = <<>>
      /\ UNCHANGED <<toHost, devVars, streamVars, connVars, loopVars, callVars>>
  BY DEF LinkFails, LinkBreaks, HostFrame
<1>2. Unseen(s)
  BY <1>1 DEF Unseen, Done, devVars, streamVars, callVars, writeVars
<1>3. /\ Taking(s)' = Taking(s) /\ FinishPending(s)' = FinishPending(s) /\ ConnDone' = ConnDone
  BY <1>1 DEF Taking, FinishPending, ConnDone, loopVars, connVars, callVars
<1>4. /\ \A c : Up(c, s)' = 0 /\ 0 <= Up(c, s)
      /\ \A c : Down(c, s)' = Down(c, s) /\ Down(c, s) \in Nat
  BY <1>1, CountsAreNat, SameUpDown
<1>5. /\ \A c \in {"OPEN", "WRTE", "CLSE"} : Up(c, s)' <= Up(c, s)
      /\ \A c \in {"OKAY", "CLSE"} : Down(c, s)' <= Down(c, s) /\ Down(c, s)' = Down(c, s)
  BY <1>4
<1>6. Calm(s)
  BY <1>1, <1>3, <1>5 DEF Calm
<1> QED BY <1>2, <1>6, CalmKeepsServed

LEMMA InitServed ==
  ASSUME Init, NEW s \in Streams
  PROVE  Served(s)
<1>1. \A c : Up(c, s) = 0 /\ Down(c, s) = 0
  BY CountEmpty DEF Init, WireInit, Up, Down
<1>2. /\ op[s] = "idle" /\ wr[s] = "idle" /\ dev[s] = "none" /\ ~hasRemote[s] /\ ~ack[s]
      /\ wsent[s] = 0 /\ confirmed[s] = 0 /\ abandoned[s] = 0 /\ devGot[s] = 0
      /\ \A c \in Closers : cl[s][c] = "idle"
      /\ ~Taking(s)
  BY DEF Init, StreamInit, DeviceInit, Taking
<1>3. Unsent(s) /\ ~Held(s)
  BY <1>2 DEF Unsent, Held
<1>4. Balanced(s) /\ OpenedOnce(s)
  BY <1>1, <1>2, <1>3 DEF Balanced, OpenedOnce, One
<1>5. Answered(s) /\ ClosedAfter(s)
  BY <1>1, <1>2, <1>3 DEF Answered, ClosedAfter
<1>6. EndIsComing(s) /\ Told(s) /\ Woken(s)
  BY <1>2, <1>3 DEF EndIsComing, Told, Woken
<1> QED BY <1>4, <1>5, <1>6 DEF Served

AllServed == \A s \in Streams : Served(s)

LEMMA NextKeepsServed ==
  TypeOK /\ TypeOK' /\ Findable /\ AllServed /\ [Next]_vars => AllServed'
<1> SUFFICES ASSUME TypeOK, TypeOK', Findable, AllServed, [Next]_vars, NEW s \in Streams
             PROVE  Served(s)'
  BY DEF AllServed
<1>1. \A t \in Streams : Served(t)
  BY DEF AllServed
<1>2. CASE UNCHANGED vars \/ AllReturned
  <2>1. UNCHANGED vars
    BY <1>2 DEF AllReturned
  <2>2. Unseen(s)
    BY <2>1 DEF vars, Unseen, Done, devVars, streamVars, callVars, writeVars
  <2>3. Calm(s)
    BY <2>1, CalmIfAway DEF vars, wireVars, connVars, loopVars, callVars
  <2> QED BY <1>1, <2>2, <2>3, CalmKeepsServed
<1>3. ASSUME NEW t \in Streams,
             \/ OpenStart(t) \/ OpenSteps(t) \/ \E c \in Closers : OpenCancelled(t, c)
      PROVE  Served(s)'
  BY <1>1, <1>3, OpenKeepsServed
<1>4. ASSUME NEW t \in Streams,
             \/ WriteStart(t) \/ WriteSteps(t) \/ WriteCancelled(t)
             \/ ReadData(t) \/ ReadError(t)
             \/ \E c \in Closers : CloseStart(t, c) \/ CloseSteps(t, c)
      PROVE  Served(s)'
  BY <1>1, <1>4, WriterKeepsServed, ReaderKeepsServed, CloserKeepsServed
<1>5. ASSUME NEW t \in Streams, DevHandles(t) \/ DevWrites(t) \/ DevCloses(t), HostFrame
      PROVE  Served(s)'
  BY <1>1, <1>5, OutsideKeepsOthersServed, OutsideKeepsItsServed
<1>6. CASE AppClose \/ CloseSocket \/ Sweep \/ ReadLoop \/ LinkFails
  BY <1>1, <1>6, ConnectionCloseKeepsServed, ReadLoopKeepsServed, LinkFailsKeepsServed
<1>7. CASE Next /\ ~AllReturned
  BY <1>3, <1>4, <1>5, <1>6, <1>7 DEF Next, DeviceHandles, DeviceWrites, DeviceCloses
<1> QED BY <1>2, <1>7

LEMMA AlwaysServed == Spec => [](TypeOK /\ AllServed)
<1>1. Init => AllServed
  BY InitServed DEF AllServed
<1>2. TypeOK /\ TypeOK' /\ Findable /\ AllServed /\ [Next]_vars => AllServed'
  BY NextKeepsServed
<1>3. Reachable => Findable
  BY DEF Reachable
<1> QED BY <1>1, <1>2, <1>3, TypeCorrect, AlwaysReachable, PTL DEF Spec

(* A chunk that WriteContext counts as written (stream.go:125-126) was     *)
(* consumed by the service, but for one chunk per earlier write of the     *)
(* stream that gave up: no token is ever made out of the OKAY that answers *)
(* the OPEN, and no OKAY is used twice.                                    *)
THEOREM WrittenIsConsumed == Spec => []WrittenMeansConsumed
<1>1. AllServed => WrittenMeansConsumed
  BY DEF AllServed, Served, Balanced, WrittenMeansConsumed
<1> QED BY <1>1, AlwaysServed, PTL

(* A writer that waits in the select of stream.go:122 is never forgotten:  *)
(* as long as the link is up its chunk, the OKAY for it or the end of the  *)
(* stream is under way, although handleOkay drops an OKAY that finds s.ack *)
(* full (stream.go:44).                                                    *)
THEOREM WakeupIsComing == Spec => []NoLostWakeup
<1>1. TypeOK /\ AllServed => NoLostWakeup
  <2> SUFFICES ASSUME TypeOK, AllServed, NEW s \in Streams,
                      wr[s] = "wait", linkUp, ~Done(s), ~ack[s]
               PROVE  \/ Carries(toDev, "WRTE", s)
                      \/ Carries(toHost, "OKAY", s) \/ Carries(toHost, "CLSE", s)
                      \/ rlPc = "okay" /\ rlPkt.stream = s
                      \/ FinishPending(s)
    BY DEF NoLostWakeup
  <2>1. \/ Up("WRTE", s) > 0 \/ Down("OKAY", s) > 0 \/ Down("CLSE", s) > 0
        \/ Taking(s) \/ FinishPending(s)
    BY DEF AllServed, Served, Woken
  <2> QED BY <2>1, CarriesIsCount, FunctionTypes DEF Up, Down, Taking
<1> QED BY <1>1, AlwaysServed, PTL

(* Stream.Close of a stream that Open returned ends the service at the     *)
(* other side too while the connection lasts: its CLSE is under way or has *)
(* been handled (stream.go:139-149).                                       *)
THEOREM CloseEndsService == Spec => []ClosedStreamEndsService
<1>1. TypeOK /\ AllServed => ClosedStreamEndsService
  <2> SUFFICES ASSUME TypeOK, AllServed, NEW s \in Streams, Held(s), linkUp, ~ConnDone,
                      \E c \in Closers : cl[s][c] = "done"
               PROVE  dev[s] = "closed" \/ Carries(toDev, "CLSE", s)
    BY DEF ClosedStreamEndsService
  <2>1. dev[s] = "closed" \/ Up("CLSE", s) > 0
    BY DEF AllServed, Served, Told, Closing
  <2> QED BY <2>1, CarriesIsCount, FunctionTypes DEF Up
<1> QED BY <1>1, AlwaysServed, PTL

----------------------------------------------------------------------------
(* Every stream is a bounded pipe to its reader (StreamPipe): the          *)
(* invariant Piping.                                                       *)

Numbered(q, k) == \A i \in 1 .. Len(q) : q[i] = k + i

(* Each WRTE for s in the queue q carries chunk n.                         *)
Labelled(q, s, n) ==
  \A i \in 1 .. Len(q) : q[i].command = "WRTE" /\ q[i].stream = s => q[i].data = n

(* No WRTE for s is behind a CLSE for s.                                   *)
EndLast(q, s) ==
  \A i, j \in 1 .. Len(q) :
    i < j /\ q[i].command = "CLSE" /\ q[i].stream = s => ~(q[j].command = "WRTE" /\ q[j].stream = s)

LEMMA NumberedAppend ==
  ASSUME NEW q \in Seq(Nat), NEW k \in Nat, Numbered(q, k)
  PROVE  Numbered(Append(q, k + Len(q) + 1), k)
BY DEF Numbered

LEMMA NumberedTail ==
  ASSUME NEW q \in Seq(Nat), NEW k \in Nat, Numbered(q, k), q # <<>>
  PROVE  Head(q) = k + 1 /\ Numbered(Tail(q), k + 1)
BY DEF Numbered

LEMMA LabelledAppend ==
  ASSUME NEW q \in Seq(Packets), NEW p \in Packets, NEW s, NEW n, Labelled(q, s, n),
         p.command = "WRTE" /\ p.stream = s => p.data = n
  PROVE  Labelled(Append(q, p), s, n)
BY DEF Labelled

LEMMA LabelledTail ==
  ASSUME NEW q \in Seq(Packets), NEW s, NEW n, Labelled(q, s, n), q # <<>>
  PROVE  /\ Labelled(Tail(q), s, n)
         /\ Head(q).command = "WRTE" /\ Head(q).stream = s => Head(q).data = n
BY DEF Labelled

LEMMA NoneIsLabelled ==
  ASSUME NEW q \in Seq(Packets), NEW s, NEW n, Count(q, "WRTE", s) = 0
  PROVE  Labelled(q, s, n)
<1>1. ~Carries(q, "WRTE", s)
  BY CarriesIsCount
<1> QED BY <1>1 DEF Carries, Labelled

LEMMA EndLastAppend ==
  ASSUME NEW q \in Seq(Packets), NEW p \in Packets, NEW s, EndLast(q, s),
         p.command = "WRTE" /\ p.stream = s => Count(q, "CLSE", s) = 0
  PROVE  EndLast(Append(q, p), s)
<1>1. p.command = "WRTE" /\ p.stream = s => ~Carries(q, "CLSE", s)
  BY CarriesIsCount
<1> QED BY <1>1 DEF Carries, EndLast

LEMMA EndLastTail ==
  ASSUME NEW q \in Seq(Packets), NEW s, EndLast(q, s), q # <<>>
  PROVE  /\ EndLast(Tail(q), s)
         /\ Head(q).command = "CLSE" /\ Head(q).stream = s => Count(Tail(q), "WRTE", s) = 0
<1>1. /\ Tail(q) \in Seq(Packets) /\ Head(q) = q[1] /\ Len(Tail(q)) = Len(q) - 1 /\ Len(q) \in Nat \ {0}
      /\ \A i \in 1 .. Len(q) - 1 : Tail(q)[i] = q[i + 1]
  OBVIOUS
<1>2. EndLast(Tail(q), s)
  BY <1>1 DEF EndLast
<1>3. ASSUME Head(q).command = "CLSE", Head(q).stream = s
      PROVE  Count(Tail(q), "WRTE", s) = 0
  <2>1. ~Carries(Tail(q), "WRTE", s)
    BY <1>1, <1>3 DEF Carries, EndLast
  <2>2. Count(Tail(q), "WRTE", s) \in Nat /\ ~(Count(Tail(q), "WRTE", s) > 0)
    BY <1>1, <2>1, CarriesIsCount, CountType
  <2> QED BY <2>2
<1> QED BY <1>2, <1>3

Delivering(s) == rlPc = "deliver" /\ rlPkt.stream = s
Finishing(s) == rlPc = "finish" /\ rlPkt.stream = s
Reading == rlPc \notin {"close", "closing", "exit"}

(* Chunks sent and not yet queued; what allows adbd to send the next one.  *)
Under(s) == Down("WRTE", s) + One(Delivering(s))
Credit(s) == Acking(s) + Up("OKAY", s) + One(devReady[s])

OneAtATime(s) ==
  /\ Under(s) + Credit(s) <= 1
  /\ dev[s] = "none" => devSent[s] = 0 /\ Credit(s) = 0
  /\ Under(s) > 0 => Queued(s) + 1 = devSent[s]
  /\ Credit(s) > 0 => Queued(s) = devSent[s]
  /\ Queued(s) <= devSent[s]

InSequence(s) ==
  /\ Numbered(got[s], 0) /\ Numbered(recv[s], Len(got[s]))
  /\ Labelled(toHost, s, devSent[s])
  /\ Delivering(s) => rlPkt.data = devSent[s]

(* adbd sends nothing after its CLSE, so that readLoop comes to the end of *)
(* a stream after its last chunk.                                          *)
EndsAfterData(s) ==
  /\ EndLast(toHost, s)
  /\ ended[s] = "remote" \/ Finishing(s) => Under(s) = 0
  /\ ended[s] = "remote" \/ Finishing(s) \/ Down("CLSE", s) > 0 => dev[s] = "closed"

(* A stream loses a chunk only when it is closed here or readLoop stops.   *)
Whole(s) ==
  ended[s] = "remote" \/ (~Done(s) /\ (Finishing(s) \/ (s \in streams /\ Reading)))
    => Queued(s) + Under(s) = devSent[s]

Drained(s) == eof[s] => Done(s) /\ (ended[s] = "remote" => recv[s] = <<>>)

Piping(s) ==
  OneAtATime(s) /\ InSequence(s) /\ EndsAfterData(s) /\ Whole(s) /\ Drained(s)

(* What a step that moves no chunk to or from s leaves of it.              *)
Aside(s) ==
  /\ dev'[s] = dev[s] /\ devSent'[s] = devSent[s] /\ devReady'[s] = devReady[s]
  /\ got'[s] = got[s] /\ recv'[s] = recv[s] /\ eof'[s] = eof[s]
  /\ Done(s) => ended'[s] = ended[s]
  /\ ended'[s] = "remote" => ended[s] = "remote" \/ Finishing(s)
  /\ Acking(s)' + Up("OKAY", s)' <= Acking(s) + Up("OKAY", s)
  /\ Under(s)' <= Under(s) /\ Down("CLSE", s)' <= Down("CLSE", s)
  /\ Labelled(toHost', s, devSent[s]) /\ EndLast(toHost', s)
  /\ Delivering(s)' => rlPkt'.data = devSent[s]
  /\ Finishing(s)' => Under(s)' = 0 /\ dev[s] = "closed"
  /\ ~Done(s)' /\ (Finishing(s)' \/ (s \in streams' /\ Reading'))
       => Queued(s) + Under(s)' = devSent[s]

LEMMA PipeTypes ==
  ASSUME TypeOK, NEW s \in Streams
  PROVE  /\ Under(s) \in Nat /\ Acking(s) \in {0, 1} /\ Up("OKAY", s) \in Nat /\ Down("CLSE", s) \in Nat
         /\ Down("WRTE", s) \in Nat /\ devSent[s] \in Nat /\ devReady[s] \in BOOLEAN
         /\ Queued(s) \in Nat /\ Len(got[s]) \in Nat /\ Len(recv[s]) \in Nat
         /\ got[s] \in Seq(Nat) /\ recv[s] \in Seq(Nat) /\ toHost \in Seq(Packets) /\ Len(recv[s]) <= RecvCap
<1>1. /\ Up("OKAY", s) \in Nat /\ Down("CLSE", s) \in Nat /\ Down("WRTE", s) \in Nat
  BY CountsAreNat
<1>2. /\ devSent[s] \in Nat /\ devReady[s] \in BOOLEAN /\ got[s] \in Seq(Nat) /\ recv[s] \in Seq(Nat)
      /\ toHost \in Seq(Packets) /\ Len(recv[s]) <= RecvCap
  BY DEF TypeOK, DeviceTypeOK, StreamTypeOK, WireTypeOK
<1>3. Len(got[s]) \in Nat /\ Len(recv[s]) \in Nat
  BY <1>2
<1>4. Under(s) \in Nat
  BY <1>1 DEF Under, One
<1>5. Acking(s) \in {0, 1} /\ Queued(s) \in Nat
  BY KeptTypes
<1> QED BY <1>1, <1>2, <1>3, <1>4, <1>5

LEMMA PipeTypesNext ==
  ASSUME TypeOK', NEW s \in Streams
  PROVE  /\ Under(s)' \in Nat /\ Acking(s)' \in {0, 1} /\ Up("OKAY", s)' \in Nat /\ Down("CLSE", s)' \in Nat
         /\ Down("WRTE", s)' \in Nat /\ devSent'[s] \in Nat /\ devReady'[s] \in BOOLEAN
         /\ Queued(s)' \in Nat
<1>1. /\ Up("OKAY", s)' \in Nat /\ Down("CLSE", s)' \in Nat /\ Down("WRTE", s)' \in Nat
  BY CountsStayNat
<1>2. /\ devSent'[s] \in Nat /\ devReady'[s] \in BOOLEAN /\ got'[s] \in Seq(Nat) /\ recv'[s] \in Seq(Nat)
  BY DEF TypeOK, DeviceTypeOK, StreamTypeOK
<1>3. Under(s)' \in Nat
  BY <1>1 DEF Under, One
<1>4. Acking(s)' \in {0, 1} /\ Queued(s)' \in Nat
  BY KeptTypesNext
<1> QED BY <1>1, <1>2, <1>3, <1>4

LEMMA AsideKeepsPiping ==
  ASSUME TypeOK, TypeOK', NEW s \in Streams, Piping(s), Aside(s)
  PROVE  Piping(s)'
<1>1. Queued(s)' = Queued(s)
  BY DEF Aside, Queued
<1>2. Credit(s)' <= Credit(s) /\ Credit(s)' \in Nat /\ Credit(s) \in Nat
  <2>1. One(devReady[s]) \in Nat /\ One(devReady'[s]) = One(devReady[s])
    BY DEF Aside, One
  <2>2. Acking(s)' + Up("OKAY", s)' <= Acking(s) + Up("OKAY", s)
    BY DEF Aside
  <2>3. Credit(s)' = Acking(s)' + Up("OKAY", s)' + One(devReady'[s])
    BY DEF Credit, One
  <2>4. Acking(s) \in Nat /\ Up("OKAY", s) \in Nat
    BY PipeTypes
  <2>5. Acking(s)' \in Nat /\ Up("OKAY", s)' \in Nat
    BY PipeTypesNext
  <2>6. Credit(s) = Acking(s) + Up("OKAY", s) + One(devReady[s])
    BY DEF Credit
  <2> QED BY <2>1, <2>2, <2>3, <2>4, <2>5, <2>6
<1>3. OneAtATime(s)'
  <2>1. dev'[s] = dev[s] /\ devSent'[s] = devSent[s] /\ Under(s)' <= Under(s)
    BY DEF Aside
  <2>2. Under(s) \in Nat /\ Under(s)' \in Nat /\ Queued(s) \in Nat /\ devSent[s] \in Nat
    BY PipeTypes, PipeTypesNext
  <2>3. OneAtATime(s)
    BY DEF Piping
  <2>4. Under(s)' + Credit(s)' <= 1
    BY <1>2, <2>1, <2>2, <2>3 DEF OneAtATime
  <2>5. dev'[s] = "none" => devSent'[s] = 0 /\ Credit(s)' = 0
    BY <1>2, <2>1, <2>3 DEF OneAtATime
  <2>6. /\ Under(s)' > 0 => Queued(s)' + 1 = devSent'[s]
        /\ Credit(s)' > 0 => Queued(s)' = devSent'[s]
        /\ Queued(s)' <= devSent'[s]
    BY <1>1, <1>2, <2>1, <2>2, <2>3 DEF OneAtATime
  <2> QED BY <2>4, <2>5, <2>6 DEF OneAtATime
<1>4. InSequence(s)'
  BY DEF Aside, Piping, InSequence
<1>5. EndsAfterData(s)'
  BY PipeTypes, PipeTypesNext DEF Aside, Piping, EndsAfterData
<1>6. Whole(s)'
  <2>1. CASE ended'[s] = "remote"
    <3>1. Under(s) = 0 /\ Queued(s) + Under(s) = devSent[s]
      <4>1. ended[s] = "remote" \/ (~Done(s) /\ Finishing(s))
        BY <2>1 DEF Aside, Done
      <4> QED BY <4>1 DEF Piping, EndsAfterData, Whole
    <3>2. Under(s)' = 0
      BY <3>1, PipeTypes, PipeTypesNext DEF Aside
    <3> QED BY <1>1, <3>1, <3>2 DEF Whole, Aside
  <2>2. CASE ended'[s] # "remote"
    BY <1>1, <2>2 DEF Whole, Aside
  <2> QED BY <2>1, <2>2
<1>7. Drained(s)'
  BY DEF Aside, Piping, Drained, Done
<1> QED BY <1>3, <1>4, <1>5, <1>6, <1>7 DEF Piping

(* A step of the host that reads no packet and ends no stream for readLoop.*)
LEMMA StillKeepsPiping ==
  ASSUME TypeOK, TypeOK', NEW s \in Streams, Piping(s),
         UNCHANGED <<toHost, rlPc, rlPkt, devVars, got, recv, eof>>,
         Up("OKAY", s)' <= Up("OKAY", s),
         Done(s) => ended'[s] = ended[s], ended'[s] = "remote" => ended[s] = "remote",
         s \in streams' => s \in streams \/ Queued(s) + Under(s) = devSent[s]
  PROVE  Piping(s)'
<1>1. /\ Delivering(s)' = Delivering(s) /\ Finishing(s)' = Finishing(s) /\ Reading' = Reading
      /\ Acking(s)' = Acking(s)
  BY DEF Delivering, Finishing, Reading, Acking
<1>2. Down("WRTE", s)' = Down("WRTE", s) /\ Down("CLSE", s)' = Down("CLSE", s)
  BY SameUpDown
<1>3. Under(s)' = Under(s)
  BY <1>1, <1>2 DEF Under
<1>4. ~Done(s)' => ~Done(s)
  BY DEF Done
<1>5. /\ Acking(s)' + Up("OKAY", s)' <= Acking(s) + Up("OKAY", s)
      /\ Under(s)' <= Under(s) /\ Down("CLSE", s)' <= Down("CLSE", s)
  BY <1>1, <1>2, <1>3, PipeTypes, PipeTypesNext
<1>6. ~Done(s)' /\ (Finishing(s)' \/ (s \in streams' /\ Reading'))
        => Queued(s) + Under(s)' = devSent[s]
  BY <1>1, <1>3, <1>4 DEF Piping, Whole
<1>7. /\ Labelled(toHost', s, devSent[s]) /\ EndLast(toHost', s)
      /\ Delivering(s)' => rlPkt'.data = devSent[s]
      /\ Finishing(s)' => Under(s)' = 0 /\ dev[s] = "closed"
  BY <1>1, <1>3 DEF Piping, InSequence, EndsAfterData
<1>8. Aside(s)
  BY <1>5, <1>6, <1>7 DEF Aside, devVars
<1> QED BY <1>8, AsideKeepsPiping

LEMMA CreditOnlyByOkay ==
  ASSUME TypeOK, NEW s \in Streams,
         \/ toDev' = toDev \/ toDev' = <<>>
         \/ \E p \in Packets, b \in BOOLEAN : p.command # "OKAY" /\ (WriteSucceeds(p, b) \/ WriteFails)
  PROVE  Up("OKAY", s)' <= Up("OKAY", s)
<1>1. Up("OKAY", s) \in Nat
  BY CountsAreNat
<1>2. ASSUME NEW p \in Packets, NEW b \in BOOLEAN, p.command # "OKAY", WriteSucceeds(p, b) \/ WriteFails
      PROVE  Up("OKAY", s)' = Up("OKAY", s)
  <2>1. Is(p, "OKAY", s) = 0
    BY <1>2 DEF Is
  <2> QED BY <1>1, <1>2, <2>1, UpWritten
<1> QED BY <1>1, <1>2, SameUpDown

LEMMA OpenKeepsPiping ==
  ASSUME TypeOK, TypeOK', NEW s \in Streams, NEW t \in Streams, Piping(s), OpenedOnce(s),
         OpenStart(t) \/ OpenSteps(t) \/ \E c \in Closers : OpenCancelled(t, c)
  PROVE  Piping(s)'
<1> DEFINE o == Packet("OPEN", t, 0)
<1>0. o \in Packets /\ o.command = "OPEN"
  BY PacketIsPacket DEF Commands, Packet
<1> HIDE DEF o
<1>1. /\ UNCHANGED <<toHost, rlPc, rlPkt, devVars, got, recv, eof, ended>>
      /\ toDev' = toDev \/ WriteSucceeds(o, SocketClosed) \/ WriteFails
      /\ streams' \subseteq streams \/ (op[t] = "idle" /\ streams' = streams \cup {t})
  BY DEF OpenStart, OpenSteps, OpenCheck, OpenWrite, OpenUnregister, OpenOpened, OpenConnDone,
     OpenCancelDone, OpenCancelled, OpenOnly, OpenGoes, wireVars, streamVars, loopVars, o
<1>2. Up("OKAY", s)' <= Up("OKAY", s)
  BY <1>0, <1>1, CreditOnlyByOkay, FunctionTypes
<1>3. op[s] = "idle" => Queued(s) + Under(s) = devSent[s]
  <2>1. SUFFICES ASSUME op[s] = "idle" PROVE Queued(s) + Under(s) = devSent[s]
    OBVIOUS
  <2>2. Up("OPEN", s) \in Nat
    BY CountsAreNat
  <2>3. dev[s] = "none"
    BY <2>1, <2>2 DEF OpenedOnce, Unsent, One
  <2> QED BY <2>3, PipeTypes DEF Piping, OneAtATime
<1>4. s \in streams' => s \in streams \/ Queued(s) + Under(s) = devSent[s]
  BY <1>1, <1>3
<1> QED BY <1>1, <1>2, <1>4, StillKeepsPiping

LEMMA WriterKeepsPiping ==
  ASSUME TypeOK, TypeOK', NEW s \in Streams, NEW t \in Streams, Piping(s),
         WriteStart(t) \/ WriteSteps(t) \/ WriteCancelled(t)
  PROVE  Piping(s)'
<1> DEFINE o == Packet("WRTE", t, wsent[t] + 1)
<1>0. o \in Packets /\ o.command = "WRTE"
  BY FunctionTypes, PacketIsPacket DEF Commands, Packet
<1>1. /\ UNCHANGED <<toHost, rlPc, rlPkt, devVars, got, recv, eof, ended, streams>>
      /\ toDev' = toDev \/ WriteSucceeds(o, SocketClosed) \/ WriteFails
  BY DEF WriteStart, WriteSteps, WriteCheck, WriteSend, WriteAcked, WriteEnded, WriteCancelled,
     WriteGivesUp, WriterFrame, wireVars, streamVars, connVars, loopVars
<1> HIDE DEF o
<1>2. Up("OKAY", s)' <= Up("OKAY", s)
  BY <1>0, <1>1, CreditOnlyByOkay, FunctionTypes
<1> QED BY <1>1, <1>2, StillKeepsPiping

LEMMA FinishKeepsCause ==
  ASSUME TypeOK, NEW S, NEW x \in Causes, finish(S, x), NEW s \in Streams
  PROVE  /\ Done(s) => ended'[s] = ended[s]
         /\ ended'[s] = ended[s] \/ ended'[s] = x
         /\ UNCHANGED <<got, recv, eof>>
BY FunctionTypes DEF finish, Done

LEMMA CloserKeepsPiping ==
  ASSUME TypeOK, TypeOK', NEW s \in Streams, NEW t \in Streams, NEW c \in Closers, Piping(s),
         CloseStart(t, c) \/ CloseSteps(t, c)
  PROVE  Piping(s)'
<1> DEFINE o == Packet("CLSE", t, 0)
<1>0. o \in Packets /\ o.command = "CLSE"
  BY PacketIsPacket DEF Commands, Packet
<1>1. /\ UNCHANGED <<toHost, rlPc, rlPkt, devVars>> /\ streams' \subseteq streams
      /\ toDev' = toDev \/ WriteSucceeds(o, SocketClosed) \/ WriteFails
  BY DEF CloseStart, CloseSteps, CloseCheck, CloseWrite, CloseRemove, CloseFinish, CloserGoes,
     wireVars, connVars, loopVars
<1> HIDE DEF o
<1>2. Up("OKAY", s)' <= Up("OKAY", s)
  BY <1>0, <1>1, CreditOnlyByOkay, FunctionTypes
<1>3. /\ UNCHANGED <<got, recv, eof>> /\ (Done(s) => ended'[s] = ended[s])
      /\ ended'[s] = "remote" => ended[s] = "remote"
  <2>1. CASE CloseFinish(t, c)
    <3>1. finish({t}, "local") /\ "local" \in Causes
      BY <2>1 DEF CloseFinish, Causes
    <3> QED BY <3>1, FinishKeepsCause
  <2>2. CASE ~CloseFinish(t, c)
    BY <2>2 DEF CloseStart, CloseSteps, CloseCheck, CloseWrite, CloseRemove, streamVars
  <2> QED BY <2>1, <2>2
<1> QED BY <1>1, <1>2, <1>3, StillKeepsPiping

LEMMA ConnectionCloseKeepsPiping ==
  ASSUME TypeOK, TypeOK', NEW s \in Streams, Piping(s), AppClose \/ CloseSocket \/ Sweep
  PROVE  Piping(s)'
<1>1. /\ UNCHANGED <<toHost, rlPc, rlPkt, devVars>> /\ streams' \subseteq streams
      /\ toDev' = toDev \/ toDev' = <<>>
  BY DEF AppClose, CloseSocket, Sweep, SweepOf, wireVars, loopVars
<1>2. Up("OKAY", s)' <= Up("OKAY", s)
  BY <1>1, CreditOnlyByOkay
<1>3. /\ UNCHANGED <<got, recv, eof>> /\ (Done(s) => ended'[s] = ended[s])
      /\ ended'[s] = "remote" => ended[s] = "remote"
  <2>1. CASE Sweep
    <3>1. finish(streams, "conn") /\ "conn" \in Causes
      BY <2>1 DEF Sweep, SweepOf, Causes
    <3> QED BY <3>1, FinishKeepsCause
  <2>2. CASE AppClose \/ CloseSocket
    BY <2>2 DEF AppClose, CloseSocket, streamVars
  <2> QED BY <2>1, <2>2
<1> QED BY <1>1, <1>2, <1>3, StillKeepsPiping

LEMMA LinkFailsKeepsPiping ==
  ASSUME TypeOK, TypeOK', NEW s \in Streams, Piping(s), LinkFails
  PROVE  Piping(s)'
<1>1. /\ UNCHANGED <<toHost, rlPc, rlPkt, devVars, got, recv, eof, ended, streams>> /\ toDev' = <<>>
  BY DEF LinkFails, LinkBreaks, HostFrame, streamVars, connVars, loopVars
<1>2. Up("OKAY", s)' <= Up("OKAY", s)
  BY <1>1, CreditOnlyByOkay
<1> QED BY <1>1, <1>2, StillKeepsPiping

LEMMA ReaderKeepsPiping ==
  ASSUME TypeOK, TypeOK', NEW s \in Streams, NEW t \in Streams, Piping(s), ReadData(t) \/ ReadError(t)
  PROVE  Piping(s)'
<1>1. UNCHANGED <<toDev, toHost, rlPc, rlPkt, devVars, ended, streams>>
  BY DEF ReadData, ReadError, Reads, ReadReturnsData, ReadReturnsError, wireVars, loopVars, connVars
<1>2. /\ got \in [Streams -> Seq(Nat)] /\ recv \in [Streams -> Seq(Nat)] /\ eof \in [Streams -> BOOLEAN]
  BY DEF TypeOK, StreamTypeOK
<1>3. CASE s # t
  <2>1. got'[s] = got[s] /\ recv'[s] = recv[s] /\ eof'[s] = eof[s]
    BY <1>2, <1>3 DEF ReadData, ReadError, Reads, ReadReturnsData, ReadReturnsError
  <2>2. /\ Delivering(s)' = Delivering(s) /\ Finishing(s)' = Finishing(s) /\ Reading' = Reading
        /\ Under(s)' = Under(s) /\ Credit(s)' = Credit(s) /\ Down("CLSE", s)' = Down("CLSE", s)
        /\ Done(s)' = Done(s) /\ Queued(s)' = Queued(s)
    BY <1>1, <2>1, SameUpDown
       DEF Delivering, Finishing, Reading, Acking, Under, Credit, Done, Queued, One, devVars
  <2> QED BY <1>1, <2>1, <2>2
       DEF Piping, OneAtATime, InSequence, EndsAfterData, Whole, Drained, devVars
<1>4. CASE s = t
  <2>1. /\ Delivering(s)' = Delivering(s) /\ Finishing(s)' = Finishing(s) /\ Reading' = Reading
        /\ Under(s)' = Under(s) /\ Credit(s)' = Credit(s) /\ Down("CLSE", s)' = Down("CLSE", s)
        /\ Done(s)' = Done(s)
    BY <1>1, SameUpDown DEF Delivering, Finishing, Reading, Acking, Under, Credit, Done, One, devVars
  <2>2. CASE ReadError(t)
    <3>1. /\ got' = got /\ recv' = recv /\ recv[s] = <<>> /\ Done(s)
      BY <1>4, <2>2 DEF ReadError, Reads, ReadReturnsError
    <3>2. Queued(s)' = Queued(s)
      BY <3>1 DEF Queued
    <3> QED BY <1>1, <2>1, <3>1, <3>2
         DEF Piping, OneAtATime, InSequence, EndsAfterData, Whole, Drained, devVars
  <2>3. CASE ReadData(t)
    <3>1. /\ recv[s] # <<>> /\ got'[s] = Append(got[s], Head(recv[s])) /\ recv'[s] = Tail(recv[s])
          /\ eof' = eof
      BY <1>2, <1>4, <2>3 DEF ReadData, Reads, ReadReturnsData
    <3>2. /\ got[s] \in Seq(Nat) /\ recv[s] \in Seq(Nat) /\ Len(got[s]) \in Nat
      BY PipeTypes
    <3>3. Head(recv[s]) = Len(got[s]) + 1 /\ Numbered(Tail(recv[s]), Len(got[s]) + 1)
      BY <3>1, <3>2, NumberedTail DEF Piping, InSequence
    <3>4. Numbered(Append(got[s], Len(got[s]) + 1), 0)
      <4>1. Numbered(Append(got[s], 0 + Len(got[s]) + 1), 0)
        BY <3>2, NumberedAppend DEF Piping, InSequence
      <4>2. 0 + Len(got[s]) + 1 = Len(got[s]) + 1
        BY <3>2
      <4> QED BY <4>1, <4>2
    <3>5. /\ Len(got'[s]) = Len(got[s]) + 1 /\ Len(recv'[s]) = Len(recv[s]) - 1
      BY <3>1, <3>2, AppendIsSeq, TailIsSeq
    <3>6. Queued(s)' = Queued(s)
      <4> DEFINE m == Len(got[s])
                 n == Len(recv[s])
      <4>1. m \in Nat /\ n \in Nat
        BY PipeTypes
      <4>2. Queued(s)' = (m + 1) + (n - 1) /\ Queued(s) = m + n
        BY <3>5 DEF Queued
      <4> HIDE DEF m, n
      <4> QED BY <4>1, <4>2, OneMoved
    <3>7. Drained(s)'
      BY <1>1, <2>1, <3>1 DEF Piping, Drained
    <3>8. InSequence(s)'
      BY <1>1, <2>1, <3>1, <3>3, <3>4, <3>5 DEF Piping, InSequence, devVars
    <3> QED BY <1>1, <2>1, <3>6, <3>7, <3>8
         DEF Piping, OneAtATime, EndsAfterData, Whole, devVars
  <2> QED BY <2>2, <2>3
<1> QED BY <1>3, <1>4

LEMMA ReadPacketKeepsPiping ==
  ASSUME TypeOK, TypeOK', NEW s \in Streams, Piping(s), ReadPacket
  PROVE  Piping(s)'
<1> DEFINE p == Head(toHost)
<1>0. toHost \in Seq(Packets) /\ toHost # <<>> /\ toHost' = Tail(toHost)
  BY FunctionTypes DEF ReadPacket
<1>1. /\ rlPc = "read" /\ UNCHANGED <<toDev, linkUp, streamVars, devVars, closePc, callVars>>
      /\ p.stream \in streams => rlPc' = Handler[p.command] /\ rlPkt' = p
      /\ p.stream \notin streams => rlPc' = "read"
      /\ streams' \subseteq streams
  BY DEF ReadPacket, LoopFrame, loopVars
<1>2. \A c : Down(c, s) = Down(c, s)' + Is(p, c, s) /\ Up(c, s)' = Up(c, s)
  BY <1>0, <1>1, DownRead, SameUpDown
<1>3. /\ Labelled(toHost', s, devSent[s]) /\ EndLast(toHost', s)
      /\ p.command = "WRTE" /\ p.stream = s => p.data = devSent[s]
      /\ p.command = "CLSE" /\ p.stream = s => Count(toHost', "WRTE", s) = 0
  BY <1>0, LabelledTail, EndLastTail DEF Piping, InSequence, EndsAfterData
<1>4. p.command = "CLSE" /\ p.stream = s => Down("WRTE", s)' = 0
  <2>1. Down("WRTE", s)' = Count(toHost', "WRTE", s)
    BY DEF Down, Count, Places
  <2> QED BY <1>3, <2>1
<1>5. p.command \in Commands
  <2>1. p \in Packets
    BY <1>0, TailIsSeq
  <2> QED BY <2>1 DEF Packets
<1>6. \A c : Is(p, c, s) = One(p.command = c /\ p.stream = s)
  BY DEF Is, One
<1> HIDE DEF p
<1>7. /\ ~Delivering(s) /\ ~Finishing(s) /\ Acking(s) = 0 /\ Reading
      /\ Acking(s)' = 0
      /\ Delivering(s)' <=> p.command = "WRTE" /\ p.stream = s /\ s \in streams
      /\ Finishing(s)' <=> p.command = "CLSE" /\ p.stream = s /\ s \in streams
      /\ Delivering(s)' => rlPkt' = p
  BY <1>1, <1>5 DEF Delivering, Finishing, Acking, Reading, Handler, Handlers, Commands
<1>8. /\ Under(s)' <= Under(s)
      /\ s \in streams => Under(s)' = Under(s)
      /\ Finishing(s)' => Under(s)' = 0
  <2>1. Down("WRTE", s) = Down("WRTE", s)' + One(p.command = "WRTE" /\ p.stream = s)
    BY <1>2, <1>6
  <2>2. Down("WRTE", s) \in Nat /\ Down("WRTE", s)' \in Nat
    BY PipeTypes, PipeTypesNext
  <2>3. Under(s) = Down("WRTE", s)
    BY <1>7, <2>2 DEF Under, One
  <2>4. Under(s)' = Down("WRTE", s)' + (IF Delivering(s)' THEN 1 ELSE 0)
    BY DEF Under, One
  <2> QED BY <1>4, <1>7, <2>1, <2>2, <2>3, <2>4 DEF One
<1>9. /\ Down("CLSE", s)' <= Down("CLSE", s)
      /\ p.command = "CLSE" /\ p.stream = s => Down("CLSE", s) > 0
  <2>1. Down("CLSE", s) = Down("CLSE", s)' + One(p.command = "CLSE" /\ p.stream = s)
    BY <1>2, <1>6
  <2> QED BY <2>1, PipeTypes, PipeTypesNext DEF One
<1>10. /\ Delivering(s)' => rlPkt'.data = devSent[s]
       /\ Finishing(s)' => Under(s)' = 0 /\ dev[s] = "closed"
  BY <1>3, <1>7, <1>8, <1>9 DEF Piping, EndsAfterData
<1>11. ~Done(s)' /\ (Finishing(s)' \/ (s \in streams' /\ Reading'))
         => Queued(s) + Under(s)' = devSent[s]
  BY <1>1, <1>7, <1>8 DEF Piping, Whole, Done, streamVars
<1>12. Acking(s)' + Up("OKAY", s)' <= Acking(s) + Up("OKAY", s)
  BY <1>2, <1>7, PipeTypes
<1>13. Aside(s)
  BY <1>1, <1>3, <1>8, <1>9, <1>10, <1>11, <1>12 DEF Aside, devVars, streamVars
<1> QED BY <1>13, AsideKeepsPiping

LEMMA DeliverKeepsPiping ==
  ASSUME TypeOK, TypeOK', NEW s \in Streams, Piping(s),
         LoopGoes("deliver", "ackCheck"), deliverQueues(rlPkt.stream, rlPkt.data), UNCHANGED wireVars
  PROVE  Piping(s)'
<1> DEFINE t == rlPkt.stream
<1>1. /\ rlPc = "deliver" /\ rlPc' = "ackCheck" /\ rlPkt' = rlPkt /\ t \in Streams /\ rlPkt.data \in Nat
      /\ recv' = [recv EXCEPT ![t] = Append(@, rlPkt.data)]
      /\ UNCHANGED <<wireVars, devVars, got, ended, eof, streams>>
  BY DEF LoopGoes, LoopFrame, deliverQueues, TypeOK, ConnTypeOK, Packets
<1>2. recv \in [Streams -> Seq(Nat)]
  BY DEF TypeOK, StreamTypeOK
<1>3. \A c : Up(c, s)' = Up(c, s) /\ Down(c, s)' = Down(c, s)
  BY <1>1, SameUpDown DEF wireVars
<1>4. /\ ~Delivering(s)' /\ ~Finishing(s)' /\ ~Finishing(s) /\ Reading /\ Reading'
      /\ (Delivering(s) <=> t = s) /\ Acking(s) = 0 /\ Done(s)' = Done(s)
      /\ Acking(s)' = One(t = s)
  BY <1>1 DEF Delivering, Finishing, Reading, Acking, Done, One
<1>5. CASE s # t
  <2>1. recv'[s] = recv[s]
    BY <1>1, <1>2, <1>5
  <2>2. Under(s)' = Under(s) /\ Acking(s)' = Acking(s)
    BY <1>3, <1>4, <1>5 DEF Under, One
  <2>3. Acking(s)' + Up("OKAY", s)' <= Acking(s) + Up("OKAY", s)
    BY <1>3, <2>2, PipeTypes
  <2>4. Under(s)' <= Under(s) /\ Down("CLSE", s)' <= Down("CLSE", s)
    BY <1>3, <2>2, PipeTypes
  <2>5. Aside(s)
    BY <1>1, <1>4, <2>1, <2>2, <2>3, <2>4
       DEF Aside, Piping, InSequence, EndsAfterData, Whole, devVars, wireVars
  <2> QED BY <2>5, AsideKeepsPiping
<1>6. CASE s = t
  <2>1. /\ Delivering(s) /\ rlPkt.data = devSent[s] /\ Acking(s)' = 1
        /\ recv'[s] = Append(recv[s], rlPkt.data)
    BY <1>1, <1>2, <1>4, <1>6 DEF Piping, InSequence, One
  <2>2. Under(s) = Down("WRTE", s) + 1 /\ Under(s)' = Down("WRTE", s)
    <3>1. Under(s)' = Down("WRTE", s)' + 0
      BY <1>4 DEF Under, One
    <3> QED BY <1>3, <2>1, <3>1, PipeTypes DEF Under, One
  <2>3. Credit(s) \in Nat /\ Credit(s) = Up("OKAY", s) + One(devReady[s])
        /\ Up("OKAY", s) \in Nat /\ One(devReady[s]) \in {0, 1}
    BY <1>4, PipeTypes DEF Credit, One
  <2>4. Down("WRTE", s) = 0 /\ Credit(s) = 0 /\ Queued(s) + 1 = devSent[s]
    BY <2>2, <2>3, PipeTypes DEF Piping, OneAtATime
  <2>5. Under(s)' = 0 /\ Credit(s)' = 1
    <3>1. devReady' = devReady
      BY <1>1 DEF devVars
    <3>2. Credit(s)' = 1 + Up("OKAY", s) + One(devReady[s])
      BY <1>3, <2>1, <3>1 DEF Credit, One
    <3> QED BY <2>2, <2>3, <2>4, <3>2
  <2>6. Queued(s)' = devSent[s] /\ Len(recv'[s]) = Len(recv[s]) + 1
    <3>1. Len(recv'[s]) = Len(recv[s]) + 1
      BY <1>1, <2>1, PipeTypes, AppendIsSeq
    <3> DEFINE m == Len(got[s])
               n == Len(recv[s])
    <3>2. m \in Nat /\ n \in Nat
      BY PipeTypes
    <3>3. Queued(s)' = m + (n + 1) /\ Queued(s) = m + n
      BY <1>1, <3>1 DEF Queued
    <3> HIDE DEF m, n
    <3>4. Queued(s)' = Queued(s) + 1
      BY <3>2, <3>3
    <3> QED BY <2>4, <3>1, <3>4
  <2>7. OneAtATime(s)'
    <3>1. dev[s] # "none"
      BY <2>4, PipeTypes DEF Piping, OneAtATime
    <3> QED BY <1>1, <2>5, <2>6, <3>1, PipeTypes DEF OneAtATime, devVars
  <2>8. InSequence(s)'
    <3>1. rlPkt.data = Len(got[s]) + Len(recv[s]) + 1
      BY <2>1, <2>4 DEF Queued
    <3>2. Numbered(Append(recv[s], Len(got[s]) + Len(recv[s]) + 1), Len(got[s]))
      BY PipeTypes, NumberedAppend DEF Piping, InSequence
    <3> QED BY <1>1, <1>4, <2>1, <3>1, <3>2 DEF Piping, InSequence, devVars, wireVars
  <2>9. ended[s] # "remote"
    BY <2>2, <2>4 DEF Piping, EndsAfterData
  <2>10. EndsAfterData(s)' /\ Drained(s)'
    BY <1>1, <1>3, <1>4, <2>9 DEF Piping, EndsAfterData, Drained, devVars, wireVars
  <2>11. Whole(s)'
    BY <1>1, <2>5, <2>6, PipeTypes DEF Whole, devVars
  <2> QED BY <2>7, <2>8, <2>10, <2>11 DEF Piping
<1> QED BY <1>5, <1>6

LEMMA ReadLoopKeepsPiping ==
  ASSUME TypeOK, TypeOK', NEW s \in Streams, Piping(s), ReadLoop
  PROVE  Piping(s)'
<1> DEFINE Drops == LoopGoes("deliver", "read") /\ deliverDrops(rlPkt.stream) /\ UNCHANGED wireVars
           Rest == HandleOkay \/ Drops \/ AckCheck \/ AckSend \/ FinishEOF \/ ReadFail \/ LoopClose \/ LoopExit
<1>1. CASE ReadPacket
  BY <1>1, ReadPacketKeepsPiping
<1>2. CASE Deliver /\ ~Drops
  BY <1>2, DeliverKeepsPiping DEF Deliver
<1>3. CASE Rest
  <2>1. /\ UNCHANGED <<devVars, got, recv, eof, streams>>
        /\ rlPc' \notin {"deliver", "finish"}
        /\ toHost' = toHost \/ (toHost' = <<>> /\ ~Reading')
        /\ Reading' => Reading
        /\ rlPc = "deliver" => Done(rlPkt.stream)
    BY <1>3 DEF HandleOkay, AckCheck, AckSend, FinishEOF, ReadFail, FailsTo, LoopClose, LoopExit, LoopGoes, LoopFrame,
       wireVars, streamVars, handleOkay, deliverDrops, finish, Reading
  <2>2. /\ Done(s) => ended'[s] = ended[s]
        /\ ended'[s] = "remote" => ended[s] = "remote" \/ Finishing(s)
    <3>1. CASE FinishEOF
      <4>1. rlPc = "finish" /\ finish({rlPkt.stream}, "remote") /\ "remote" \in Causes
        BY <3>1 DEF FinishEOF, LoopGoes, Causes
      <4>2. rlPkt.stream # s => ended'[s] = ended[s]
        BY <4>1 DEF finish
      <4> QED BY <4>1, <4>2, FinishKeepsCause DEF Finishing
    <3>2. CASE ~FinishEOF
      BY <1>3, <3>2 DEF HandleOkay, AckCheck, AckSend, ReadFail, FailsTo, LoopClose, LoopExit, handleOkay,
         deliverDrops, streamVars
    <3> QED BY <3>1, <3>2
  <2>3. Acking(s)' + Up("OKAY", s)' <= Acking(s) + Up("OKAY", s)
    <3>1. CASE AckSend
      <4> DEFINE o == Packet("OKAY", rlPkt.stream, 0)
      <4>1. rlPc = "ackWrite" /\ rlPc' = "read" /\ rlPkt.stream \in Streams
        BY <3>1 DEF AckSend, LoopGoes, TypeOK, ConnTypeOK, Packets
      <4>2. o \in Packets /\ o.stream = rlPkt.stream /\ (WriteSucceeds(o, SocketClosed) \/ WriteFails)
        BY <3>1, <4>1, PacketIsPacket DEF AckSend, Commands, Packet
      <4> HIDE DEF o
      <4>3. Is(o, "OKAY", s) \in {0, 1} /\ (Is(o, "OKAY", s) = 1 => Acking(s) = 1) /\ Acking(s)' = 0
        BY <4>1, <4>2 DEF Is, Acking
      <4>4. Up("OKAY", s)' = Up("OKAY", s) + Is(o, "OKAY", s) \/ Up("OKAY", s)' = Up("OKAY", s)
        BY <4>2, UpWritten
      <4> QED BY <4>3, <4>4, PipeTypes, PipeTypesNext
    <3>2. CASE ~AckSend
      <4>1. toDev' = toDev
        BY <1>3, <3>2 DEF HandleOkay, AckCheck, FinishEOF, ReadFail, FailsTo, LoopClose, LoopExit, wireVars
      <4>2. rlPc' \in {"ackCheck", "ackWrite"} => rlPc \in {"ackCheck", "ackWrite"} /\ rlPkt' = rlPkt
        BY <1>3, <3>2 DEF HandleOkay, AckCheck, FinishEOF, ReadFail, FailsTo, LoopClose, LoopExit, LoopGoes
      <4>3. Acking(s)' <= Acking(s)
        BY <4>2 DEF Acking
      <4>4. Up("OKAY", s)' = Up("OKAY", s)
        BY <4>1, SameUpDown
      <4> QED BY <4>3, <4>4, PipeTypes, PipeTypesNext
    <3> QED BY <3>1, <3>2
  <2>4. ~Delivering(s)' /\ ~Finishing(s)' /\ (Delivering(s) => Done(s))
    BY <2>1 DEF Delivering, Finishing
  <2>5. /\ Under(s)' <= Under(s) /\ Down("CLSE", s)' <= Down("CLSE", s)
        /\ ~Done(s) /\ Reading' => Under(s)' = Under(s)
    <3>1. Under(s)' = Down("WRTE", s)'
      BY <2>4, PipeTypesNext DEF Under, One
    <3>2. Down("WRTE", s) <= Under(s) /\ (~Done(s) => Under(s) = Down("WRTE", s))
      BY <2>4, PipeTypes DEF Under, One
    <3>3. /\ Down("WRTE", s)' = Down("WRTE", s) \/ (Down("WRTE", s)' = 0 /\ ~Reading')
          /\ Down("CLSE", s)' = Down("CLSE", s) \/ Down("CLSE", s)' = 0
      BY <2>1, SameUpDown
    <3> QED BY <3>1, <3>2, <3>3, PipeTypes
  <2>6. /\ Labelled(toHost', s, devSent[s]) /\ EndLast(toHost', s)
    BY <2>1 DEF Piping, InSequence, EndsAfterData, Labelled, EndLast
  <2>7. ~Done(s)' /\ (Finishing(s)' \/ (s \in streams' /\ Reading'))
          => Queued(s) + Under(s)' = devSent[s]
    BY <2>1, <2>2, <2>4, <2>5 DEF Piping, Whole, Done
  <2>8. Aside(s)
    BY <2>1, <2>2, <2>3, <2>4, <2>5, <2>6, <2>7 DEF Aside, devVars
  <2> QED BY <2>8, AsideKeepsPiping
<1> QED BY <1>1, <1>2, <1>3 DEF ReadLoop

LEMMA DeviceKeepsOthersPiping ==
  ASSUME TypeOK, TypeOK', NEW s \in Streams, NEW t \in Streams, s # t, Piping(s),
         DevHandles(t) \/ DevWrites(t) \/ DevCloses(t), HostFrame
  PROVE  Piping(s)'
<1>1. UNCHANGED <<linkUp, streamVars, connVars, loopVars, callVars>>
  BY DEF HostFrame, DevHandles, DevAccepts, DevRefuses, DevConsumes, DevHandlesOkay, DevHandlesClse,
     DevIgnoresWrte, DevWrites, DevCloses, Receives
<1>2. dev'[s] = dev[s] /\ devReady'[s] = devReady[s] /\ devSent'[s] = devSent[s]
  <2>1. devReady \in [Streams -> BOOLEAN] /\ devSent \in [Streams -> Nat]
    BY DEF TypeOK, DeviceTypeOK
  <2> QED BY <2>1, FunctionTypes DEF DevHandles, DevAccepts, DevRefuses, DevConsumes, DevHandlesOkay, DevHandlesClse,
        DevIgnoresWrte, DevWrites, DevCloses, devVars
<1>3. Up("OKAY", s)' = Up("OKAY", s)
  <2>1. toDev' = toDev \/ \E d \in Commands : Receives(d, t)
    BY DEF DevHandles, DevAccepts, DevRefuses, DevConsumes, DevHandlesOkay, DevHandlesClse,
       DevIgnoresWrte, DevWrites, DevCloses, Commands
  <2>2. ASSUME NEW d \in Commands, Receives(d, t)
        PROVE  Up("OKAY", s)' = Up("OKAY", s)
    <3>1. Up("OKAY", s) = Up("OKAY", s)' + One("OKAY" = d /\ s = t)
      BY <2>2, UpReceived
    <3> QED BY <3>1, CountsStayNat DEF One
  <2> QED BY <2>1, <2>2, SameUpDown
<1>4. /\ Down("WRTE", s)' = Down("WRTE", s) /\ Down("CLSE", s)' = Down("CLSE", s)
      /\ Labelled(toHost', s, devSent[s]) /\ EndLast(toHost', s)
  <2>1. toHost' = toHost \/ \E p \in Packets : p.stream = t /\ toHost' = Append(toHost, p)
    <3>1. \A d \in Commands, n \in Nat : Packet(d, t, n) \in Packets /\ Packet(d, t, n).stream = t
      BY PacketIsPacket DEF Packet
    <3>2. devSent[t] + 1 \in Nat
      BY DEF TypeOK, DeviceTypeOK
    <3> QED BY <3>1, <3>2 DEF DevHandles, DevAccepts, DevRefuses, DevConsumes, DevHandlesOkay, DevHandlesClse,
          DevIgnoresWrte, DevWrites, DevCloses, Replies, Commands
  <2>2. ASSUME NEW p \in Packets, p.stream = t, toHost' = Append(toHost, p)
        PROVE  /\ Down("WRTE", s)' = Down("WRTE", s) /\ Down("CLSE", s)' = Down("CLSE", s)
               /\ Labelled(toHost', s, devSent[s]) /\ EndLast(toHost', s)
    <3>1. Is(p, "WRTE", s) = 0 /\ Is(p, "CLSE", s) = 0
      BY <2>2 DEF Is
    <3>2. Labelled(toHost', s, devSent[s]) /\ EndLast(toHost', s)
      BY <2>2, LabelledAppend, EndLastAppend, PipeTypes DEF Piping, InSequence, EndsAfterData
    <3> QED BY <2>2, <3>1, <3>2, DownReplied, PipeTypes
  <2>3. CASE toHost' = toHost
    BY <2>3, SameUpDown DEF Piping, InSequence, EndsAfterData
  <2> QED BY <2>1, <2>2, <2>3
<1>5. /\ Delivering(s)' = Delivering(s) /\ Finishing(s)' = Finishing(s) /\ Reading' = Reading
      /\ Acking(s)' = Acking(s) /\ Done(s)' = Done(s)
  BY <1>1 DEF Delivering, Finishing, Reading, Acking, Done, loopVars, streamVars
<1>6. Under(s)' = Under(s)
  BY <1>4, <1>5 DEF Under
<1>7. /\ Acking(s)' + Up("OKAY", s)' <= Acking(s) + Up("OKAY", s)
      /\ Under(s)' <= Under(s) /\ Down("CLSE", s)' <= Down("CLSE", s)
  BY <1>3, <1>4, <1>5, <1>6, PipeTypes
<1>8. Aside(s)
  BY <1>1, <1>2, <1>4, <1>5, <1>6, <1>7
     DEF Aside, Piping, InSequence, EndsAfterData, Whole, streamVars, connVars, loopVars
<1> QED BY <1>8, AsideKeepsPiping

LEMMA DeviceKeepsItsPiping ==
  ASSUME TypeOK, TypeOK', NEW s \in Streams, Piping(s), OpenedOnce(s),
         DevHandles(s) \/ DevWrites(s) \/ DevCloses(s), HostFrame
  PROVE  Piping(s)'
<1>1. UNCHANGED <<linkUp, streamVars, connVars, loopVars, callVars>>
  BY DEF HostFrame, DevHandles, DevAccepts, DevRefuses, DevConsumes, DevHandlesOkay, DevHandlesClse,
     DevIgnoresWrte, DevWrites, DevCloses, Receives
<1>2. /\ Delivering(s)' = Delivering(s) /\ Finishing(s)' = Finishing(s) /\ Reading' = Reading
      /\ Acking(s)' = Acking(s) /\ Done(s)' = Done(s) /\ Queued(s)' = Queued(s)
      /\ ended' = ended /\ eof' = eof /\ recv' = recv /\ got' = got /\ streams' = streams /\ rlPkt' = rlPkt
  BY <1>1 DEF Delivering, Finishing, Reading, Acking, Done, Queued, loopVars, connVars, streamVars
<1>3. /\ dev \in [Streams -> {"none", "open", "closed"}]
      /\ devReady \in [Streams -> BOOLEAN] /\ devSent \in [Streams -> Nat]
  BY DEF TypeOK, DeviceTypeOK
<1>4. Drained(s)'
  BY <1>2 DEF Piping, Drained
<1>5. ASSUME Under(s)' = Under(s), devSent'[s] = devSent[s],
             Labelled(toHost', s, devSent[s]), EndLast(toHost', s),
             Credit(s)' <= Credit(s) \/ (dev[s] = "none" /\ Credit(s)' <= 1),
             dev'[s] = "closed" \/ ((dev'[s] = dev[s] \/ dev[s] = "none") /\ Down("CLSE", s)' <= Down("CLSE", s)),
             dev'[s] = "none" => dev[s] = "none" /\ Credit(s)' <= Credit(s)
      PROVE  Piping(s)'
  <2>1. Credit(s) \in Nat /\ Credit(s)' \in Nat
    <3>1. Acking(s) \in Nat /\ Up("OKAY", s) \in Nat /\ Acking(s)' \in Nat /\ Up("OKAY", s)' \in Nat
      BY PipeTypes, PipeTypesNext
    <3>2. One(devReady[s]) \in Nat /\ One(devReady[s])' \in Nat
      BY DEF One
    <3> QED BY <3>1, <3>2 DEF Credit
  <2>2. OneAtATime(s)'
    BY <1>2, <1>5, <2>1, PipeTypes, PipeTypesNext DEF Piping, OneAtATime
  <2>3. InSequence(s)' /\ Whole(s)'
    BY <1>2, <1>5 DEF Piping, InSequence, Whole
  <2>4. EndsAfterData(s)'
    BY <1>2, <1>5, PipeTypes, PipeTypesNext DEF Piping, EndsAfterData
  <2> QED BY <1>4, <2>2, <2>3, <2>4 DEF Piping
<1>6. ASSUME UNCHANGED toHost \/ \E c \in {"OKAY", "CLSE"} : Replies(c, s)
      PROVE  /\ Under(s)' = Under(s) /\ Labelled(toHost', s, devSent[s]) /\ EndLast(toHost', s)
  <2>1. CASE UNCHANGED toHost
    BY <1>2, <2>1, SameUpDown DEF Under, Piping, InSequence, EndsAfterData
  <2>2. ASSUME NEW c \in {"OKAY", "CLSE"}, Replies(c, s)
        PROVE  /\ Under(s)' = Under(s) /\ Labelled(toHost', s, devSent[s]) /\ EndLast(toHost', s)
    <3> DEFINE p == Packet(c, s, 0)
    <3>1. p \in Packets /\ p.command = c /\ toHost' = Append(toHost, p) /\ Is(p, "WRTE", s) = 0
      BY <2>2, PacketIsPacket DEF Replies, Packet, Commands, Is
    <3> HIDE DEF p
    <3>2. Labelled(toHost', s, devSent[s]) /\ EndLast(toHost', s)
      BY <3>1, LabelledAppend, EndLastAppend, PipeTypes DEF Piping, InSequence, EndsAfterData
    <3>3. Down("WRTE", s)' = Down("WRTE", s)
      BY <3>1, DownReplied, PipeTypes
    <3> QED BY <1>2, <3>2, <3>3 DEF Under
  <2> QED BY <1>6, <2>1, <2>2
<1>7. /\ UNCHANGED toHost \/ Replies("OKAY", s) => Down("CLSE", s)' <= Down("CLSE", s)
  <2>1. CASE UNCHANGED toHost
    BY <2>1, SameUpDown, PipeTypes
  <2>2. CASE Replies("OKAY", s)
    <3> DEFINE p == Packet("OKAY", s, 0)
    <3>1. p \in Packets /\ toHost' = Append(toHost, p) /\ Is(p, "CLSE", s) = 0
      BY <2>2, PacketIsPacket DEF Replies, Packet, Commands, Is
    <3> HIDE DEF p
    <3> QED BY <3>1, DownReplied, PipeTypes
  <2> QED BY <2>1, <2>2
<1>8. ASSUME NEW d \in Commands, Receives(d, s)
      PROVE  /\ d = "OKAY" => Up("OKAY", s) = Up("OKAY", s)' + 1
             /\ d # "OKAY" => Up("OKAY", s) = Up("OKAY", s)'
             /\ d = "OPEN" => dev[s] = "none"
  <2>1. /\ Up("OKAY", s) = Up("OKAY", s)' + One("OKAY" = d)
        /\ Up("OPEN", s) = Up("OPEN", s)' + One("OPEN" = d)
    BY <1>8, UpReceived
  <2>2. Up("OPEN", s) \in Nat /\ Up("OPEN", s)' \in Nat /\ Up("OKAY", s)' \in Nat
    BY CountsAreNat, CountsStayNat
  <2> QED BY <2>1, <2>2, SeenTypes DEF One, OpenedOnce
<1>9. /\ "OPEN" \in Commands /\ "OKAY" \in Commands /\ "WRTE" \in Commands /\ "CLSE" \in Commands
  BY DEF Commands
<1>10. /\ Credit(s) = Acking(s) + Up("OKAY", s) + One(devReady[s])
       /\ Credit(s)' = Acking(s) + Up("OKAY", s)' + One(devReady'[s])
       /\ Acking(s) \in Nat /\ Up("OKAY", s) \in Nat /\ Up("OKAY", s)' \in Nat
       /\ \A b \in BOOLEAN : One(b) \in {0, 1}
       /\ One(TRUE) = 1 /\ One(FALSE) = 0
  BY <1>2, PipeTypes, PipeTypesNext DEF Credit, One
<1>11. CASE DevAccepts(s)
  <2>1. /\ Receives("OPEN", s) /\ Replies("OKAY", s) /\ dev'[s] = "open" /\ devReady'[s] = TRUE
        /\ devSent' = devSent
    BY <1>3, <1>11 DEF DevAccepts
  <2>2. dev[s] = "none" /\ Credit(s) = 0
    BY <1>8, <1>9, <2>1 DEF Piping, OneAtATime
  <2>3. Credit(s)' <= 1
    <3>1. Up("OKAY", s)' = Up("OKAY", s)
      BY <1>8, <1>9, <2>1
    <3>2. One(devReady'[s]) = 1
      BY <2>1 DEF One
    <3>3. One(devReady[s]) \in Nat
      BY DEF One
    <3> QED BY <1>10, <2>2, <3>1, <3>2, <3>3
  <2> QED BY <1>5, <1>6, <1>7, <2>1, <2>2, <2>3
<1>12. CASE DevRefuses(s) \/ DevConsumes(s) \/ DevIgnoresWrte(s)
  <2>1. /\ Receives("OPEN", s) \/ Receives("WRTE", s)
        /\ devReady' = devReady /\ devSent' = devSent
        /\ \/ dev'[s] = "closed" /\ Replies("CLSE", s)
           \/ dev'[s] = dev[s] /\ (Replies("OKAY", s) \/ UNCHANGED toHost)
    BY <1>3, <1>12 DEF DevRefuses, DevConsumes, DevIgnoresWrte, devVars
  <2>2. Up("OKAY", s)' = Up("OKAY", s)
    BY <1>8, <1>9, <2>1
  <2>3. Credit(s)' <= Credit(s)
    BY <1>3, <1>10, <2>1, <2>2
  <2> QED BY <1>5, <1>6, <1>7, <2>1, <2>3
<1>13. CASE DevHandlesOkay(s)
  <2>1. /\ Receives("OKAY", s) /\ devReady'[s] \in BOOLEAN /\ devSent' = devSent
        /\ dev' = dev /\ UNCHANGED toHost
    BY <1>3, <1>13 DEF DevHandlesOkay
  <2>2. Up("OKAY", s) = Up("OKAY", s)' + 1
    BY <1>8, <1>9, <2>1
  <2>3. Credit(s)' <= Credit(s)
    BY <1>3, <1>10, <2>1, <2>2
  <2> QED BY <1>5, <1>6, <1>7, <2>1, <2>3
<1>14. CASE DevHandlesClse(s) \/ DevCloses(s)
  <2>1. /\ Receives("CLSE", s) \/ toDev' = toDev
        /\ devReady'[s] = FALSE /\ devSent' = devSent /\ dev'[s] = "closed"
        /\ UNCHANGED toHost \/ Replies("CLSE", s)
    BY <1>3, <1>14 DEF DevHandlesClse, DevCloses
  <2>2. Up("OKAY", s)' = Up("OKAY", s)
    BY <1>8, <1>9, <2>1, SameUpDown
  <2>3. Credit(s)' <= Credit(s)
    <3>1. One(devReady'[s]) = 0
      BY <2>1 DEF One
    <3>2. One(devReady[s]) \in Nat
      BY DEF One
    <3> QED BY <1>10, <2>2, <3>1, <3>2
  <2> QED BY <1>5, <1>6, <2>1, <2>3
<1>15. CASE DevWrites(s)
  <2> DEFINE p == Packet("WRTE", s, devSent[s] + 1)
  <2>1. /\ toDev' = toDev /\ dev' = dev /\ dev[s] = "open" /\ devReady[s] = TRUE
        /\ devReady'[s] = FALSE /\ devSent'[s] = devSent[s] + 1 /\ devSent[s] \in Nat
        /\ toHost' = Append(toHost, p)
    BY <1>3, <1>15 DEF DevWrites
  <2>2. /\ p \in Packets /\ p.command = "WRTE" /\ p.stream = s /\ p.data = devSent[s] + 1
    BY <1>9, <2>1, PacketIsPacket DEF Packet
  <2> HIDE DEF p
  <2>3. Up("OKAY", s)' = Up("OKAY", s)
    BY <2>1, SameUpDown
  <2>4. Credit(s) = Acking(s) + Up("OKAY", s) + 1 /\ Credit(s)' = Acking(s) + Up("OKAY", s)
    <3>1. One(devReady'[s]) = 0 /\ One(devReady[s]) = 1
      BY <2>1 DEF One
    <3> QED BY <1>10, <2>3, <3>1
  <2>5. Under(s) = 0 /\ Credit(s)' = 0 /\ Credit(s) = 1 /\ Queued(s) = devSent[s]
    BY <1>10, <2>4, PipeTypes DEF Piping, OneAtATime
  <2>6. ~Delivering(s) /\ Down("WRTE", s) = 0
    BY <2>5, PipeTypes DEF Under, One
  <2>7. Under(s)' = 1 /\ Down("CLSE", s)' = Down("CLSE", s)
    <3>1. Is(p, "WRTE", s) = 1 /\ Is(p, "CLSE", s) = 0
      BY <2>2 DEF Is
    <3>2. Down("WRTE", s)' = 1 /\ Down("CLSE", s)' = Down("CLSE", s)
      BY <2>1, <2>2, <2>6, <3>1, DownReplied, PipeTypes
    <3> QED BY <1>2, <2>6, <3>2 DEF Under, One
  <2>8. ended[s] # "remote" /\ ~Finishing(s) /\ Down("CLSE", s) = 0
    BY <2>1, PipeTypes DEF Piping, EndsAfterData
  <2>9. Labelled(toHost', s, devSent[s] + 1) /\ EndLast(toHost', s)
    <3>1. Labelled(toHost, s, devSent[s] + 1)
      BY <2>6, NoneIsLabelled, PipeTypes DEF Down
    <3>2. Count(toHost, "CLSE", s) = 0
      BY <2>8 DEF Down
    <3> QED BY <2>1, <2>2, <3>1, <3>2, LabelledAppend, EndLastAppend, PipeTypes DEF Piping, EndsAfterData
  <2>10. OneAtATime(s)'
    BY <1>2, <2>1, <2>5, <2>7, PipeTypes DEF OneAtATime
  <2>11. InSequence(s)'
    BY <1>2, <2>1, <2>6, <2>9 DEF Piping, InSequence
  <2>12. EndsAfterData(s)'
    BY <1>2, <2>1, <2>7, <2>8, <2>9, PipeTypes DEF EndsAfterData
  <2>13. Whole(s)'
    BY <1>2, <2>1, <2>5, <2>7 DEF Whole
  <2> QED BY <1>4, <2>10, <2>11, <2>12, <2>13 DEF Piping
<1> QED BY <1>11, <1>12, <1>13, <1>14, <1>15 DEF DevHandles

LEMMA InitPiping ==
  ASSUME Init, NEW s \in Streams
  PROVE  Piping(s)
<1>1. \A c : Up(c, s) = 0 /\ Down(c, s) = 0
  BY CountEmpty DEF Init, WireInit, Up, Down
<1>2. /\ dev[s] = "none" /\ devSent[s] = 0 /\ devReady[s] = FALSE /\ got[s] = <<>> /\ recv[s] = <<>>
      /\ ended[s] = "no" /\ eof[s] = FALSE /\ toHost = <<>> /\ rlPc = "read" /\ streams = {}
  BY DEF Init, WireInit, StreamInit, DeviceInit
<1>3. ~Delivering(s) /\ ~Finishing(s) /\ Acking(s) = 0 /\ ~Done(s)
  BY <1>2 DEF Delivering, Finishing, Acking, Done
<1>4. Queued(s) = 0 /\ Under(s) = 0 /\ Credit(s) = 0
  BY <1>1, <1>2, <1>3 DEF Queued, Under, Credit, One
<1>5. OneAtATime(s) /\ Whole(s) /\ Drained(s)
  BY <1>2, <1>3, <1>4 DEF OneAtATime, Whole, Drained
<1>6. InSequence(s) /\ EndsAfterData(s)
  BY <1>1, <1>2, <1>3 DEF InSequence, EndsAfterData, Numbered, Labelled, EndLast
<1> QED BY <1>5, <1>6 DEF Piping

AllPiping == \A s \in Streams : Piping(s)

LEMMA NextKeepsPiping ==
  TypeOK /\ TypeOK' /\ AllServed /\ AllPiping /\ [Next]_vars => AllPiping'
<1> SUFFICES ASSUME TypeOK, TypeOK', AllServed, AllPiping, [Next]_vars, NEW s \in Streams
             PROVE  Piping(s)'
  BY DEF AllPiping
<1>1. Piping(s) /\ OpenedOnce(s)
  BY DEF AllPiping, AllServed, Served
<1>2. CASE UNCHANGED vars \/ AllReturned
  <2>1. UNCHANGED vars
    BY <1>2 DEF AllReturned
  <2>2. Up("OKAY", s)' <= Up("OKAY", s)
    BY <2>1, CreditOnlyByOkay DEF vars, wireVars
  <2> QED BY <1>1, <2>1, <2>2, StillKeepsPiping DEF vars, wireVars, streamVars, connVars, loopVars
<1>3. ASSUME NEW t \in Streams,
             \/ OpenStart(t) \/ OpenSteps(t) \/ \E c \in Closers : OpenCancelled(t, c)
      PROVE  Piping(s)'
  BY <1>1, <1>3, OpenKeepsPiping
<1>4. ASSUME NEW t \in Streams,
             \/ WriteStart(t) \/ WriteSteps(t) \/ WriteCancelled(t)
             \/ ReadData(t) \/ ReadError(t)
             \/ \E c \in Closers : CloseStart(t, c) \/ CloseSteps(t, c)
      PROVE  Piping(s)'
  BY <1>1, <1>4, WriterKeepsPiping, ReaderKeepsPiping, CloserKeepsPiping
<1>5. ASSUME NEW t \in Streams, DevHandles(t) \/ DevWrites(t) \/ DevCloses(t), HostFrame
      PROVE  Piping(s)'
  BY <1>1, <1>5, DeviceKeepsOthersPiping, DeviceKeepsItsPiping
<1>6. CASE AppClose \/ CloseSocket \/ Sweep \/ ReadLoop \/ LinkFails
  BY <1>1, <1>6, ConnectionCloseKeepsPiping, ReadLoopKeepsPiping, LinkFailsKeepsPiping
<1>7. CASE Next /\ ~AllReturned
  BY <1>3, <1>4, <1>5, <1>6, <1>7 DEF Next, DeviceHandles, DeviceWrites, DeviceCloses
<1> QED BY <1>2, <1>7

LEMMA AlwaysPiping == Spec => [](TypeOK /\ AllServed /\ AllPiping)
<1>1. Init => AllPiping
  BY InitPiping DEF AllPiping
<1>2. TypeOK /\ TypeOK' /\ AllServed /\ AllPiping /\ [Next]_vars => AllPiping'
  BY NextKeepsPiping
<1> QED BY <1>1, <1>2, AlwaysServed, PTL DEF Spec

(* finish, by whomever, is the End of StreamPipe.                          *)
LEMMA FinishIsEnd ==
  ASSUME TypeOK, NEW S \in SUBSET Streams, NEW x \in Causes, finish(S, x), devSent' = devSent
  PROVE  Pipe!Next
<1> DEFINE T == {t \in S : ended[t] = "no"}
<1>1. T \in SUBSET Streams /\ \A t \in T : ended[t] = "no"
  OBVIOUS
<1>2. ended' = [t \in Streams |-> IF t \in T THEN x ELSE ended[t]]
  BY DEF finish
<1>3. Pipe!End(T, x)
  BY <1>1, <1>2 DEF finish, Pipe!End
<1> QED BY <1>1, <1>3 DEF Pipe!Next

LEMMA NextIsPipe == TypeOK /\ AllPiping /\ [Next]_vars => [Pipe!Next]_(Pipe!vars)
<1> SUFFICES ASSUME TypeOK, AllPiping, [Next]_vars
             PROVE  [Pipe!Next]_(Pipe!vars)
  OBVIOUS
<1>0. ASSUME UNCHANGED <<devSent, got, ended, eof>>
      PROVE  [Pipe!Next]_(Pipe!vars)
  BY <1>0 DEF Pipe!vars
<1>t. /\ devSent \in [Streams -> Nat] /\ got \in [Streams -> Seq(Nat)] /\ recv \in [Streams -> Seq(Nat)]
      /\ eof \in [Streams -> BOOLEAN]
  BY DEF TypeOK, DeviceTypeOK, StreamTypeOK
<1>1. ASSUME NEW s \in Streams, ReadData(s)
      PROVE  Pipe!Next
  <2>1. /\ recv[s] # <<>> /\ got' = [got EXCEPT ![s] = Append(@, Head(recv[s]))]
        /\ UNCHANGED <<devSent, ended, eof>>
    BY <1>1 DEF ReadData, Reads, ReadReturnsData, devVars
  <2>2. Head(recv[s]) = Len(got[s]) + 1
    BY <2>1, PipeTypes, NumberedTail DEF AllPiping, Piping, InSequence
  <2>3. Len(got[s]) < devSent[s]
    <3>1. Len(recv[s]) > 0 /\ Queued(s) <= devSent[s]
      BY <2>1, <1>t DEF AllPiping, Piping, OneAtATime
    <3> DEFINE m == Len(got[s])
               n == Len(recv[s])
    <3>2. m \in Nat /\ n \in Nat /\ devSent[s] \in Nat /\ Queued(s) = m + n /\ n > 0
      BY <3>1, PipeTypes DEF Queued
    <3> HIDE DEF m, n
    <3>3. m < devSent[s]
      BY <3>1, <3>2
    <3> QED BY <3>3 DEF m
  <2>4. eof[s] => ended[s] # "remote"
    BY <2>1 DEF AllPiping, Piping, Drained
  <2>5. got' = [got EXCEPT ![s] = Append(@, Len(@) + 1)]
    BY <2>1, <2>2, <1>t
  <2> QED BY <2>1, <2>3, <2>4, <2>5 DEF Pipe!Next, Pipe!Take
<1>2. ASSUME NEW s \in Streams, ReadError(s)
      PROVE  Pipe!Next
  <2>1. /\ recv[s] = <<>> /\ Done(s) /\ eof' = [eof EXCEPT ![s] = TRUE] /\ UNCHANGED <<devSent, ended, got>>
    BY <1>2 DEF ReadError, Reads, ReadReturnsError, devVars
  <2>2. ended[s] = "remote" => Len(got[s]) = devSent[s]
    <3>1. SUFFICES ASSUME ended[s] = "remote" PROVE Len(got[s]) = devSent[s]
      OBVIOUS
    <3>2. Under(s) = 0 /\ Queued(s) + Under(s) = devSent[s]
      BY <3>1 DEF AllPiping, Piping, EndsAfterData, Whole
    <3>3. Len(recv[s]) = 0
      BY <2>1
    <3> QED BY <3>2, <3>3, PipeTypes DEF Queued
  <2> QED BY <2>1, <2>2 DEF Done, Pipe!Next, Pipe!Report
<1>3. ASSUME NEW s \in Streams, DeviceWrites(s)
      PROVE  Pipe!Next
  <2>1. /\ dev[s] = "open" /\ devReady[s] = TRUE /\ devSent' = [devSent EXCEPT ![s] = @ + 1]
        /\ UNCHANGED <<got, ended, eof>>
    BY <1>3 DEF DeviceWrites, DevWrites, HostFrame, streamVars, TypeOK, DeviceTypeOK
  <2>2. ended[s] # "remote"
    BY <2>1 DEF AllPiping, Piping, EndsAfterData
  <2>3. devSent[s] - Len(got[s]) < RecvCap + 1
    <3>1. One(devReady[s]) = 1
      BY <2>1 DEF One
    <3>2. Acking(s) \in Nat /\ Up("OKAY", s) \in Nat
      BY PipeTypes
    <3>3. Credit(s) > 0
      BY <3>1, <3>2 DEF Credit
    <3>4. Queued(s) = devSent[s]
      BY <3>3 DEF AllPiping, Piping, OneAtATime
    <3> DEFINE m == Len(got[s])
               n == Len(recv[s])
    <3>5. m \in Nat /\ n \in Nat /\ Queued(s) = m + n /\ n <= RecvCap /\ RecvCap \in Nat
      BY PipeTypes, RecvCapAssumption DEF Queued
    <3> HIDE DEF m, n
    <3>6. devSent[s] - m < RecvCap + 1
      BY <3>4, <3>5
    <3> QED BY <3>6 DEF m
  <2> QED BY <2>1, <2>2, <2>3 DEF Pipe!Next, Pipe!Put
<1>4. ASSUME NEW s \in Streams, NEW c \in Closers, CloseFinish(s, c)
      PROVE  Pipe!Next
  BY <1>4, FinishIsEnd DEF CloseFinish, CloserGoes, Causes, devVars
<1>5. CASE Sweep
  <2>1. finish(streams, "conn") /\ devSent' = devSent /\ streams \subseteq Streams /\ "conn" \in Causes
    BY <1>5 DEF Sweep, SweepOf, devVars, Causes, TypeOK, ConnTypeOK
  <2> QED BY <2>1, FinishIsEnd
<1>6. CASE FinishEOF
  <2>1. /\ finish({rlPkt.stream}, "remote") /\ devSent' = devSent /\ rlPkt.stream \in Streams
        /\ "remote" \in Causes
    BY <1>6 DEF FinishEOF, LoopGoes, LoopFrame, devVars, Causes, TypeOK, ConnTypeOK, Packets
  <2> QED BY <2>1, FinishIsEnd
<1>7. CASE UNCHANGED vars \/ AllReturned
  BY <1>0, <1>7 DEF AllReturned, vars, devVars, streamVars
<1>8. ASSUME NEW s \in Streams,
             \/ OpenStart(s) \/ OpenSteps(s)
             \/ WriteStart(s) \/ WriteSteps(s) \/ WriteCancelled(s) \/ DeviceCloses(s)
             \/ \E c \in Closers : OpenCancelled(s, c)
      PROVE  [Pipe!Next]_(Pipe!vars)
  <2>1. CASE OpenStart(s) \/ OpenSteps(s) \/ \E c \in Closers : OpenCancelled(s, c)
    BY <1>0, <2>1 DEF OpenStart, OpenSteps, OpenCheck, OpenWrite, OpenUnregister, OpenOpened, OpenConnDone,
       OpenCancelDone, OpenCancelled, OpenOnly, OpenGoes, streamVars, devVars
  <2>2. CASE WriteStart(s) \/ WriteSteps(s) \/ WriteCancelled(s)
    BY <1>0, <2>2 DEF WriteStart, WriteSteps, WriteCheck, WriteSend, WriteAcked, WriteEnded, WriteCancelled,
       WriteGivesUp, WriterFrame, streamVars, devVars
  <2>3. CASE DeviceCloses(s)
    BY <1>0, <2>3 DEF DeviceCloses, DevCloses, HostFrame, streamVars
  <2> QED BY <1>8, <2>1, <2>2, <2>3
<1>9. ASSUME NEW s \in Streams, NEW c \in Closers,
             \/ CloseStart(s, c) \/ CloseCheck(s, c) \/ CloseWrite(s, c) \/ CloseRemove(s, c)
      PROVE  [Pipe!Next]_(Pipe!vars)
  BY <1>0, <1>9 DEF CloseStart, CloseCheck, CloseWrite, CloseRemove, CloserGoes, streamVars, devVars
<1>10. CASE AppClose \/ CloseSocket \/ LinkFails
  BY <1>0, <1>10 DEF AppClose, CloseSocket, LinkFails, HostFrame, streamVars, devVars
<1>11. CASE ReadLoop /\ ~FinishEOF
  BY <1>0, <1>11 DEF ReadLoop, ReadPacket, HandleOkay, Deliver, AckCheck, AckSend, ReadFail, FailsTo, LoopClose, LoopExit,
     LoopGoes, LoopFrame, handleOkay, deliverQueues, deliverDrops, streamVars, devVars
<1>12. CASE DeviceHandles
  BY <1>0, <1>12 DEF DeviceHandles, HostFrame, DevHandles, DevAccepts, DevRefuses, DevConsumes, DevHandlesOkay,
     DevHandlesClse, DevIgnoresWrte, streamVars, devVars
<1> QED BY <1>1, <1>2, <1>3, <1>4, <1>5, <1>6, <1>7, <1>8, <1>9, <1>10, <1>11, <1>12 DEF Next, CloseSteps

(* What Read returns of a stream are the chunks the service sent, in       *)
(* order, none missing and none twice; no more than the queue and one      *)
(* chunk in readLoop's hands are on their way; and the end is reported     *)
(* after the last one (stream.go:67-88, 150-158, connection.go:196-219):   *)
(* every step of the connection is one of StreamPipe, or changes nothing   *)
(* that StreamPipe shows.                                                  *)
THEOREM StreamsArePipes == Spec => DeliversLikeAPipe
<1>1. Init => Pipe!Init
  BY DEF Init, DeviceInit, StreamInit, Pipe!Init
<1>2. TypeOK /\ AllPiping /\ [Next]_vars => [Pipe!Next]_(Pipe!vars)
  BY NextIsPipe
<1> QED BY <1>1, <1>2, AlwaysPiping, PTL DEF Spec, DeliversLikeAPipe, Pipe!Spec

----------------------------------------------------------------------------
(* The ids of streams.                                                     *)

(* Every Add gives a number of its own, and as long as nobody was lapped   *)
(* all those in use lie within one turn of the counter.                    *)
IdsNumbered ==
  \A o \in InUse :
    /\ number[o] \in 1 .. adds
    /\ \A p \in InUse \ {o} : number[o] # number[p]
WithinOneTurn == ~late => \A o \in InUse : adds - number[o] < Width
AgainIsZero == \A o \in Openers : pc[o] = "again" => Id(number[o]) = 0

IdInvariant == IdsTypeOK /\ IdsNumbered /\ WithinOneTurn /\ AgainIsZero /\ FoundById

----------------------------------------------------------------------------
LEMMA Division ==
  ASSUME NEW n \in Nat
  PROVE  /\ n \div Width \in Nat /\ Id(n) \in 0 .. Width - 1
         /\ n = Width * (n \div Width) + Id(n)
BY IdAssumption DEF Id

(* Numbers less than a turn apart have different ids.                      *)
LEMMA IdsDiffer ==
  ASSUME NEW m \in Nat, NEW n \in Nat, m < n, n - m < Width
  PROVE  Id(m) # Id(n)
<1> DEFINE a == m \div Width  b == n \div Width  c == Id(m)
<1>1. /\ a \in Nat /\ b \in Nat /\ c \in 0 .. Width - 1
      /\ m = Width * a + c /\ n = Width * b + Id(n)
  BY Division
<1>2. SUFFICES ASSUME Id(n) = c PROVE FALSE
  OBVIOUS
<1> HIDE DEF a, b, c
<1>3. n - m = Width * (b - a)
  BY <1>1, <1>2, IdAssumption
<1>4. CASE b <= a
  BY <1>1, <1>2, <1>4, IdAssumption
<1>5. CASE b >= a + 1
  <2>1. Width * (b - a) >= Width * 1
    BY <1>1, <1>5, IdAssumption
  <2> QED BY <1>1, <1>3, <2>1, IdAssumption
<1> QED BY <1>1, <1>4, <1>5

LEMMA UsedIdsDiffer ==
  ASSUME IdInvariant, ~late, NEW o \in InUse, NEW p \in InUse, o # p
  PROVE  Id(number[o]) # Id(number[p])
<1>1. /\ adds \in Nat /\ number[o] \in 1 .. adds /\ number[p] \in 1 .. adds
      /\ number[o] # number[p]
      /\ adds - number[o] < Width /\ adds - number[p] < Width
  BY IdAssumption DEF IdInvariant, IdsTypeOK, IdsNumbered, WithinOneTurn
<1>2. CASE number[o] < number[p]
  BY <1>1, <1>2, IdsDiffer, IdAssumption
<1>3. CASE number[p] < number[o]
  BY <1>1, <1>3, IdsDiffer, IdAssumption
<1> QED BY <1>1, <1>2, <1>3

----------------------------------------------------------------------------
LEMMA InitKeepsIds == IdsInit => IdInvariant
<1> SUFFICES ASSUME IdsInit PROVE IdInvariant
  OBVIOUS
<1>1. IdsTypeOK
  <2>1. None \in Openers \cup {None} /\ "idle" \in Pcs /\ 0 \in 0 .. MaxAdds
    BY IdAssumption DEF Pcs
  <2> HIDE DEF None
  <2> QED BY <2>1 DEF IdsInit, IdsTypeOK
<1>2. InUse = {}
  BY DEF IdsInit, InUse
<1>3. IdsNumbered /\ WithinOneTurn /\ AgainIsZero
  BY <1>2 DEF IdsInit, IdsNumbered, WithinOneTurn, AgainIsZero
<1>4. FoundById
  BY DEF IdsInit, FoundById
<1> QED BY <1>1, <1>3, <1>4 DEF IdInvariant

(* An Add gives its opener a number above all others.                      *)
LEMMA AddsKeepsNumbers ==
  ASSUME IdInvariant, NEW o \in Openers, Adds(o), NEW next \in Pcs \ {"idle"},
         pc' = [pc EXCEPT ![o] = next]
  PROVE  /\ IdsTypeOK' /\ IdsNumbered' /\ WithinOneTurn'
         /\ InUse' = InUse \cup {o} /\ number'[o] = adds + 1
         /\ \A p \in Openers \ {o} : number'[p] = number[p] /\ pc'[p] = pc[p]
<1>1. IdsTypeOK'
  BY IdAssumption DEF IdInvariant, IdsTypeOK, Adds, AddsTo, Pcs
<1>2. /\ number'[o] = adds + 1 /\ adds' = adds + 1 /\ adds \in Nat
      /\ \A p \in Openers \ {o} : number'[p] = number[p] /\ pc'[p] = pc[p]
      /\ pc'[o] = next
  BY IdAssumption DEF IdInvariant, IdsTypeOK, Adds, AddsTo
<1>3. InUse' = InUse \cup {o}
  BY <1>2 DEF InUse
<1>4. IdsNumbered'
  BY <1>2, <1>3 DEF IdInvariant, IdsNumbered, InUse
<1>5. WithinOneTurn'
  <2>1. SUFFICES ASSUME ~late', NEW p \in InUse' PROVE adds' - number'[p] < Width
    BY DEF WithinOneTurn
  <2>2. \A q \in InUse : ~(adds + 1 - number[q] >= Width)
    BY <2>1 DEF Adds, AddsTo
  <2>5. \A q \in InUse : number[q] \in Nat
    BY IdAssumption DEF IdInvariant, IdsTypeOK, InUse
  <2>3. CASE p = o
    BY <1>2, <2>3, IdAssumption
  <2>4. CASE p # o
    BY <1>2, <1>3, <2>1, <2>2, <2>4, <2>5, IdAssumption DEF InUse
  <2> QED BY <2>3, <2>4
<1> QED BY <1>1, <1>2, <1>3, <1>4, <1>5

LEMMA NextIdKeepsIds ==
  ASSUME IdInvariant, NEW o \in Openers, NextId(o)
  PROVE  IdInvariant'
<1> DEFINE next == IF Id(adds + 1) = 0 THEN "again" ELSE "register"
<1>1. Adds(o) /\ pc[o] = "idle" /\ pc' = [pc EXCEPT ![o] = next] /\ next \in Pcs \ {"idle"}
  BY DEF NextId, Pcs
<1>2. /\ IdsTypeOK' /\ IdsNumbered' /\ WithinOneTurn' /\ number'[o] = adds + 1
      /\ \A p \in Openers \ {o} : number'[p] = number[p] /\ pc'[p] = pc[p]
  BY <1>1, AddsKeepsNumbers
<1>3. pc'[o] = next /\ table' = table /\ (~late' => ~late)
  BY <1>1 DEF IdInvariant, IdsTypeOK, Adds, AddsTo
<1>4. AgainIsZero'
  BY <1>2, <1>3 DEF IdInvariant, AgainIsZero, Id
<1>5. FoundById'
  BY <1>1, <1>2, <1>3 DEF IdInvariant, FoundById, IdsTypeOK, Id, None
<1> QED BY <1>2, <1>4, <1>5 DEF IdInvariant

(* The number after one whose id is zero has another id, in the same turn. *)
LEMMA SkipZeroKeepsIds ==
  ASSUME IdInvariant, NEW o \in Openers, SkipZero(o)
  PROVE  IdInvariant'
<1>1. Adds(o) /\ pc[o] = "again" /\ pc' = [pc EXCEPT ![o] = "register"]
  BY DEF SkipZero
<1>2. /\ IdsTypeOK' /\ IdsNumbered' /\ WithinOneTurn' /\ number'[o] = adds + 1
      /\ \A p \in Openers \ {o} : number'[p] = number[p] /\ pc'[p] = pc[p]
  BY <1>1, AddsKeepsNumbers DEF Pcs
<1>3. pc'[o] = "register" /\ table' = table /\ (~late' => ~late)
  BY <1>1 DEF IdInvariant, IdsTypeOK, Adds, AddsTo
<1>4. AgainIsZero'
  BY <1>2, <1>3 DEF IdInvariant, AgainIsZero, Id
<1>5. ASSUME ~late' PROVE Id(number'[o]) # 0
  <2>1. o \in InUse /\ number[o] \in 1 .. adds /\ adds \in Nat /\ Id(number[o]) = 0
    BY <1>1, IdAssumption DEF InUse, IdInvariant, IdsNumbered, AgainIsZero, IdsTypeOK
  <2>2. ~(adds + 1 - number[o] >= Width)
    BY <1>5, <2>1 DEF SkipZero, Adds, AddsTo
  <2> QED BY <1>2, <2>1, <2>2, IdsDiffer, IdAssumption
<1>6. FoundById'
  BY <1>1, <1>2, <1>3, <1>5 DEF IdInvariant, FoundById, IdsTypeOK, Id, None
<1> QED BY <1>2, <1>4, <1>6 DEF IdInvariant

LEMMA RegisterKeepsIds ==
  ASSUME IdInvariant, NEW o \in Openers, Register(o)
  PROVE  IdInvariant'
<1>1. /\ pc[o] = "register" /\ pc' = [pc EXCEPT ![o] = "live"]
      /\ table' = [table EXCEPT ![Id(number[o])] = o]
      /\ adds' = adds /\ number' = number /\ late' = late
  BY DEF Register
<1>2. Id(number[o]) \in 0 .. Width - 1
  BY Division DEF IdInvariant, IdsTypeOK
<1>3. IdsTypeOK'
  BY <1>1, <1>2 DEF IdInvariant, IdsTypeOK, Pcs
<1>4. InUse' = InUse /\ o \in InUse
  BY <1>1 DEF InUse, IdInvariant, IdsTypeOK
<1>5. IdsNumbered' /\ WithinOneTurn' /\ AgainIsZero'
  BY <1>1, <1>4 DEF IdInvariant, IdsTypeOK, IdsNumbered, WithinOneTurn, AgainIsZero, Id
<1>6. FoundById'
  <2>1. SUFFICES ASSUME ~late PROVE FoundById'
    BY <1>1 DEF FoundById
  <2>2. \A p \in Openers \ {o} : pc[p] = "live" => Id(number[p]) # Id(number[o])
    BY <1>4, <2>1, UsedIdsDiffer DEF InUse
  <2>3. \A p \in Openers : pc'[p] \in {"register", "live"} => Id(number'[p]) # 0
    BY <1>1, <2>1 DEF IdInvariant, FoundById, IdsTypeOK, Id
  <2>4. \A p \in Openers : pc'[p] = "live" => table'[Id(number'[p])] = p
    BY <1>1, <1>2, <2>1, <2>2 DEF IdInvariant, FoundById, IdsTypeOK, Id
  <2>5. \A id \in DOMAIN table' : table'[id] # None =>
          pc'[table'[id]] = "live" /\ Id(number'[table'[id]]) = id
    BY <1>1, <1>2, <2>1 DEF IdInvariant, FoundById, IdsTypeOK, Id, None
  <2> QED BY <2>3, <2>4, <2>5 DEF FoundById, Id, None
<1> QED BY <1>3, <1>5, <1>6 DEF IdInvariant

(* A stream is taken from the table, once or twice.                        *)
LEMMA DeletesKeepsIds ==
  ASSUME IdInvariant, NEW o \in Openers, pc[o] \in {"live", "ended"},
         NEW next \in {"ended", "idle"}, Deletes(o, next)
  PROVE  IdInvariant'
<1>1. /\ pc[o] \in {"live", "ended"} /\ pc' = [pc EXCEPT ![o] = next]
      /\ table' = [table EXCEPT ![Id(number[o])] = None]
      /\ adds' = adds /\ number' = number /\ late' = late
  BY DEF Deletes
<1>2. Id(number[o]) \in 0 .. Width - 1
  BY Division DEF IdInvariant, IdsTypeOK
<1>3. IdsTypeOK'
  BY <1>1, <1>2 DEF IdInvariant, IdsTypeOK, Pcs, None
<1>4. InUse' \subseteq InUse /\ o \in InUse
  BY <1>1 DEF InUse, IdInvariant, IdsTypeOK
<1>5. IdsNumbered' /\ WithinOneTurn' /\ AgainIsZero'
  BY <1>1, <1>4 DEF IdInvariant, IdsTypeOK, IdsNumbered, WithinOneTurn, AgainIsZero, Id
<1>6. FoundById'
  <2>1. SUFFICES ASSUME ~late PROVE FoundById'
    BY <1>1 DEF FoundById
  <2>2. \A p \in Openers \ {o} : pc[p] = "live" => Id(number[p]) # Id(number[o])
    BY <1>4, <2>1, UsedIdsDiffer DEF InUse
  <2>3. \A p \in Openers : pc'[p] \in {"register", "live"} => Id(number'[p]) # 0
    BY <1>1, <2>1 DEF IdInvariant, FoundById, IdsTypeOK, Id
  <2>4. \A p \in Openers : pc'[p] = "live" => table'[Id(number'[p])] = p
    BY <1>1, <1>2, <2>1, <2>2 DEF IdInvariant, FoundById, IdsTypeOK, Id
  <2>5. \A id \in DOMAIN table' : table'[id] # None =>
          pc'[table'[id]] = "live" /\ Id(number'[table'[id]]) = id
    BY <1>1, <1>2, <2>1 DEF IdInvariant, FoundById, IdsTypeOK, Id, None
  <2> QED BY <2>3, <2>4, <2>5 DEF FoundById, Id, None
<1> QED BY <1>3, <1>5, <1>6 DEF IdInvariant

LEMMA DropKeepsIds ==
  ASSUME IdInvariant, NEW o \in Openers, Drop(o)
  PROVE  IdInvariant'
<1>1. /\ pc[o] = "ended" /\ pc' = [pc EXCEPT ![o] = "idle"]
      /\ UNCHANGED <<table, adds, number, late>>
  BY DEF Drop
<1>2. IdsTypeOK' /\ InUse' \subseteq InUse
  BY <1>1 DEF InUse, IdInvariant, IdsTypeOK, Pcs
<1>3. IdsNumbered' /\ WithinOneTurn' /\ AgainIsZero'
  BY <1>1, <1>2 DEF IdInvariant, IdsTypeOK, IdsNumbered, WithinOneTurn, AgainIsZero, Id
<1>4. FoundById'
  BY <1>1 DEF IdInvariant, FoundById, IdsTypeOK, Id, None
<1> QED BY <1>2, <1>3, <1>4 DEF IdInvariant

LEMMA StutterKeepsIds ==
  ASSUME IdInvariant, UNCHANGED idsVars
  PROVE  IdInvariant'
BY DEF IdInvariant, idsVars, IdsTypeOK, IdsNumbered, WithinOneTurn, AgainIsZero, FoundById, InUse, Id, None

----------------------------------------------------------------------------
(* However many goroutines open and close streams and however often the    *)
(* ids come round (connection.go:213, 233-241, 261-265): while no stream   *)
(* until its Close outlives a turn of the counter, ids are not zero and    *)
(* each finds its own stream.                                              *)
THEOREM IdsFindTheirStreams == IdsSpec => []FoundById
<1>1. ASSUME IdInvariant, [IdsNext]_idsVars PROVE IdInvariant'
  <2>1. ASSUME NEW o \in Openers, \/ NextId(o) \/ SkipZero(o) \/ Register(o)
                                \/ PeerCloses(o) \/ Remove(o) \/ Drop(o)
        PROVE  IdInvariant'
    BY <1>1, <2>1, NextIdKeepsIds, SkipZeroKeepsIds, RegisterKeepsIds, DeletesKeepsIds, DropKeepsIds
       DEF PeerCloses, Remove
  <2> QED BY <1>1, <2>1, StutterKeepsIds DEF IdsNext
<1>2. IdInvariant => FoundById
  BY DEF IdInvariant
<1> QED BY InitKeepsIds, <1>1, <1>2, PTL DEF IdsSpec
=============================================================================
