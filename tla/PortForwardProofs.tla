------------------------- MODULE PortForwardProofs -------------------------
(***************************************************************************)
(* Proofs about PortForward for any sockets and any numbers of chunks.     *)
(***************************************************************************)
EXTENDS PortForward, FiniteSets, FiniteSetTheorems, TLAPS

Counted == {"open", "wait", "closeStream", "closeSocket", "leave"}

Streams == [end : {"none", "open", "local", "remote", "conn"}, put : {"none", "sent", "acked"},
            recv : Nat, sent : Nat, took : Nat]
Programs == [sent : Nat, unread : Nat, out : Nat, wrote : Nat, gone : {"no", "half", "closed"}]

SocketTypes ==
  /\ sock \in [Sockets -> {"none", "queued", "open", "closed"}]
  /\ hand \in [Sockets -> Counted \cup {"none", "gone"}]
  /\ up \in [Sockets -> {"none", "read", "write", "wait", "eof", "error"}]
  /\ stream \in [Sockets -> Streams]
  /\ prog \in [Sockets -> Programs]

(* What a socket, its handler, its copier and its stream have to do with   *)
(* each other.                                                             *)
Handled(so, ha, u, st) ==
  /\ so \in {"none", "queued"} => ha = "none"
  /\ so = "open" => ha \in Counted \ {"leave"}
  /\ st.end = "open" => ha \in {"wait", "closeStream"}
  /\ ha \in {"none", "open"} => u = "none"

(* The chunks a program sent are unread by us, in a copier's hands, on the *)
(* stream or consumed.                                                     *)
OnStream(st) == IF st.put = "sent" THEN 1 ELSE 0

Accounted(u, st, pr) ==
  /\ u = "none" => pr.unread = pr.sent /\ st.took = 0
  /\ u \in {"read", "wait"} => pr.sent = st.took + pr.unread + OnStream(st)
  /\ u = "write" => pr.sent = st.took + pr.unread + 1
  /\ u = "eof" => pr.sent = st.took /\ pr.gone # "no"
  /\ u \in {"none", "read", "write", "eof"} => st.put # "sent"

Fits(k) ==
  /\ Handled(sock[k], hand[k], up[k], stream[k])
  /\ Accounted(up[k], stream[k], prog[k])

SocketInvariant == SocketTypes /\ \A k \in Sockets : Fits(k)

----------------------------------------------------------------------------
(* What a record is after a field or two of it were changed.               *)
IsStream(s, e, p, r, n, t) ==
  s \in Streams /\ s.end = e /\ s.put = p /\ s.recv = r /\ s.sent = n /\ s.took = t
IsProgram(s, n, u, o, w, g) ==
  s \in Programs /\ s.sent = n /\ s.unread = u /\ s.out = o /\ s.wrote = w /\ s.gone = g

LEMMA EndSet ==
  ASSUME NEW s \in Streams, NEW e \in {"open", "local", "remote", "conn"}
  PROVE  IsStream([s EXCEPT !.end = e], e, s.put, s.recv, s.sent, s.took)
BY DEF IsStream, Streams

LEMMA PutSet ==
  ASSUME NEW s \in Streams, NEW p \in {"sent", "acked"}
  PROVE  IsStream([s EXCEPT !.put = p], s.end, p, s.recv, s.sent, s.took)
BY DEF IsStream, Streams

LEMMA RecvSet ==
  ASSUME NEW s \in Streams, NEW r \in Nat
  PROVE  IsStream([s EXCEPT !.recv = r], s.end, s.put, r, s.sent, s.took)
BY DEF IsStream, Streams

LEMMA SentSet ==
  ASSUME NEW s \in Streams, NEW r \in Nat, NEW n \in Nat
  PROVE  IsStream([s EXCEPT !.recv = r, !.sent = n], s.end, s.put, r, n, s.took)
<1>1. [s EXCEPT !.recv = r, !.sent = n] = [[s EXCEPT !.recv = r] EXCEPT !.sent = n]
  BY Zenon
<1>2. IsStream([s EXCEPT !.recv = r], s.end, s.put, r, s.sent, s.took)
  BY RecvSet
<1> QED BY <1>1, <1>2 DEF IsStream, Streams

LEMMA TookSet ==
  ASSUME NEW s \in Streams, NEW t \in Nat
  PROVE  IsStream([s EXCEPT !.put = "acked", !.took = t], s.end, "acked", s.recv, s.sent, t)
<1>1. [s EXCEPT !.put = "acked", !.took = t] = [[s EXCEPT !.put = "acked"] EXCEPT !.took = t]
  BY Zenon
<1>2. IsStream([s EXCEPT !.put = "acked"], s.end, "acked", s.recv, s.sent, s.took)
  BY PutSet
<1> QED BY <1>1, <1>2 DEF IsStream, Streams

LEMMA CutSet ==
  ASSUME NEW s \in Streams, NEW r \in Nat
  PROVE  IsStream([s EXCEPT !.end = "conn", !.recv = r], "conn", s.put, r, s.sent, s.took)
<1>1. [s EXCEPT !.end = "conn", !.recv = r] = [[s EXCEPT !.end = "conn"] EXCEPT !.recv = r]
  BY Zenon
<1>2. IsStream([s EXCEPT !.end = "conn"], "conn", s.put, s.recv, s.sent, s.took)
  BY EndSet
<1> QED BY <1>1, <1>2 DEF IsStream, Streams

LEMMA UnreadSet ==
  ASSUME NEW s \in Programs, NEW u \in Nat
  PROVE  IsProgram([s EXCEPT !.unread = u], s.sent, u, s.out, s.wrote, s.gone)
BY DEF IsProgram, Programs

LEMMA SentUnreadSet ==
  ASSUME NEW s \in Programs, NEW n \in Nat, NEW u \in Nat
  PROVE  IsProgram([s EXCEPT !.sent = n, !.unread = u], n, u, s.out, s.wrote, s.gone)
<1>1. [s EXCEPT !.sent = n, !.unread = u] = [[s EXCEPT !.unread = u] EXCEPT !.sent = n]
  BY Zenon
<1>2. IsProgram([s EXCEPT !.unread = u], s.sent, u, s.out, s.wrote, s.gone)
  BY UnreadSet
<1> QED BY <1>1, <1>2 DEF IsProgram, Programs

LEMMA GoneSet ==
  ASSUME NEW s \in Programs, NEW g \in {"half", "closed"}
  PROVE  IsProgram([s EXCEPT !.gone = g], s.sent, s.unread, s.out, s.wrote, g)
BY DEF IsProgram, Programs

LEMMA OutSet ==
  ASSUME NEW s \in Programs, NEW o \in Nat
  PROVE  IsProgram([s EXCEPT !.out = o], s.sent, s.unread, o, s.wrote, s.gone)
BY DEF IsProgram, Programs

LEMMA WroteSet ==
  ASSUME NEW s \in Programs, NEW o \in Nat, NEW w \in Nat
  PROVE  IsProgram([s EXCEPT !.out = o, !.wrote = w], s.sent, s.unread, o, w, s.gone)
<1>1. [s EXCEPT !.out = o, !.wrote = w] = [[s EXCEPT !.out = o] EXCEPT !.wrote = w]
  BY Zenon
<1>2. IsProgram([s EXCEPT !.out = o], s.sent, s.unread, o, s.wrote, s.gone)
  BY OutSet
<1> QED BY <1>1, <1>2 DEF IsProgram, Programs

----------------------------------------------------------------------------
(* A step that is about one socket, and what it must make of it.           *)
Touches(k) ==
  /\ sock' = [sock EXCEPT ![k] = sock'[k]]
  /\ hand' = [hand EXCEPT ![k] = hand'[k]]
  /\ up' = [up EXCEPT ![k] = up'[k]]
  /\ stream' = [stream EXCEPT ![k] = stream'[k]]
  /\ prog' = [prog EXCEPT ![k] = prog'[k]]

LEMMA OneSocket ==
  ASSUME SocketInvariant, NEW k \in Sockets, Touches(k),
         sock'[k] \in {"none", "queued", "open", "closed"},
         hand'[k] \in Counted \cup {"none", "gone"},
         up'[k] \in {"none", "read", "write", "wait", "eof", "error"},
         stream'[k] \in Streams, prog'[k] \in Programs, Fits(k)'
  PROVE  SocketInvariant'
<1>1. SocketTypes'
  BY DEF SocketInvariant, SocketTypes, Touches
<1>2. ASSUME NEW j \in Sockets \ {k} PROVE Fits(j)'
  <2>1. /\ sock'[j] = sock[j] /\ hand'[j] = hand[j] /\ up'[j] = up[j]
        /\ stream'[j] = stream[j] /\ prog'[j] = prog[j]
    BY DEF SocketInvariant, SocketTypes, Touches
  <2> QED BY <2>1 DEF SocketInvariant, Fits
<1> QED BY <1>1, <1>2 DEF SocketInvariant

LEMMA SameTouches ==
  ASSUME SocketTypes, NEW k \in Sockets
  PROVE  /\ sock = [sock EXCEPT ![k] = sock[k]] /\ hand = [hand EXCEPT ![k] = hand[k]]
         /\ up = [up EXCEPT ![k] = up[k]] /\ stream = [stream EXCEPT ![k] = stream[k]]
         /\ prog = [prog EXCEPT ![k] = prog[k]]
BY DEF SocketTypes

(* Steps that leave the stream and the program's side alone.               *)
LEMMA ControlKeepsSockets ==
  ASSUME SocketInvariant, NEW k \in Sockets,
         Accept(k) \/ FirstDone(k) \/ HostConnects(k) \/ UpWritten(k)
  PROVE  SocketInvariant'
<1>1. UNCHANGED <<stream, prog>>
  BY DEF Accept, FirstDone, WakesAfter, HostConnects, UpWritten, UpWrittenWhen, ours
<1>2. SocketTypes /\ Fits(k)
  BY DEF SocketInvariant
<1> USE <1>1, <1>2 DEF SocketTypes, Fits, Handled, Accounted, OnStream, Touches, Counted
<1>3. CASE Accept(k)
  BY <1>3, OneSocket, SameTouches DEF Accept
<1>4. CASE FirstDone(k)
  BY <1>4, OneSocket, SameTouches DEF FirstDone, WakesAfter, forward
<1>5. CASE HostConnects(k)
  BY <1>5, OneSocket, SameTouches DEF HostConnects, ours
<1>6. CASE UpWritten(k)
  BY <1>6, OneSocket, SameTouches DEF UpWritten, UpWrittenWhen, UpGoes, forward
<1> QED BY <1>3, <1>4, <1>5, <1>6

(* Two fields of one record changed at once.                               *)
LEMMA SentAtOnce ==
  ASSUME NEW f \in [Sockets -> Streams], NEW k \in Sockets, NEW x, NEW y,
         NEW h, h = [f EXCEPT ![k].recv = x, ![k].sent = y]
  PROVE  h = [f EXCEPT ![k] = [f[k] EXCEPT !.recv = x, !.sent = y]]
<1>1. h = [j \in Sockets |-> IF j = k THEN [f[k] EXCEPT !.recv = x, !.sent = y] ELSE f[j]]
  BY Zenon
<1> QED BY <1>1

LEMMA TookAtOnce ==
  ASSUME NEW f \in [Sockets -> Streams], NEW k \in Sockets, NEW x, NEW y,
         NEW h, h = [f EXCEPT ![k].put = x, ![k].took = y]
  PROVE  h = [f EXCEPT ![k] = [f[k] EXCEPT !.put = x, !.took = y]]
<1>1. h = [j \in Sockets |-> IF j = k THEN [f[k] EXCEPT !.put = x, !.took = y] ELSE f[j]]
  BY Zenon
<1> QED BY <1>1

LEMMA UnreadAtOnce ==
  ASSUME NEW f \in [Sockets -> Programs], NEW k \in Sockets, NEW x, NEW y,
         NEW h, h = [f EXCEPT ![k].sent = x, ![k].unread = y]
  PROVE  h = [f EXCEPT ![k] = [f[k] EXCEPT !.sent = x, !.unread = y]]
<1>1. h = [j \in Sockets |-> IF j = k THEN [f[k] EXCEPT !.sent = x, !.unread = y] ELSE f[j]]
  BY Zenon
<1> QED BY <1>1

LEMMA WroteAtOnce ==
  ASSUME NEW f \in [Sockets -> Programs], NEW k \in Sockets, NEW x, NEW y,
         NEW h, h = [f EXCEPT ![k].out = x, ![k].wrote = y]
  PROVE  h = [f EXCEPT ![k] = [f[k] EXCEPT !.out = x, !.wrote = y]]
<1>1. h = [j \in Sockets |-> IF j = k THEN [f[k] EXCEPT !.out = x, !.wrote = y] ELSE f[j]]
  BY Zenon
<1> QED BY <1>1

(* Steps that change a stream alone, or the program's side alone.          *)
LEMMA OneStream ==
  ASSUME SocketInvariant, NEW k \in Sockets, NEW r \in Streams,
         UNCHANGED <<sock, hand, up, prog>>, stream' = [stream EXCEPT ![k] = r],
         Handled(sock[k], hand[k], up[k], r), Accounted(up[k], r, prog[k])
  PROVE  SocketInvariant'
<1>1. stream'[k] = r
  BY DEF SocketInvariant, SocketTypes
<1>2. Touches(k)
  BY <1>1, SameTouches DEF Touches, SocketInvariant
<1>3. Fits(k)'
  BY <1>1 DEF Fits
<1>4. /\ sock'[k] \in {"none", "queued", "open", "closed"} /\ hand'[k] \in Counted \cup {"none", "gone"}
      /\ up'[k] \in {"none", "read", "write", "wait", "eof", "error"} /\ prog'[k] \in Programs
  BY DEF SocketInvariant, SocketTypes
<1> QED BY <1>1, <1>2, <1>3, <1>4, OneSocket

LEMMA OneProgram ==
  ASSUME SocketInvariant, NEW k \in Sockets, NEW q \in Programs,
         UNCHANGED <<sock, hand, up, stream>>, prog' = [prog EXCEPT ![k] = q],
         Accounted(up[k], stream[k], q)
  PROVE  SocketInvariant'
<1>1. prog'[k] = q
  BY DEF SocketInvariant, SocketTypes
<1>2. Touches(k)
  BY <1>1, SameTouches DEF Touches, SocketInvariant
<1>3. Fits(k)'
  BY <1>1 DEF Fits, SocketInvariant
<1>4. /\ sock'[k] \in {"none", "queued", "open", "closed"} /\ hand'[k] \in Counted \cup {"none", "gone"}
      /\ up'[k] \in {"none", "read", "write", "wait", "eof", "error"} /\ stream'[k] \in Streams
  BY DEF SocketInvariant, SocketTypes
<1> QED BY <1>1, <1>2, <1>3, <1>4, OneSocket

(* What is known of a socket before a step.                                *)
LEMMA Before ==
  ASSUME SocketInvariant, NEW k \in Sockets
  PROVE  /\ sock[k] \in {"none", "queued", "open", "closed"}
         /\ hand[k] \in Counted \cup {"none", "gone"}
         /\ up[k] \in {"none", "read", "write", "wait", "eof", "error"}
         /\ stream[k] \in Streams /\ prog[k] \in Programs
         /\ Handled(sock[k], hand[k], up[k], stream[k])
         /\ Accounted(up[k], stream[k], prog[k])
         /\ SocketTypes
BY DEF SocketInvariant, SocketTypes, Fits

(* Steps of a service, and the reading of what it sent.                    *)
LEMMA ServiceStepKeepsSockets ==
  ASSUME SocketInvariant, NEW k \in Sockets,
         DownReads(k) \/ ServiceSends(k) \/ ServiceTakes(k) \/ ServiceEnds(k)
  PROVE  SocketInvariant'
<1> DEFINE s == stream[k]
<1>1. UNCHANGED <<sock, hand, up, prog>>
  BY DEF DownReads, ServiceSends, ServiceTakes, ServiceEnds, ours
<1>2. /\ s \in Streams /\ stream \in [Sockets -> Streams]
      /\ Handled(sock[k], hand[k], up[k], s) /\ Accounted(up[k], s, prog[k])
  BY Before DEF SocketTypes
<1>3. /\ s.recv \in Nat /\ s.sent \in Nat /\ s.took \in Nat
      /\ prog[k].sent \in Nat /\ prog[k].unread \in Nat
  BY Before DEF Streams, Programs
<1>4. ASSUME NEW r \in Streams, r.put = s.put, r.took = s.took, r.end \in {s.end, "remote"},
             stream' = [stream EXCEPT ![k] = r]
      PROVE  SocketInvariant'
  <2>1. Handled(sock[k], hand[k], up[k], r) /\ Accounted(up[k], r, prog[k])
    BY <1>2, <1>4 DEF Handled, Accounted, OnStream
  <2> QED BY <1>1, <1>4, <2>1, OneStream
<1>5. CASE DownReads(k)
  <2>1. s.recv - 1 \in Nat /\ stream' = [stream EXCEPT ![k] = [s EXCEPT !.recv = s.recv - 1]]
    BY <1>3, <1>5 DEF DownReads
  <2> QED BY <1>2, <1>4, <2>1, RecvSet DEF IsStream
<1>6. CASE ServiceSends(k)
  <2> DEFINE x == s.recv + 1
             y == s.sent + 1
             r == [s EXCEPT !.recv = x, !.sent = y]
  <2>1. x \in Nat /\ y \in Nat /\ stream' = [stream EXCEPT ![k].recv = x, ![k].sent = y]
    BY <1>3, <1>6 DEF ServiceSends
  <2> HIDE DEF x, y
  <2>2. stream' = [stream EXCEPT ![k] = r]
    BY <1>2, <2>1, SentAtOnce, Zenon
  <2>3. IsStream(r, s.end, s.put, x, y, s.took)
    BY <1>2, <2>1, SentSet
  <2> QED BY <1>4, <2>2, <2>3 DEF IsStream
<1>7. CASE ServiceTakes(k)
  <2> DEFINE t == s.took + 1
             r == [s EXCEPT !.put = "acked", !.took = t]
  <2>1. t \in Nat /\ s.put = "sent" /\ stream' = [stream EXCEPT ![k].put = "acked", ![k].took = t]
    BY <1>3, <1>7 DEF ServiceTakes
  <2> HIDE DEF t
  <2>2. stream' = [stream EXCEPT ![k] = r]
    BY <1>2, <2>1, TookAtOnce, Zenon
  <2>3. IsStream(r, s.end, "acked", s.recv, s.sent, t)
    BY <1>2, <2>1, TookSet
  <2> HIDE DEF r
  <2>4. Handled(sock[k], hand[k], up[k], r) /\ Accounted(up[k], r, prog[k])
    BY <1>2, <1>3, <2>1, <2>3, Before DEF Handled, Accounted, OnStream, IsStream, t
  <2> QED BY <1>1, <2>2, <2>3, <2>4, OneStream DEF IsStream
<1>8. CASE ServiceEnds(k)
  <2>1. stream' = [stream EXCEPT ![k] = [s EXCEPT !.end = "remote"]]
    BY <1>8 DEF ServiceEnds
  <2> QED BY <1>2, <1>4, <2>1, EndSet DEF IsStream
<1> QED BY <1>5, <1>6, <1>7, <1>8

(* Steps of the handler and of the copier from the socket.                 *)
LEMMA HandlerKeepsSockets ==
  ASSUME SocketInvariant, NEW k \in Sockets,
         Open(k) \/ Leave(k) \/ UpWrites(k) \/ UpEnds(k)
  PROVE  SocketInvariant'
<1> DEFINE s == stream[k]
<1>1. UNCHANGED prog
  BY DEF Open, Leave, HandlerSteps, UpWrites, UpEnds
<1>2. /\ s \in Streams /\ s.took \in Nat /\ prog[k] \in Programs /\ SocketTypes
      /\ Handled(sock[k], hand[k], up[k], s) /\ Accounted(up[k], s, prog[k])
      /\ prog[k].sent \in Nat /\ prog[k].unread \in Nat
  BY Before DEF Streams, Programs
<1>3. /\ sock[k] \in {"none", "queued", "open", "closed"} /\ hand[k] \in Counted \cup {"none", "gone"}
      /\ up[k] \in {"none", "read", "write", "wait", "eof", "error"}
  BY Before
<1>4. ASSUME NEW r \in Streams, stream' = [stream EXCEPT ![k] = r],
             NEW so \in {"none", "queued", "open", "closed"}, sock' = [sock EXCEPT ![k] = so],
             NEW ha \in Counted \cup {"none", "gone"}, hand' = [hand EXCEPT ![k] = ha],
             NEW u \in {"none", "read", "write", "wait", "eof", "error"}, up' = [up EXCEPT ![k] = u],
             Handled(so, ha, u, r), Accounted(u, r, prog[k])
      PROVE  SocketInvariant'
  <2>1. sock'[k] = so /\ hand'[k] = ha /\ up'[k] = u /\ stream'[k] = r /\ prog'[k] = prog[k]
    BY <1>1, <1>2, <1>4 DEF SocketTypes
  <2>2. Touches(k)
    BY <1>1, <1>2, <1>4, <2>1, SameTouches DEF Touches
  <2>3. Fits(k)'
    BY <1>4, <2>1 DEF Fits
  <2> QED BY <1>2, <1>4, <2>1, <2>2, <2>3, OneSocket
<1>5. /\ sock = [sock EXCEPT ![k] = sock[k]] /\ hand = [hand EXCEPT ![k] = hand[k]]
      /\ up = [up EXCEPT ![k] = up[k]] /\ stream = [stream EXCEPT ![k] = s]
  BY <1>2, SameTouches
<1>6. CASE Open(k)
  <2> DEFINE r == [s EXCEPT !.end = "open"]
  <2>1. IsStream(r, "open", s.put, s.recv, s.sent, s.took)
    BY <1>2, EndSet
  <2>2. CASE /\ hand' = [hand EXCEPT ![k] = "wait"] /\ up' = [up EXCEPT ![k] = "read"]
             /\ stream' = [stream EXCEPT ![k] = r] /\ UNCHANGED sock /\ hand[k] = "open"
    <3> HIDE DEF r
    <3>1. Handled(sock[k], "wait", "read", r) /\ Accounted("read", r, prog[k])
      BY <1>2, <1>3, <2>1, <2>2 DEF Handled, Accounted, OnStream, IsStream, Counted
    <3> QED BY <1>3, <1>4, <1>5, <2>1, <2>2, <3>1 DEF IsStream, Counted
  <2>3. CASE /\ hand' = [hand EXCEPT ![k] = "closeSocket"] /\ hand[k] = "open"
             /\ UNCHANGED <<sock, up, stream>>
    <3>1. Handled(sock[k], "closeSocket", up[k], s) /\ Accounted(up[k], s, prog[k])
      BY <1>2, <2>3 DEF Handled, Counted
    <3> QED BY <1>2, <1>3, <1>4, <1>5, <2>3, <3>1 DEF Counted
  <2> QED BY <1>6, <2>2, <2>3 DEF Open
<1>7. CASE UpWrites(k)
  <2> DEFINE r == [s EXCEPT !.put = "sent"]
  <2>1. IsStream(r, s.end, "sent", s.recv, s.sent, s.took)
    BY <1>2, PutSet
  <2>2. CASE /\ up[k] = "write" /\ up' = [up EXCEPT ![k] = "wait"]
             /\ stream' = [stream EXCEPT ![k] = r] /\ UNCHANGED <<sock, hand>>
    <3> HIDE DEF r
    <3>1. Handled(sock[k], hand[k], "wait", r) /\ Accounted("wait", r, prog[k])
      BY <1>2, <2>1, <2>2 DEF Handled, Accounted, OnStream, IsStream
    <3> QED BY <1>3, <1>4, <1>5, <2>1, <2>2, <3>1 DEF IsStream
  <2>3. CASE /\ up[k] = "write" /\ up' = [up EXCEPT ![k] = "error"]
             /\ UNCHANGED <<sock, hand, stream>>
    <3>1. Handled(sock[k], hand[k], "error", s) /\ Accounted("error", s, prog[k])
      BY <1>2, <2>3 DEF Handled, Accounted
    <3> QED BY <1>2, <1>3, <1>4, <1>5, <2>3, <3>1
  <2> QED BY <1>7, <2>2, <2>3 DEF UpWrites, UpGoes, forward
<1>8. PICK r \in Streams : /\ r = [s EXCEPT !.end = IF s.end = "open" THEN "local" ELSE s.end]
                           /\ r.end # "open" /\ r.put = s.put /\ r.took = s.took
  <2>1. CASE s.end = "open"
    BY <1>2, <2>1, EndSet DEF IsStream
  <2>2. CASE s.end # "open"
    <3>1. s = [s EXCEPT !.end = s.end]
      BY <1>2 DEF Streams
    <3> QED BY <1>2, <2>2, <3>1
  <2> QED BY <2>1, <2>2
<1>9. CloseStream(k) => stream' = [stream EXCEPT ![k] = r]
  BY <1>8 DEF CloseStream
<1>10. CASE Leave(k)
  <2>1. CASE /\ hand[k] = "closeStream" /\ CloseStream(k)
             /\ hand' = [hand EXCEPT ![k] = "closeSocket"] /\ UNCHANGED <<sock, up>>
    <3>1. Handled(sock[k], "closeSocket", up[k], r) /\ Accounted(up[k], r, prog[k])
      BY <1>2, <1>8, <2>1 DEF Handled, Accounted, OnStream, Counted
    <3> QED BY <1>3, <1>4, <1>5, <1>9, <2>1, <3>1 DEF Counted
  <2>2. CASE /\ hand[k] = "closeSocket" /\ sock' = [sock EXCEPT ![k] = "closed"]
             /\ hand' = [hand EXCEPT ![k] = "leave"] /\ UNCHANGED <<up, stream>>
    <3>1. Handled("closed", "leave", up[k], s) /\ Accounted(up[k], s, prog[k])
      BY <1>2, <2>2 DEF Handled
    <3> QED BY <1>2, <1>3, <1>4, <1>5, <2>2, <3>1 DEF Counted
  <2>3. CASE /\ hand[k] = "leave" /\ hand' = [hand EXCEPT ![k] = "gone"]
             /\ UNCHANGED <<sock, up, stream>>
    <3>1. Handled(sock[k], "gone", up[k], s) /\ Accounted(up[k], s, prog[k])
      BY <1>2, <1>3, <2>3 DEF Handled, Counted
    <3> QED BY <1>2, <1>3, <1>4, <1>5, <2>3, <3>1 DEF Counted
  <2> QED BY <1>10, <2>1, <2>2, <2>3 DEF Leave, HandlerSteps, forward
<1>11. CASE UpEnds(k)
  <2>1. Handled(sock[k], hand[k], up[k], r) /\ Accounted(up[k], r, prog[k])
    BY <1>2, <1>8 DEF Handled, Accounted, OnStream
  <2>2. UNCHANGED <<sock, hand, up>> /\ (CloseStream(k) \/ UNCHANGED stream)
    BY <1>11 DEF UpEnds
  <2>3. CASE UNCHANGED stream
    BY <1>1, <2>2, <2>3 DEF SocketInvariant, SocketTypes, Fits
  <2> QED BY <1>3, <1>4, <1>5, <1>9, <2>1, <2>2, <2>3
<1> QED BY <1>6, <1>7, <1>10, <1>11

(* Steps that change the program's side.                                   *)
LEMMA ProgramStepKeepsSockets ==
  ASSUME SocketInvariant, NEW k \in Sockets,
         \/ UpReads(k) \/ DownWrites(k) \/ DownEnds(k)
         \/ HostSends(k) \/ HostEnds(k) \/ HostReads(k)
  PROVE  SocketInvariant'
<1> DEFINE q == prog[k]
<1>1. UNCHANGED <<sock, hand, stream>>
  BY DEF UpReads, DownWrites, DownEnds, DownEndsIf, HostSends, HostEnds, HostReads, ours, forward
<1>2. /\ q \in Programs /\ prog \in [Sockets -> Programs] /\ stream[k] \in Streams /\ SocketTypes
      /\ Handled(sock[k], hand[k], up[k], stream[k]) /\ Accounted(up[k], stream[k], q)
      /\ up[k] \in {"none", "read", "write", "wait", "eof", "error"}
  BY Before DEF SocketTypes
<1>3. q.sent \in Nat /\ q.unread \in Nat /\ q.out \in Nat /\ q.wrote \in Nat /\ stream[k].took \in Nat
  BY <1>2 DEF Programs, Streams
<1>4. ASSUME NEW r \in Programs, prog' = [prog EXCEPT ![k] = r], up' = up,
             r.sent = q.sent, r.unread = q.unread, r.gone \in {q.gone, "half", "closed"}
      PROVE  SocketInvariant'
  <2>1. Accounted(up[k], stream[k], r)
    BY <1>2, <1>4 DEF Accounted
  <2> QED BY <1>1, <1>4, <2>1, OneProgram
<1>5. ASSUME NEW r \in Programs, prog' = [prog EXCEPT ![k] = r], NEW u, up' = [up EXCEPT ![k] = u],
             up[k] = "read", u \in {"write", "eof", "error"}, Accounted(u, stream[k], r)
      PROVE  SocketInvariant'
  <2>1. prog'[k] = r /\ up'[k] = u
    BY <1>2, <1>5 DEF SocketTypes
  <2>2. Touches(k)
    BY <1>1, <1>2, <1>5, <2>1, SameTouches DEF Touches
  <2>3. Fits(k)'
    BY <1>1, <1>2, <1>5, <2>1 DEF Fits, Handled
  <2> QED BY <1>1, <1>5, <2>1, <2>2, <2>3, Before, OneSocket
<1>6. CASE UpReads(k)
  <2>1. CASE /\ up[k] = "read" /\ up' = [up EXCEPT ![k] = "write"]
             /\ q.unread > 0 /\ prog' = [prog EXCEPT ![k].unread = q.unread - 1]
    <3> DEFINE u == q.unread - 1
               r == [q EXCEPT !.unread = u]
    <3>1. u \in Nat /\ q.unread = u + 1 /\ prog' = [prog EXCEPT ![k] = r]
      BY <1>3, <2>1
    <3> HIDE DEF u
    <3>2. IsProgram(r, q.sent, u, q.out, q.wrote, q.gone)
      BY <1>2, <3>1, UnreadSet
    <3> HIDE DEF r
    <3>3. Accounted("write", stream[k], r)
      BY <1>2, <1>3, <2>1, <3>1, <3>2 DEF Accounted, OnStream, IsProgram
    <3> QED BY <1>5, <2>1, <3>1, <3>2, <3>3 DEF IsProgram
  <2>2. CASE /\ up[k] = "read" /\ up' = [up EXCEPT ![k] = "eof"]
             /\ q.unread = 0 /\ q.gone # "no" /\ UNCHANGED prog
    <3>1. Accounted("eof", stream[k], q) /\ prog' = [prog EXCEPT ![k] = q]
      BY <1>2, <1>3, <2>2 DEF Accounted, OnStream
    <3> QED BY <1>2, <1>5, <2>2, <3>1
  <2>3. CASE up[k] = "read" /\ up' = [up EXCEPT ![k] = "error"] /\ UNCHANGED prog
    <3>1. Accounted("error", stream[k], q) /\ prog' = [prog EXCEPT ![k] = q]
      BY <1>2, <2>3 DEF Accounted
    <3> QED BY <1>2, <1>5, <2>3, <3>1
  <2> QED BY <1>6, <2>1, <2>2, <2>3 DEF UpReads, UpGoes
<1>7. CASE DownWrites(k)
  <2> DEFINE w == q.wrote + 1
             r == [q EXCEPT !.out = 1, !.wrote = w]
  <2>1. w \in Nat /\ prog' = [prog EXCEPT ![k].out = 1, ![k].wrote = w] /\ up' = up
    BY <1>3, <1>7 DEF DownWrites
  <2> HIDE DEF w
  <2>2. prog' = [prog EXCEPT ![k] = r]
    BY <1>2, <2>1, WroteAtOnce, Zenon
  <2>3. IsProgram(r, q.sent, q.unread, 1, w, q.gone)
    BY <1>2, <2>1, WroteSet
  <2> QED BY <1>4, <2>1, <2>2, <2>3 DEF IsProgram
<1>8. CASE DownEnds(k)
  <2>1. UNCHANGED <<prog, up>> /\ prog' = [prog EXCEPT ![k] = q]
    BY <1>2, <1>8 DEF DownEnds, DownEndsIf
  <2> QED BY <1>2, <1>4, <2>1
<1>9. CASE HostSends(k)
  <2> DEFINE n == q.sent + 1
             u == q.unread + 1
             r == [q EXCEPT !.sent = n, !.unread = u]
  <2>1. /\ n \in Nat /\ u \in Nat /\ q.gone = "no" /\ up' = up
        /\ prog' = [prog EXCEPT ![k].sent = n, ![k].unread = u]
    BY <1>3, <1>9 DEF HostSends, ours
  <2>2. n = q.sent + 1 /\ u = q.unread + 1
    OBVIOUS
  <2> HIDE DEF n, u
  <2>3. prog' = [prog EXCEPT ![k] = r]
    BY <1>2, <2>1, UnreadAtOnce, Zenon
  <2>4. IsProgram(r, n, u, q.out, q.wrote, q.gone)
    BY <1>2, <2>1, SentUnreadSet
  <2> HIDE DEF r
  <2>5. Accounted(up[k], stream[k], r)
    BY <1>2, <1>3, <2>1, <2>2, <2>4 DEF Accounted, OnStream, IsProgram
  <2> QED BY <1>1, <2>1, <2>3, <2>4, <2>5, OneProgram DEF IsProgram
<1>10. CASE HostEnds(k)
  <2>1. PICK how \in {"half", "closed"} : prog' = [prog EXCEPT ![k].gone = how]
    BY <1>10, ForwardAssumption DEF HostEnds
  <2> DEFINE r == [q EXCEPT !.gone = how]
  <2>2. prog' = [prog EXCEPT ![k] = r] /\ up' = up
    BY <1>10, <2>1 DEF HostEnds, ours
  <2>3. IsProgram(r, q.sent, q.unread, q.out, q.wrote, how)
    BY <1>2, GoneSet
  <2> QED BY <1>4, <2>2, <2>3 DEF IsProgram
<1>11. CASE HostReads(k)
  <2> DEFINE r == [q EXCEPT !.out = 0]
  <2>1. prog' = [prog EXCEPT ![k] = r] /\ up' = up
    BY <1>11 DEF HostReads, ours
  <2>2. IsProgram(r, q.sent, q.unread, 0, q.wrote, q.gone)
    BY <1>2, OutSet
  <2> QED BY <1>4, <2>1, <2>2 DEF IsProgram
<1> QED BY <1>6, <1>7, <1>8, <1>9, <1>10, <1>11

(* The steps about all sockets.                                            *)
LEMMA CloseKeepsSockets ==
  ASSUME SocketInvariant, CloseListener, UNCHANGED <<hand, up, stream, prog>>
  PROVE  SocketInvariant'
<1>1. sock' \in [Sockets -> {"none", "queued", "open", "closed"}]
  BY DEF CloseListener, SocketInvariant, SocketTypes
<1>2. ASSUME NEW k \in Sockets PROVE Fits(k)'
  <2>1. sock'[k] \in {sock[k], "closed"}
    BY DEF CloseListener
  <2> QED BY <2>1 DEF SocketInvariant, Fits, Handled
<1> QED BY <1>1, <1>2 DEF SocketInvariant, SocketTypes

LEMMA LossKeepsSockets ==
  ASSUME SocketInvariant, ConnEnds
  PROVE  SocketInvariant'
<1>1. PICK kept \in [Sockets -> 0 .. 2] :
        stream' = [k \in Sockets |->
          IF stream[k].end = "open" THEN [stream[k] EXCEPT !.end = "conn", !.recv = kept[k]]
          ELSE stream[k]]
  BY DEF ConnEnds
<1>2. UNCHANGED <<sock, hand, up, prog>>
  BY DEF ConnEnds, ours
<1>3. ASSUME NEW k \in Sockets
      PROVE  stream'[k] \in Streams /\ Fits(k)'
  <2>1. stream[k] \in Streams /\ Fits(k)
    BY DEF SocketInvariant, SocketTypes
  <2>2. CASE stream[k].end = "open"
    <3>1. stream'[k] = [stream[k] EXCEPT !.end = "conn", !.recv = kept[k]]
      BY <1>1, <2>2
    <3>2. IsStream(stream'[k], "conn", stream[k].put, kept[k], stream[k].sent, stream[k].took)
      <4>1. kept[k] \in Nat
        OBVIOUS
      <4> QED BY <2>1, <3>1, <4>1, CutSet
    <3> QED BY <1>2, <2>1, <3>2 DEF Fits, Handled, Accounted, OnStream, IsStream
  <2>3. CASE stream[k].end # "open"
    <3>1. stream'[k] = stream[k]
      BY <1>1, <2>3
    <3> QED BY <1>2, <2>1, <3>1 DEF Fits
  <2> QED BY <2>2, <2>3
<1>4. stream' \in [Sockets -> Streams]
  BY <1>1, <1>3
<1> QED BY <1>2, <1>3, <1>4 DEF SocketInvariant, SocketTypes

(* The steps that are about one socket.                                    *)
SocketStep(k) == Accept(k) \/ HandlerStep(k) \/ UpStep(k) \/ DownStep(k) \/ Environment(k)

LEMMA NextKeepsSockets == SocketInvariant /\ [Next]_vars => SocketInvariant'
<1> SUFFICES ASSUME SocketInvariant, [Next]_vars PROVE SocketInvariant'
  OBVIOUS
<1>1. ASSUME NEW k \in Sockets, SocketStep(k) PROVE SocketInvariant'
  BY <1>1, ControlKeepsSockets, ServiceStepKeepsSockets, HandlerKeepsSockets, ProgramStepKeepsSockets
     DEF SocketStep, HandlerStep, UpStep, DownStep, Environment
<1>2. CASE UNCHANGED <<sock, hand, up, stream, prog>>
  BY <1>2 DEF SocketInvariant, SocketTypes, Fits
<1>3. CASE CtxEnds \/ LoopExits \/ UNCHANGED vars
  BY <1>2, <1>3 DEF CtxEnds, LoopExits, vars
<1>4. CASE Watch \/ Close
  <2>1. UNCHANGED <<hand, up, stream, prog>> /\ (CloseListener \/ UNCHANGED sock)
    BY <1>4 DEF Watch, Close
  <2> QED BY <1>2, <2>1, CloseKeepsSockets
<1>5. CASE ConnEnds
  BY <1>5, LossKeepsSockets
<1> QED BY <1>1, <1>3, <1>4, <1>5 DEF Next, SocketStep

----------------------------------------------------------------------------
(* The wait group counts the accept loop and the handlers, so that Close   *)
(* waits for all of them; and a closed listener has no socket waiting.     *)
Live == {k \in Sockets : hand[k] \in Counted}
Looping == IF loop = "accept" THEN 1 ELSE 0
WaitGroup == IsFiniteSet(Live) /\ wg = Cardinality(Live) + Looping

Closing ==
  /\ closer \in {"wait", "returned"} => listener = "closed"
  /\ listener = "closed" => \A k \in Sockets : sock[k] # "queued"
  /\ closer = "returned" => wg = 0

Control ==
  /\ listener \in {"open", "closed"} /\ loop \in {"accept", "exited"}
  /\ WaitGroup /\ Closing

LEMMA LiveCount ==
  ASSUME WaitGroup
  PROVE  /\ Cardinality(Live) \in Nat /\ wg \in Nat /\ wg >= Cardinality(Live)
         /\ loop = "accept" => wg > 0
         /\ \A k \in Live : wg > 0
<1>1. Cardinality(Live) \in Nat
  BY FS_CardinalityType DEF WaitGroup
<1>2. ASSUME NEW k \in Live PROVE Cardinality(Live) # 0
  BY FS_EmptySet DEF WaitGroup
<1> QED BY <1>1, <1>2 DEF WaitGroup, Looping

LEMMA AcceptKeepsControl ==
  ASSUME SocketInvariant, Control, NEW k \in Sockets, Accept(k)
  PROVE  Control'
<1>1. hand[k] = "none" /\ hand' = [hand EXCEPT ![k] = "open"] /\ hand \in [Sockets -> Counted \cup {"none", "gone"}]
  BY DEF SocketInvariant, SocketTypes, Fits, Handled, Accept
<1>2. k \notin Live /\ Live' = Live \cup {k}
  BY <1>1 DEF Live, Counted
<1>3. WaitGroup'
  <2>1. IsFiniteSet(Live') /\ Cardinality(Live') = Cardinality(Live) + 1
    BY <1>2, FS_AddElement DEF Control, WaitGroup
  <2> QED BY <2>1, LiveCount DEF Control, WaitGroup, Looping, Accept
<1>4. Closing'
  BY LiveCount DEF Control, Closing, Accept, SocketInvariant, SocketTypes
<1> QED BY <1>3, <1>4 DEF Control, Accept

LEMMA LeaveKeepsControl ==
  ASSUME SocketInvariant, Control, NEW k \in Sockets, Leave(k)
  PROVE  Control'
<1>1. hand \in [Sockets -> Counted \cup {"none", "gone"}] /\ UNCHANGED <<listener, loop, closer>>
  BY DEF SocketInvariant, SocketTypes, Leave, HandlerSteps, forward
<1>2. \A j \in Sockets : sock'[j] = "queued" => sock[j] = "queued"
  BY DEF Leave, HandlerSteps, SocketInvariant, SocketTypes
<1>3. CASE wg' = wg /\ \E pc \in {"closeSocket", "leave"} :
             hand[k] \in Counted /\ hand' = [hand EXCEPT ![k] = pc]
  <2>1. Live' = Live
    BY <1>1, <1>3 DEF Live, Counted
  <2> QED BY <1>1, <1>2, <1>3, <2>1 DEF Control, WaitGroup, Closing, Looping
<1>4. CASE hand[k] = "leave" /\ hand' = [hand EXCEPT ![k] = "gone"] /\ wg' = wg - 1
  <2>1. k \in Live /\ Live' = Live \ {k}
    BY <1>1, <1>4 DEF Live, Counted
  <2>2. IsFiniteSet(Live') /\ Cardinality(Live') = Cardinality(Live) - 1
    BY <2>1, FS_RemoveElement DEF Control, WaitGroup
  <2>3. WaitGroup'
    BY <1>1, <1>4, <2>2, LiveCount DEF Control, WaitGroup, Looping
  <2> QED BY <1>1, <1>2, <1>4, <2>1, <2>3, LiveCount DEF Control, Closing
<1> QED BY <1>3, <1>4 DEF Leave, HandlerSteps, forward, Counted

LEMMA SocketStepKeepsControl ==
  ASSUME SocketInvariant, Control, NEW k \in Sockets, SocketStep(k)
  PROVE  Control'
<1>1. CASE Open(k) \/ FirstDone(k)
  <2>1. UNCHANGED <<forward, sock>> /\ hand[k] \in Counted
        /\ \E pc \in Counted : hand' = [hand EXCEPT ![k] = pc]
    BY <1>1 DEF Open, FirstDone, WakesAfter, Counted, forward
  <2>2. Live' = Live
    BY <2>1 DEF Live, SocketInvariant, SocketTypes
  <2> QED BY <2>1, <2>2 DEF Control, WaitGroup, Closing, Looping, forward
<1>2. CASE UNCHANGED <<forward, hand, sock>>
  BY <1>2 DEF Control, WaitGroup, Closing, Looping, Live, forward
<1>3. CASE HostConnects(k)
  BY <1>3 DEF HostConnects, Control, WaitGroup, Closing, Looping, Live, forward, ours
<1>4. CASE \/ UpStep(k) \/ DownStep(k) \/ HostSends(k) \/ HostEnds(k) \/ HostReads(k)
           \/ ServiceSends(k) \/ ServiceTakes(k) \/ ServiceEnds(k)
  <2>1. UNCHANGED <<forward, hand, sock>>
    BY <1>4 DEF UpStep, DownStep, UpReads, UpWrites, UpWritten, UpWrittenWhen, UpEnds, DownReads,
       DownWrites, DownEnds, DownEndsIf, HostSends, HostEnds, HostReads, ServiceSends, ServiceTakes,
       ServiceEnds, ours
  <2> QED BY <1>2, <2>1
<1> QED BY <1>1, <1>3, <1>4, AcceptKeepsControl, LeaveKeepsControl
        DEF SocketStep, HandlerStep, Environment

LEMMA NextKeepsControl == SocketInvariant /\ Control /\ [Next]_vars => Control'
<1> SUFFICES ASSUME SocketInvariant, Control, [Next]_vars PROVE Control'
  OBVIOUS
<1> USE DEF Control, WaitGroup, Closing, Looping, Live
<1>1. CASE \E k \in Sockets : SocketStep(k)
  BY <1>1, SocketStepKeepsControl
<1>2. CASE CtxEnds \/ ConnEnds \/ UNCHANGED vars
  BY <1>2 DEF CtxEnds, ConnEnds, vars, ours, forward
<1>3. CASE Watch
  BY <1>3 DEF Watch, CloseListener
<1>4. CASE Close
  BY <1>4 DEF Close, CloseListener
<1>5. CASE LoopExits
  <2>1. wg' = wg - 1 /\ loop = "accept" /\ loop' = "exited" /\ UNCHANGED <<hand, sock, listener, closer>>
    BY <1>5 DEF LoopExits
  <2>2. Live' = Live
    BY <2>1
  <2> HIDE DEF Live
  <2> QED BY <2>1, <2>2, LiveCount
<1> QED BY <1>1, <1>2, <1>3, <1>4, <1>5 DEF Next, SocketStep

LEMMA InitForward == Init => SocketInvariant /\ Control
<1> SUFFICES ASSUME Init PROVE SocketInvariant /\ Control
  OBVIOUS
<1>1. SocketTypes
  BY DEF Init, SocketTypes, Streams, Programs
<1>2. \A k \in Sockets : Fits(k)
  BY DEF Init, Fits, Handled, Accounted
<1>3. Live = {}
  BY DEF Init, Live, Counted
<1>4. WaitGroup
  BY <1>3, FS_EmptySet DEF Init, WaitGroup, Looping
<1>5. Closing
  BY DEF Init, Closing
<1> QED BY <1>1, <1>2, <1>4, <1>5 DEF SocketInvariant, Control, Init

LEMMA AlwaysForward == Spec => [](SocketInvariant /\ Control)
<1>1. SocketInvariant /\ Control /\ [Next]_vars => (SocketInvariant /\ Control)'
  BY NextKeepsSockets, NextKeepsControl
<1> QED BY InitForward, <1>1, PTL DEF Spec

(* After Forward.Close has returned nothing of the forward is open any     *)
(* more, whatever was forwarded (conveniences.go:113-125, 137-145).        *)
THEOREM CloseLeavesNothing == Spec => []ClosedIsQuiet
<1>1. SocketInvariant /\ Control => ClosedIsQuiet
  <2> SUFFICES ASSUME SocketInvariant, Control, closer = "returned" PROVE ClosedIsQuiet
    BY DEF ClosedIsQuiet
  <2>1. loop = "exited" /\ \A k \in Sockets : hand[k] \notin Counted
    BY LiveCount DEF Control, Closing, Live
  <2>2. \A k \in Sockets : hand[k] \in {"none", "gone"} /\ sock[k] # "queued"
    BY <2>1 DEF SocketInvariant, SocketTypes, Control, Closing
  <2>3. \A k \in Sockets : sock[k] # "open" /\ stream[k].end # "open"
    BY <2>2 DEF SocketInvariant, Fits, Handled, Counted
  <2>4. \A k \in Sockets : sock[k] \in {"none", "closed"}
    BY <2>2, <2>3 DEF SocketInvariant, SocketTypes
  <2> QED BY <2>1, <2>2, <2>3, <2>4 DEF ClosedIsQuiet
<1> QED BY <1>1, AlwaysForward, PTL

(* A program that ends its side has had its request consumed by the        *)
(* service when the copier meets the end of the socket                     *)
(* (conveniences.go:122).                                                  *)
THEOREM RequestIsDelivered == Spec => []RequestIsComplete
<1>1. SocketInvariant => RequestIsComplete
  BY DEF SocketInvariant, Fits, Accounted, RequestIsComplete
<1> QED BY <1>1, AlwaysForward, PTL

----------------------------------------------------------------------------
(* The replies of a service, and when they are all on the socket.          *)

InHand(d) == IF d = "write" THEN 1 ELSE 0

(* What a service sent is queued, in the hands of the copier or written    *)
(* until that copier ends.  If it reports first it has either drained a    *)
(* stream that has ended, or found the program gone: a socket that we      *)
(* closed ourselves had another report before.                             *)
Answering(so, ha, d, dn, st, pr) ==
  /\ ha \in {"open", "wait", "closeStream"} => so = "open"
  /\ ha \in {"none", "open"} => st.end = "none" /\ d = "none" /\ dn = <<>>
  /\ ha \in {"closeStream", "closeSocket", "leave", "gone"} /\ d # "none" => dn # <<>>
  /\ d # "ended" => \A i \in DOMAIN dn : dn[i] # "down"
  /\ d # "ended" /\ st.end # "conn" => st.sent = st.recv + pr.wrote + InHand(d)
  /\ d = "ended" /\ dn # <<>> /\ dn[1] = "down" /\ pr.gone # "closed" /\ st.end # "conn"
       => st.end # "open" /\ pr.wrote = st.sent

Answers(k) == Answering(sock[k], hand[k], down[k], done[k], stream[k], prog[k])

AnswerTypes ==
  /\ down \in [Sockets -> {"none", "read", "write", "ended"}]
  /\ done \in [Sockets -> Seq({"up", "down"})]

AnswerInvariant == AnswerTypes /\ \A k \in Sockets : Answers(k)

(* What the steps about one socket leave of the others.                    *)
LEMMA OthersAnswer ==
  ASSUME SocketTypes, AnswerInvariant, NEW k \in Sockets, NEW so, NEW ha, NEW d, NEW dn, NEW st, NEW pr,
         sock' = [sock EXCEPT ![k] = so], hand' = [hand EXCEPT ![k] = ha],
         down' = [down EXCEPT ![k] = d], done' = [done EXCEPT ![k] = dn],
         stream' = [stream EXCEPT ![k] = st], prog' = [prog EXCEPT ![k] = pr],
         d \in {"none", "read", "write", "ended"}, dn \in Seq({"up", "down"}),
         Answering(so, ha, d, dn, st, pr)
  PROVE  AnswerInvariant'
<1>1. /\ sock'[k] = so /\ hand'[k] = ha /\ down'[k] = d /\ done'[k] = dn
      /\ stream'[k] = st /\ prog'[k] = pr
  BY DEF SocketTypes, AnswerInvariant, AnswerTypes
<1>2. ASSUME NEW j \in Sockets \ {k} PROVE Answers(j)'
  <2>1. /\ sock'[j] = sock[j] /\ hand'[j] = hand[j] /\ down'[j] = down[j] /\ done'[j] = done[j]
        /\ stream'[j] = stream[j] /\ prog'[j] = prog[j]
    BY DEF SocketTypes, AnswerInvariant, AnswerTypes
  <2> QED BY <2>1 DEF AnswerInvariant, Answers
<1>3. Answers(k)'
  BY <1>1 DEF Answers
<1>4. AnswerTypes'
  BY DEF AnswerInvariant, AnswerTypes
<1> QED BY <1>2, <1>3, <1>4 DEF AnswerInvariant

LEMMA SameAnswers ==
  ASSUME AnswerInvariant, NEW k \in Sockets
  PROVE  down = [down EXCEPT ![k] = down[k]] /\ done = [done EXCEPT ![k] = done[k]]
BY DEF AnswerInvariant, AnswerTypes

(* What is known of a socket before a step.                                *)
LEMMA AnswersBefore ==
  ASSUME SocketInvariant, AnswerInvariant, NEW k \in Sockets
  PROVE  /\ down[k] \in {"none", "read", "write", "ended"} /\ done[k] \in Seq({"up", "down"})
         /\ Answering(sock[k], hand[k], down[k], done[k], stream[k], prog[k])
         /\ stream[k].recv \in Nat /\ stream[k].sent \in Nat
         /\ prog[k].out \in Nat /\ prog[k].wrote \in Nat
BY Before DEF AnswerInvariant, AnswerTypes, Answers, Streams, Programs

LEMMA ReportAppended ==
  ASSUME NEW dn \in Seq({"up", "down"}), NEW who \in {"up", "down"}
  PROVE  /\ Append(dn, who) \in Seq({"up", "down"}) /\ Append(dn, who) # <<>>
         /\ dn # <<>> => Append(dn, who)[1] = dn[1]
         /\ dn = <<>> => Append(dn, who)[1] = who
         /\ (who = "up" /\ \A i \in DOMAIN dn : dn[i] # "down")
              => \A i \in DOMAIN Append(dn, who) : Append(dn, who)[i] # "down"
<1>1. /\ Append(dn, who) \in Seq({"up", "down"}) /\ Append(dn, who) # <<>>
      /\ Len(Append(dn, who)) = Len(dn) + 1 /\ Append(dn, who)[Len(dn) + 1] = who
      /\ \A i \in 1 .. Len(dn) : Append(dn, who)[i] = dn[i]
      /\ DOMAIN dn = 1 .. Len(dn) /\ DOMAIN Append(dn, who) = 1 .. Len(dn) + 1
  OBVIOUS
<1>2. Len(dn) \in Nat /\ (dn # <<>> => Len(dn) > 0) /\ (dn = <<>> => Len(dn) = 0)
  OBVIOUS
<1> QED BY <1>1, <1>2

(* Steps of the accept loop, the handler and the copier from the socket.   *)
LEMMA HandlerKeepsAnswers ==
  ASSUME SocketInvariant, AnswerInvariant, NEW k \in Sockets,
         Accept(k) \/ HandlerStep(k) \/ HostConnects(k)
  PROVE  AnswerInvariant'
<1> DEFINE s == stream[k]
<1>1. UNCHANGED <<prog, done>>
  BY DEF Accept, HandlerStep, Open, FirstDone, WakesAfter, Leave, HandlerSteps, HostConnects, ours, forward
<1>2. /\ SocketTypes /\ s \in Streams /\ Handled(sock[k], hand[k], up[k], s)
      /\ down[k] \in {"none", "read", "write", "ended"} /\ done[k] \in Seq({"up", "down"})
      /\ Answering(sock[k], hand[k], down[k], done[k], s, prog[k])
      /\ s.recv \in Nat /\ s.sent \in Nat /\ prog[k].wrote \in Nat
  BY Before, AnswersBefore
<1>3. /\ prog' = [prog EXCEPT ![k] = prog[k]] /\ done' = [done EXCEPT ![k] = done[k]]
      /\ (UNCHANGED sock => sock' = [sock EXCEPT ![k] = sock[k]])
      /\ (UNCHANGED down => down' = [down EXCEPT ![k] = down[k]])
      /\ (UNCHANGED stream => stream' = [stream EXCEPT ![k] = s])
  BY <1>1, <1>2, SameTouches, SameAnswers
<1>4. ASSUME NEW so, NEW ha, sock' = [sock EXCEPT ![k] = so], hand' = [hand EXCEPT ![k] = ha],
             UNCHANGED <<down, stream>>, Answering(so, ha, down[k], done[k], s, prog[k])
      PROVE  AnswerInvariant'
  <2>1. /\ down' = [down EXCEPT ![k] = down[k]] /\ stream' = [stream EXCEPT ![k] = s]
        /\ prog' = [prog EXCEPT ![k] = prog[k]] /\ done' = [done EXCEPT ![k] = done[k]]
    BY <1>3, <1>4
  <2> HIDE DEF s
  <2> QED BY <1>2, <1>4, <2>1, OthersAnswer
<1>5. CASE Accept(k)
  <2>1. Answering("open", "open", down[k], done[k], s, prog[k])
    BY <1>2, <1>5 DEF Accept, Answering, Handled
  <2> QED BY <1>4, <1>5, <2>1 DEF Accept
<1>6. CASE HostConnects(k)
  <2>1. Answering("queued", hand[k], down[k], done[k], s, prog[k]) /\ hand' = [hand EXCEPT ![k] = hand[k]]
    BY <1>2, <1>6, SameTouches DEF HostConnects, Answering, Handled, ours
  <2> QED BY <1>4, <1>6, <2>1 DEF HostConnects, ours
<1>7. CASE FirstDone(k)
  <2>1. Answering(sock[k], "closeStream", down[k], done[k], s, prog[k])
    BY <1>2, <1>7 DEF FirstDone, WakesAfter, Answering
  <2>2. UNCHANGED <<sock, down, stream>> /\ hand' = [hand EXCEPT ![k] = "closeStream"]
    BY <1>7 DEF FirstDone, WakesAfter
  <2> QED BY <1>3, <1>4, <2>1, <2>2
<1>8. CASE Open(k)
  <2>1. CASE /\ hand' = [hand EXCEPT ![k] = "wait"] /\ stream' = [stream EXCEPT ![k].end = "open"]
             /\ down' = [down EXCEPT ![k] = "read"]
    <3> DEFINE r == [s EXCEPT !.end = "open"]
    <3>1. stream' = [stream EXCEPT ![k] = r] /\ IsStream(r, "open", s.put, s.recv, s.sent, s.took)
      BY <1>2, <2>1, EndSet
    <3> HIDE DEF r
    <3>2. Answering(sock[k], "wait", "read", done[k], r, prog[k])
      <4>1. sock[k] = "open" /\ down[k] = "none" /\ done[k] = <<>> /\ s.end = "none"
        BY <1>2, <1>8 DEF Open, Answering
      <4>2. s.sent = s.recv + prog[k].wrote
        BY <1>2, <4>1 DEF Answering, InHand
      <4> QED BY <1>2, <3>1, <4>1, <4>2 DEF Answering, InHand, IsStream, Handled
    <3>3. sock' = [sock EXCEPT ![k] = sock[k]]
      BY <1>3, <1>8 DEF Open
    <3> QED BY <1>2, <1>3, <2>1, <3>1, <3>2, <3>3, OthersAnswer
  <2>2. CASE hand' = [hand EXCEPT ![k] = "closeSocket"] /\ UNCHANGED <<stream, down>>
    <3>1. Answering(sock[k], "closeSocket", down[k], done[k], s, prog[k])
      BY <1>2, <1>8 DEF Open, Answering
    <3>2. UNCHANGED <<sock, down, stream>>
      BY <1>8, <2>2 DEF Open
    <3> QED BY <1>3, <1>4, <2>2, <3>1, <3>2
  <2> QED BY <1>8, <2>1, <2>2 DEF Open
<1>9. CASE Leave(k)
  <2>1. CASE hand[k] = "closeStream" /\ CloseStream(k) /\ hand' = [hand EXCEPT ![k] = "closeSocket"]
             /\ UNCHANGED <<sock, down>>
    <3> DEFINE e == IF s.end = "open" THEN "local" ELSE s.end
               r == [s EXCEPT !.end = e]
    <3>1. stream' = [stream EXCEPT ![k] = r]
      BY <1>2, <2>1 DEF CloseStream
    <3>2. r.recv = s.recv /\ r.sent = s.sent /\ r.end = e
      BY <1>2 DEF Streams
    <3> HIDE DEF r
    <3>3. Answering(sock[k], "closeSocket", down[k], done[k], r, prog[k])
      BY <1>2, <2>1, <3>2 DEF Answering
    <3> QED BY <1>2, <1>3, <2>1, <3>1, <3>3, OthersAnswer
  <2>2. CASE /\ hand[k] = "closeSocket" /\ sock' = [sock EXCEPT ![k] = "closed"]
             /\ hand' = [hand EXCEPT ![k] = "leave"] /\ UNCHANGED <<stream, down>>
    <3>1. Answering("closed", "leave", down[k], done[k], s, prog[k])
      BY <1>2, <2>2 DEF Answering
    <3> QED BY <1>4, <2>2, <3>1
  <2>3. CASE hand[k] = "leave" /\ hand' = [hand EXCEPT ![k] = "gone"] /\ UNCHANGED <<sock, stream, down>>
    <3>1. Answering(sock[k], "gone", down[k], done[k], s, prog[k])
      BY <1>2, <2>3 DEF Answering
    <3> QED BY <1>3, <1>4, <2>3, <3>1
  <2> QED BY <1>9, <2>1, <2>2, <2>3 DEF Leave, HandlerSteps, forward
<1> QED BY <1>5, <1>6, <1>7, <1>8, <1>9 DEF HandlerStep

(* Steps of the copier from the socket, the program and the service.       *)
LEMMA UpKeepsAnswers ==
  ASSUME SocketInvariant, AnswerInvariant, NEW k \in Sockets, UpStep(k)
  PROVE  AnswerInvariant'
<1> DEFINE s == stream[k]
           q == prog[k]
<1>1. /\ SocketTypes /\ s \in Streams /\ q \in Programs
      /\ down[k] \in {"none", "read", "write", "ended"} /\ done[k] \in Seq({"up", "down"})
      /\ Answering(sock[k], hand[k], down[k], done[k], s, q)
      /\ hand[k] \in {"none", "open"} => up[k] = "none"
  BY Before, AnswersBefore DEF Handled
<1>2. UNCHANGED <<sock, hand, down>>
  BY DEF UpStep, UpReads, UpWrites, UpWritten, UpWrittenWhen, UpEnds
<1>3. ASSUME NEW r, stream' = [stream EXCEPT ![k] = r], NEW p, prog' = [prog EXCEPT ![k] = p],
             NEW dn \in Seq({"up", "down"}), done' = [done EXCEPT ![k] = dn],
             Answering(sock[k], hand[k], down[k], dn, r, p)
      PROVE  AnswerInvariant'
  <2>1. /\ sock' = [sock EXCEPT ![k] = sock[k]] /\ hand' = [hand EXCEPT ![k] = hand[k]]
        /\ down' = [down EXCEPT ![k] = down[k]]
    BY <1>1, <1>2, SameTouches, SameAnswers
  <2> QED BY <1>1, <1>3, <2>1, OthersAnswer
<1>4. /\ stream = [stream EXCEPT ![k] = s] /\ prog = [prog EXCEPT ![k] = q]
      /\ done = [done EXCEPT ![k] = done[k]]
  BY <1>1, SameTouches, SameAnswers
<1>5. CASE UpReads(k)
  <2>1. CASE /\ q.unread > 0 /\ prog' = [prog EXCEPT ![k].unread = q.unread - 1]
             /\ UNCHANGED <<stream, done>>
    <3> DEFINE u == q.unread - 1
               r == [q EXCEPT !.unread = u]
    <3>1. u \in Nat /\ prog' = [prog EXCEPT ![k] = r]
      BY <1>1, <2>1 DEF Programs
    <3> HIDE DEF u
    <3>2. r.wrote = q.wrote /\ r.gone = q.gone
      BY <1>1, <3>1, UnreadSet DEF IsProgram
    <3> HIDE DEF r
    <3>3. Answering(sock[k], hand[k], down[k], done[k], s, r)
      BY <1>1, <3>2 DEF Answering
    <3> QED BY <1>1, <1>3, <1>4, <2>1, <3>1, <3>3
  <2>2. CASE UNCHANGED <<stream, done, prog>>
    BY <1>1, <1>3, <1>4, <2>2
  <2> QED BY <1>5, <2>1, <2>2 DEF UpReads
<1>6. CASE UpWrites(k)
  <2>1. CASE stream' = [stream EXCEPT ![k].put = "sent"] /\ UNCHANGED <<prog, done>>
    <3> DEFINE r == [s EXCEPT !.put = "sent"]
    <3>1. stream' = [stream EXCEPT ![k] = r] /\ IsStream(r, s.end, "sent", s.recv, s.sent, s.took)
      BY <1>1, <2>1, PutSet
    <3> HIDE DEF r
    <3>2. Answering(sock[k], hand[k], down[k], done[k], r, q)
      BY <1>1, <3>1 DEF Answering, IsStream
    <3> QED BY <1>1, <1>3, <1>4, <2>1, <3>1, <3>2
  <2>2. CASE UNCHANGED <<stream, done, prog>>
    BY <1>1, <1>3, <1>4, <2>2
  <2> QED BY <1>6, <2>1, <2>2 DEF UpWrites
<1>7. CASE UpWritten(k)
  <2>1. UNCHANGED <<stream, done, prog>>
    BY <1>7 DEF UpWritten, UpWrittenWhen
  <2> QED BY <1>1, <1>3, <1>4, <2>1
<1>8. CASE UpEnds(k)
  <2>1. hand[k] \notin {"none", "open"} /\ UNCHANGED prog
    BY <1>1, <1>8 DEF UpEnds
  <2>2. CASE CloseStream(k) /\ UNCHANGED done
    <3> DEFINE e == IF s.end = "open" THEN "local" ELSE s.end
               r == [s EXCEPT !.end = e]
    <3>1. stream' = [stream EXCEPT ![k] = r]
      BY <1>1, <2>2 DEF CloseStream
    <3>2. r.recv = s.recv /\ r.sent = s.sent /\ r.end = e
      BY <1>1 DEF Streams
    <3> HIDE DEF r
    <3>3. Answering(sock[k], hand[k], down[k], done[k], r, q)
      BY <1>1, <2>1, <3>2 DEF Answering
    <3> QED BY <1>1, <1>3, <1>4, <2>1, <2>2, <3>1, <3>3
  <2>3. CASE done' = [done EXCEPT ![k] = Append(@, "up")] /\ UNCHANGED stream
    <3> DEFINE dn == Append(done[k], "up")
    <3>1. done' = [done EXCEPT ![k] = dn]
      BY <2>3
    <3>2. /\ dn \in Seq({"up", "down"}) /\ dn # <<>>
          /\ (done[k] # <<>> => dn[1] = done[k][1]) /\ (done[k] = <<>> => dn[1] = "up")
          /\ ((\A i \in DOMAIN done[k] : done[k][i] # "down") => \A i \in DOMAIN dn : dn[i] # "down")
      BY <1>1, ReportAppended
    <3> HIDE DEF dn
    <3>3. Answering(sock[k], hand[k], down[k], dn, s, q)
      BY <1>1, <2>1, <3>2 DEF Answering
    <3> QED BY <1>3, <1>4, <2>1, <2>3, <3>1, <3>2, <3>3
  <2> QED BY <1>8, <2>2, <2>3 DEF UpEnds
<1> QED BY <1>5, <1>6, <1>7, <1>8 DEF UpStep

LEMMA EnvironmentKeepsAnswers ==
  ASSUME SocketInvariant, AnswerInvariant, NEW k \in Sockets, Environment(k)
  PROVE  AnswerInvariant'
<1> DEFINE s == stream[k]
           q == prog[k]
<1>1. /\ SocketTypes /\ s \in Streams /\ q \in Programs
      /\ down[k] \in {"none", "read", "write", "ended"} /\ done[k] \in Seq({"up", "down"})
      /\ Answering(sock[k], hand[k], down[k], done[k], s, q)
      /\ s.recv \in Nat /\ s.sent \in Nat /\ s.took \in Nat /\ q.sent \in Nat /\ q.unread \in Nat
      /\ q.wrote \in Nat
      /\ s.end = "open" => hand[k] \in {"wait", "closeStream"}
  BY Before, AnswersBefore DEF Handled, Streams, Programs
<1>2. /\ stream = [stream EXCEPT ![k] = s] /\ prog = [prog EXCEPT ![k] = q]
      /\ done = [done EXCEPT ![k] = done[k]] /\ down = [down EXCEPT ![k] = down[k]]
      /\ sock = [sock EXCEPT ![k] = sock[k]] /\ hand = [hand EXCEPT ![k] = hand[k]]
  BY <1>1, SameTouches, SameAnswers
<1>3. ASSUME NEW p \in Programs, prog' = [prog EXCEPT ![k] = p], UNCHANGED <<ours, sock, stream>>,
             p.wrote = q.wrote, q.gone = "closed" => p.gone = "closed"
      PROVE  AnswerInvariant'
  <2>1. Answering(sock[k], hand[k], down[k], done[k], s, p)
    BY <1>1, <1>3 DEF Answering
  <2>2. UNCHANGED <<sock, hand, down, done, stream>>
    BY <1>3 DEF ours
  <2>3. /\ stream' = [stream EXCEPT ![k] = s] /\ done' = [done EXCEPT ![k] = done[k]]
        /\ down' = [down EXCEPT ![k] = down[k]] /\ sock' = [sock EXCEPT ![k] = sock[k]]
        /\ hand' = [hand EXCEPT ![k] = hand[k]]
    BY <1>2, <2>2
  <2>4. /\ SocketTypes /\ down[k] \in {"none", "read", "write", "ended"}
        /\ done[k] \in Seq({"up", "down"})
    BY <1>1
  <2> HIDE DEF s, q
  <2> QED BY <1>3, <2>1, <2>3, <2>4, OthersAnswer
<1>4. ASSUME NEW r \in Streams, stream' = [stream EXCEPT ![k] = r], UNCHANGED <<ours, sock, prog>>,
             Answering(sock[k], hand[k], down[k], done[k], r, q)
      PROVE  AnswerInvariant'
  <2>1. UNCHANGED <<sock, hand, down, done, prog>>
    BY <1>4 DEF ours
  <2>2. /\ prog' = [prog EXCEPT ![k] = q] /\ done' = [done EXCEPT ![k] = done[k]]
        /\ down' = [down EXCEPT ![k] = down[k]] /\ sock' = [sock EXCEPT ![k] = sock[k]]
        /\ hand' = [hand EXCEPT ![k] = hand[k]]
    BY <1>2, <2>1
  <2>3. /\ SocketTypes /\ down[k] \in {"none", "read", "write", "ended"}
        /\ done[k] \in Seq({"up", "down"})
    BY <1>1
  <2> HIDE DEF s, q
  <2> QED BY <1>4, <2>2, <2>3, OthersAnswer
<1>5. CASE HostConnects(k)
  BY <1>5, HandlerKeepsAnswers
<1>6. CASE HostSends(k)
  <2> DEFINE n == q.sent + 1
             u == q.unread + 1
             r == [q EXCEPT !.sent = n, !.unread = u]
  <2>1. n \in Nat /\ u \in Nat /\ prog' = [prog EXCEPT ![k].sent = n, ![k].unread = u]
    BY <1>1, <1>6 DEF HostSends
  <2> HIDE DEF n, u
  <2>2. prog' = [prog EXCEPT ![k] = r]
    BY <1>1, <2>1, UnreadAtOnce, Zenon DEF SocketTypes
  <2>3. IsProgram(r, n, u, q.out, q.wrote, q.gone)
    BY <1>1, <2>1, SentUnreadSet
  <2> HIDE DEF r
  <2> QED BY <1>3, <1>6, <2>2, <2>3 DEF IsProgram, HostSends
<1>7. CASE HostEnds(k)
  <2>1. PICK how \in {"half", "closed"} : prog' = [prog EXCEPT ![k].gone = how]
    BY <1>7, ForwardAssumption DEF HostEnds
  <2> DEFINE r == [q EXCEPT !.gone = how]
  <2>2. prog' = [prog EXCEPT ![k] = r] /\ q.gone # "closed"
    BY <1>7, <2>1 DEF HostEnds
  <2>3. IsProgram(r, q.sent, q.unread, q.out, q.wrote, how)
    BY <1>1, GoneSet
  <2> HIDE DEF r
  <2> QED BY <1>3, <1>7, <2>2, <2>3 DEF IsProgram, HostEnds
<1>8. CASE HostReads(k)
  <2> DEFINE r == [q EXCEPT !.out = 0]
  <2>1. prog' = [prog EXCEPT ![k] = r]
    BY <1>8 DEF HostReads
  <2>2. IsProgram(r, q.sent, q.unread, 0, q.wrote, q.gone)
    BY <1>1, OutSet
  <2> HIDE DEF r
  <2> QED BY <1>3, <1>8, <2>1, <2>2 DEF IsProgram, HostReads
<1>9. CASE ServiceSends(k)
  <2> DEFINE x == s.recv + 1
             y == s.sent + 1
             r == [s EXCEPT !.recv = x, !.sent = y]
  <2>1. x \in Nat /\ y \in Nat /\ stream' = [stream EXCEPT ![k].recv = x, ![k].sent = y]
    BY <1>1, <1>9 DEF ServiceSends
  <2>2. x = s.recv + 1 /\ y = s.sent + 1
    OBVIOUS
  <2> HIDE DEF x, y
  <2>3. stream' = [stream EXCEPT ![k] = r]
    BY <1>1, <2>1, SentAtOnce, Zenon DEF SocketTypes
  <2>4. IsStream(r, s.end, s.put, x, y, s.took)
    BY <1>1, <2>1, SentSet
  <2> HIDE DEF r
  <2>5. Answering(sock[k], hand[k], down[k], done[k], r, q)
    <3>1. down[k] # "ended" /\ s.end # "conn" => s.sent = s.recv + q.wrote + InHand(down[k])
      BY <1>1 DEF Answering
    <3>2. down[k] # "ended" /\ s.end # "conn" => y = x + q.wrote + InHand(down[k])
      <4>1. InHand(down[k]) \in Nat
        BY DEF InHand
      <4>2. s.recv \in Nat /\ s.sent \in Nat /\ q.wrote \in Nat
        BY <1>1
      <4> HIDE DEF s, q
      <4> QED BY <2>2, <3>1, <4>1, <4>2
    <3>3. s.end = "open" /\ r.end = s.end /\ r.recv = x /\ r.sent = y
      BY <1>9, <2>4 DEF ServiceSends, IsStream
    <3> HIDE DEF s, q
    <3> QED BY <1>1, <3>2, <3>3 DEF Answering
  <2> QED BY <1>4, <1>9, <2>3, <2>4, <2>5 DEF IsStream, ServiceSends
<1>10. CASE ServiceTakes(k)
  <2> DEFINE t == s.took + 1
             r == [s EXCEPT !.put = "acked", !.took = t]
  <2>1. t \in Nat /\ stream' = [stream EXCEPT ![k].put = "acked", ![k].took = t]
    BY <1>1, <1>10 DEF ServiceTakes
  <2> HIDE DEF t
  <2>2. stream' = [stream EXCEPT ![k] = r]
    BY <1>1, <2>1, TookAtOnce, Zenon DEF SocketTypes
  <2>3. IsStream(r, s.end, "acked", s.recv, s.sent, t)
    BY <1>1, <2>1, TookSet
  <2> HIDE DEF r
  <2>4. Answering(sock[k], hand[k], down[k], done[k], r, q)
    BY <1>1, <2>3 DEF Answering, IsStream
  <2> QED BY <1>4, <1>10, <2>2, <2>3, <2>4 DEF IsStream, ServiceTakes
<1>11. CASE ServiceEnds(k)
  <2> DEFINE r == [s EXCEPT !.end = "remote"]
  <2>1. stream' = [stream EXCEPT ![k] = r] /\ s.end = "open"
    BY <1>11 DEF ServiceEnds
  <2>2. IsStream(r, "remote", s.put, s.recv, s.sent, s.took)
    BY <1>1, EndSet
  <2> HIDE DEF r
  <2>3. Answering(sock[k], hand[k], down[k], done[k], r, q)
    BY <1>1, <2>1, <2>2 DEF Answering, IsStream
  <2> QED BY <1>4, <1>11, <2>1, <2>2, <2>3 DEF IsStream, ServiceEnds
<1> QED BY <1>5, <1>6, <1>7, <1>8, <1>9, <1>10, <1>11 DEF Environment

(* The copier to the socket itself.                                        *)
LEMMA DownKeepsAnswers ==
  ASSUME SocketInvariant, AnswerInvariant, NEW k \in Sockets, DownStep(k)
  PROVE  AnswerInvariant'
<1> DEFINE s == stream[k]
           q == prog[k]
<1>1. /\ SocketTypes /\ s \in Streams /\ q \in Programs
      /\ down[k] \in {"none", "read", "write", "ended"} /\ done[k] \in Seq({"up", "down"})
      /\ Answering(sock[k], hand[k], down[k], done[k], s, q)
      /\ s.recv \in Nat /\ s.sent \in Nat /\ q.wrote \in Nat
      /\ sock[k] \in {"none", "queued", "open", "closed"} /\ hand[k] \in Counted \cup {"none", "gone"}
      /\ sock[k] \in {"none", "queued"} => hand[k] = "none"
  BY Before, AnswersBefore DEF Handled
<1>2. /\ stream = [stream EXCEPT ![k] = s] /\ prog = [prog EXCEPT ![k] = q]
      /\ done = [done EXCEPT ![k] = done[k]]
      /\ sock = [sock EXCEPT ![k] = sock[k]] /\ hand = [hand EXCEPT ![k] = hand[k]]
  BY <1>1, SameTouches, SameAnswers
<1>3. ASSUME NEW d \in {"read", "write", "ended"}, down' = [down EXCEPT ![k] = d],
             NEW r, stream' = [stream EXCEPT ![k] = r], NEW p, prog' = [prog EXCEPT ![k] = p],
             NEW dn \in Seq({"up", "down"}), done' = [done EXCEPT ![k] = dn],
             UNCHANGED <<sock, hand>>, Answering(sock[k], hand[k], d, dn, r, p)
      PROVE  AnswerInvariant'
  <2> HIDE DEF s, q
  <2> QED BY <1>1, <1>2, <1>3, OthersAnswer
<1>4. CASE DownReads(k)
  <2> DEFINE x == s.recv - 1
             r == [s EXCEPT !.recv = x]
  <2>1. /\ x \in Nat /\ s.recv = x + 1 /\ down[k] = "read" /\ down' = [down EXCEPT ![k] = "write"]
        /\ stream' = [stream EXCEPT ![k] = r] /\ UNCHANGED <<sock, hand, prog, done>>
    BY <1>1, <1>4 DEF DownReads
  <2> HIDE DEF x
  <2>2. IsStream(r, s.end, s.put, x, s.sent, s.took)
    BY <1>1, <2>1, RecvSet
  <2> HIDE DEF r
  <2>3. Answering(sock[k], hand[k], "write", done[k], r, q)
    <3>1. s.end # "conn" => s.sent = s.recv + q.wrote
      BY <1>1, <2>1 DEF Answering, InHand
    <3>2. r.end # "conn" => r.sent = r.recv + q.wrote + InHand("write")
      BY <1>1, <2>1, <2>2, <3>1 DEF InHand, IsStream
    <3> QED BY <1>1, <2>1, <3>2 DEF Answering
  <2> QED BY <1>1, <1>2, <1>3, <2>1, <2>3
<1>5. CASE DownWrites(k)
  <2> DEFINE w == q.wrote + 1
             p == [q EXCEPT !.out = 1, !.wrote = w]
  <2>1. /\ w \in Nat /\ prog' = [prog EXCEPT ![k].out = 1, ![k].wrote = w]
        /\ down[k] = "write" /\ down' = [down EXCEPT ![k] = "read"]
        /\ UNCHANGED <<sock, hand, stream, done>>
    BY <1>1, <1>5 DEF DownWrites, forward
  <2>2. w = q.wrote + 1
    OBVIOUS
  <2> HIDE DEF w
  <2>3. prog' = [prog EXCEPT ![k] = p]
    BY <1>1, <2>1, WroteAtOnce, Zenon DEF SocketTypes
  <2>4. IsProgram(p, q.sent, q.unread, 1, w, q.gone)
    BY <1>1, <2>1, WroteSet
  <2> HIDE DEF p
  <2>5. Answering(sock[k], hand[k], "read", done[k], s, p)
    <3>1. s.end # "conn" => s.sent = s.recv + q.wrote + 1
      BY <1>1, <2>1 DEF Answering, InHand
    <3>2. s.end # "conn" => s.sent = s.recv + p.wrote + InHand("read")
      <4>1. /\ InHand("read") = 0 /\ p.wrote = q.wrote + 1
            /\ s.recv \in Nat /\ s.sent \in Nat /\ q.wrote \in Nat
        BY <1>1, <2>2, <2>4 DEF InHand, IsProgram
      <4> HIDE DEF s, q
      <4> QED BY <3>1, <4>1
    <3> QED BY <1>1, <2>1, <3>2 DEF Answering
  <2> QED BY <1>1, <1>2, <1>3, <2>1, <2>3, <2>5
<1>6. CASE DownEnds(k)
  <2> DEFINE dn == Append(done[k], "down")
  <2>1. /\ down' = [down EXCEPT ![k] = "ended"] /\ done' = [done EXCEPT ![k] = dn]
        /\ UNCHANGED <<sock, hand, stream, prog>>
    BY <1>6 DEF DownEnds, DownEndsIf
  <2>2. /\ dn \in Seq({"up", "down"}) /\ dn # <<>> /\ (done[k] # <<>> => dn[1] = done[k][1])
    BY <1>1, ReportAppended
  <2>3. done[k] # <<>> => 1 \in DOMAIN done[k]
    BY <1>1
  <2> HIDE DEF dn
  <2>4. CASE down[k] = "read" /\ s.end # "open" /\ s.recv = 0
    <3>1. s.end # "conn" => s.sent = q.wrote
      BY <1>1, <2>4 DEF Answering, InHand
    <3>2. Answering(sock[k], hand[k], "ended", dn, s, q)
      BY <1>1, <2>2, <2>4, <3>1 DEF Answering
    <3> QED BY <1>2, <1>3, <2>1, <2>2, <3>2
  <2>5. CASE down[k] = "write" /\ q.gone = "closed"
    BY <1>1, <1>2, <1>3, <2>1, <2>2, <2>5 DEF Answering
  <2>6. CASE down[k] = "write" /\ sock[k] = "closed"
    <3>1. done[k] # <<>>
      BY <1>1, <2>6 DEF Answering, Counted
    <3>2. done[k][1] # "down"
      BY <1>1, <2>3, <2>6, <3>1 DEF Answering
    <3>3. Answering(sock[k], hand[k], "ended", dn, s, q)
      BY <1>1, <2>2, <2>6, <3>1, <3>2 DEF Answering
    <3> QED BY <1>1, <1>2, <1>3, <2>1, <2>2, <3>3
  <2> QED BY <1>6, <2>4, <2>5, <2>6 DEF DownEnds, DownEndsIf, Ended
<1> QED BY <1>4, <1>5, <1>6 DEF DownStep

LEMMA NextKeepsAnswers == SocketInvariant /\ AnswerInvariant /\ [Next]_vars => AnswerInvariant'
<1> SUFFICES ASSUME SocketInvariant, AnswerInvariant, [Next]_vars PROVE AnswerInvariant'
  OBVIOUS
<1>1. ASSUME NEW k \in Sockets, SocketStep(k) PROVE AnswerInvariant'
  BY <1>1, HandlerKeepsAnswers, UpKeepsAnswers, DownKeepsAnswers, EnvironmentKeepsAnswers DEF SocketStep
<1>2. CASE UNCHANGED <<sock, hand, down, done, stream, prog>>
  BY <1>2 DEF AnswerInvariant, AnswerTypes, Answers
<1>3. CASE CtxEnds \/ LoopExits \/ UNCHANGED vars
  BY <1>2, <1>3 DEF CtxEnds, LoopExits, vars
<1>4. CASE Watch \/ Close
  <2>1. UNCHANGED <<hand, down, done, stream, prog>> /\ (CloseListener \/ UNCHANGED sock)
    BY <1>4 DEF Watch, Close
  <2>2. ASSUME CloseListener, NEW k \in Sockets PROVE Answers(k)'
    <3>1. sock'[k] = IF sock[k] = "queued" THEN "closed" ELSE sock[k]
      BY <2>2 DEF CloseListener
    <3>2. sock[k] = "queued" => hand[k] = "none"
      BY Before DEF Handled
    <3> QED BY <2>1, <3>1, <3>2 DEF AnswerInvariant, Answers, Answering
  <2> QED BY <1>2, <2>1, <2>2 DEF AnswerInvariant, AnswerTypes
<1>5. CASE ConnEnds
  <2>1. PICK kept \in [Sockets -> 0 .. 2] :
          stream' = [k \in Sockets |->
            IF stream[k].end = "open" THEN [stream[k] EXCEPT !.end = "conn", !.recv = kept[k]]
            ELSE stream[k]]
    BY <1>5 DEF ConnEnds
  <2>2. UNCHANGED <<sock, hand, down, done, prog>>
    BY <1>5 DEF ConnEnds, ours
  <2>3. ASSUME NEW k \in Sockets PROVE Answers(k)'
    <3>1. Answering(sock[k], hand[k], down[k], done[k], stream[k], prog[k]) /\ stream[k] \in Streams
      BY Before, AnswersBefore
    <3>2. CASE stream[k].end = "open"
      <4>1. stream'[k] = [stream[k] EXCEPT !.end = "conn", !.recv = kept[k]]
        BY <2>1, <3>2
      <4>2. stream'[k].end = "conn"
        <5>1. kept[k] \in Nat
          OBVIOUS
        <5>2. IsStream([stream[k] EXCEPT !.end = "conn", !.recv = kept[k]], "conn", stream[k].put,
                       kept[k], stream[k].sent, stream[k].took)
          BY <3>1, <5>1, CutSet
        <5> QED BY <4>1, <5>2 DEF IsStream
      <4>3. hand[k] \notin {"none", "open"}
        BY <3>2, Before DEF Handled
      <4> QED BY <2>2, <3>1, <4>2, <4>3 DEF Answers, Answering
    <3>3. CASE stream[k].end # "open"
      <4>1. stream'[k] = stream[k]
        BY <2>1, <3>3
      <4> QED BY <2>2, <3>1, <4>1 DEF Answers
    <3> QED BY <3>2, <3>3
  <2> QED BY <2>2, <2>3 DEF AnswerInvariant, AnswerTypes
<1> QED BY <1>1, <1>3, <1>4, <1>5 DEF Next, SocketStep

LEMMA InitAnswers == Init => AnswerInvariant
BY DEF Init, AnswerInvariant, AnswerTypes, Answers, Answering, InHand

(* A response that the service ends is on the socket before the socket is  *)
(* closed, if the copier from the stream reports first                     *)
(* (conveniences.go:122-124).                                              *)
THEOREM ResponseIsDelivered == Spec => []ResponseIsComplete
<1>1. SocketInvariant /\ AnswerInvariant => ResponseIsComplete
  <2> SUFFICES ASSUME SocketInvariant, AnswerInvariant, NEW k \in Sockets,
                      stream[k].end = "remote", done[k] # <<>>, Head(done[k]) = "down",
                      prog[k].gone # "closed"
               PROVE  prog[k].wrote = stream[k].sent
    BY DEF ResponseIsComplete
  <2>1. /\ done[k] \in Seq({"up", "down"})
        /\ Answering(sock[k], hand[k], down[k], done[k], stream[k], prog[k])
    BY AnswersBefore
  <2>2. 1 \in DOMAIN done[k] /\ done[k][1] = "down"
    BY <2>1
  <2> QED BY <2>1, <2>2 DEF Answering
<1>2. SocketInvariant /\ AnswerInvariant /\ [Next]_vars => AnswerInvariant'
  BY NextKeepsAnswers
<1> QED BY InitAnswers, <1>1, <1>2, AlwaysForward, PTL DEF Spec
=============================================================================
