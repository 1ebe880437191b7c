------------------------------ MODULE AdbClient ------------------------------
(***************************************************************************)
(* The calls of Client (client.go, sync.go, and Exec of                    *)
(* conveniences.go), made by several goroutines over one connection.  Each *)
(* call uses one stream after another; a stream is what StreamPipe         *)
(* promises: replies in order, an end after the last of them, and a tail   *)
(* lost when the connection breaks.                                        *)
(*                                                                         *)
(* A request of the sync protocol is its header and its payload together:  *)
(* adbd does nothing about a header whose payload never comes.  Exec is    *)
(* Shell with another prefix.  Uninstall and Packages, a Shell whose output*)
(* is looked at, are not tasks of their own.                               *)
(***************************************************************************)
EXTENDS Naturals, Sequences

CONSTANTS
  Callers,              \* goroutines, each making one call
  Tasks,                \* the calls they make
  Exposed,              \* bound: callers whose context may end; the connection
                        \* may end if there are no others
  Paths,                \* names of uploads on the device
  Chunks,               \* chunks of a file or of a command's output
  Window                \* bound: replies on their way in one stream

ASSUME ClientAssumption ==
  /\ Tasks \subseteq {"shell", "push", "pull", "install", "idle"}
  /\ Exposed \subseteq Callers /\ "none" \notin Callers
  /\ Chunks \in Nat \ {0} /\ Window \in Nat \ {0}

VARIABLES
  task, path,           \* what each caller does, and its remotePath
  call,                 \* the call on the host
  stream,               \* the stream the call uses
  serv,                 \* the service at the device's end of that stream
  remote,               \* files on the device, by path
  installed,            \* history: whose upload pm installed for the caller
  conn,                 \* the connection: "up" or "down"
  ctxDone               \* callers whose context has ended

vars == <<task, path, call, stream, serv, remote, installed, conn, ctxDone>>
given == <<task, path>>

NoFile == [owner |-> "none", size |-> 0]
Upload(c, n) == [owner |-> c, size |-> n]

FirstPhase(t) == IF t = "install" THEN "push" ELSE t

Init ==
  /\ task \in [Callers -> Tasks]
  /\ path \in [Callers -> Paths]
  /\ \A c \in Callers :        \* whose path does not matter
       task[c] \in {"shell", "pull", "idle"} => path[c] = CHOOSE p \in Paths : TRUE
  /\ call = [c \in Callers |->
       [pc |-> IF task[c] = "idle" THEN "returned" ELSE "local", phase |-> FirstPhase(task[c]), sent |-> 0, got |-> <<>>,
        copier |-> "none", file |-> "none", result |-> "none"]]
  /\ stream = [c \in Callers |-> [put |-> "none", down |-> <<>>, end |-> "none"]]
  /\ serv = [c \in Callers |-> [name |-> "none", state |-> "none", left |-> 0, count |-> 0]]
  /\ remote = [p \in Paths |-> NoFile]
  /\ installed = [c \in Callers |-> "none"]
  /\ conn = "up"
  /\ ctxDone = {}

(* Faulty: the deferred rm runs under the caller's context.                *)
CancelledAlways(c) == c \in ctxDone

(* The deferred rm runs under context.Background().                        *)
Cancelled(c) == c \in ctxDone /\ call[c].phase # "rm"

Requests(c) ==                  \* SEND, DATA..., DONE; or RECV
  CASE call[c].phase = "push" -> Chunks + 2
    [] call[c].phase = "pull" -> 1
    [] OTHER -> 0

----------------------------------------------------------------------------
(* The calling goroutine.                                                  *)

At(c, pc) == call[c].pc = pc

Goto(c, phase, pc, result) ==
  call' = [call EXCEPT ![c].phase = phase, ![c].pc = pc, ![c].result = result]

(* The call is done with its stream, left as s, and has result r of it: the*)
(* deferred Close, and what comes after it.                                *)
Leave(c, s, r) ==
  /\ stream' = [stream EXCEPT ![c] = [s EXCEPT !.end = IF @ = "open" THEN "local" ELSE @]]
  /\ CASE call[c].phase = "push" /\ task[c] = "install" /\ r = "ok" -> Goto(c, "pm", "open", "none")
       [] call[c].phase = "pm" -> Goto(c, "rm", "open", r)
       [] call[c].phase = "rm" -> Goto(c, "rm", "returned", call[c].result)
       [] call[c].phase = "pull" -> Goto(c, "pull", "closeFile", r)
       [] OTHER -> Goto(c, call[c].phase, "returned", r)

HostLeaves(c, r) == Leave(c, stream[c], r)

(* os.Open of Push; MkdirAll and os.Create of Pull.                        *)
OpenLocal(c) ==
  /\ At(c, "local")
  /\ \/ call' = [call EXCEPT ![c].pc = "open",
                            ![c].file = IF task[c] = "pull" THEN "there" ELSE "none"]
     \/ task[c] # "shell" /\ Goto(c, call[c].phase, "returned", "err")
  /\ UNCHANGED <<given, stream, serv, remote, installed, conn, ctxDone>>

SendOpen(c) ==
  /\ At(c, "open")
  /\ \/ /\ conn = "up"
        /\ call' = [call EXCEPT ![c].pc = "opening", ![c].sent = 0, ![c].got = <<>>,
                                ![c].copier = "none"]
        /\ stream' = [stream EXCEPT ![c] = [put |-> "none", down |-> <<>>, end |-> "open"]]
        /\ serv' = [serv EXCEPT ![c] = [name |-> call[c].phase, state |-> "asked",
                                        left |-> 0, count |-> 0]]
     \/ conn = "down" /\ HostLeaves(c, "err") /\ UNCHANGED serv
  /\ UNCHANGED <<given, remote, installed, conn, ctxDone>>

OpenReturns(c) ==
  /\ At(c, "opening") /\ stream[c].end = "open" /\ serv[c].state # "asked"
  /\ call' = [call EXCEPT ![c].pc = IF Requests(c) = 0 THEN "reply" ELSE "write",
                          ![c].copier = IF Requests(c) = 0 THEN "run" ELSE "none"]
  /\ UNCHANGED <<given, stream, serv, remote, installed, conn, ctxDone>>

(* The context ended, or the stream did before Open returned.              *)
OpenFails(c) ==
  /\ At(c, "opening") /\ (Cancelled(c) \/ stream[c].end # "open")
  /\ HostLeaves(c, "err")
  /\ UNCHANGED <<given, serv, remote, installed, conn, ctxDone>>

(* WriteContext of the next request, whose payload may fail to be read.    *)
Write(c) ==
  /\ At(c, "write")
  /\ \/ /\ conn = "up"
        /\ call' = [call EXCEPT ![c].pc = "written"]
        /\ stream' = [stream EXCEPT ![c].put = "sent"]
     \/ conn = "down" /\ HostLeaves(c, "err")
     \/ call[c].sent \in 1 .. Chunks /\ HostLeaves(c, "err")
  /\ UNCHANGED <<given, serv, remote, installed, conn, ctxDone>>

RequestAcked(c) ==
  call' = [call EXCEPT ![c].sent = @ + 1,
                       ![c].pc = IF call[c].sent + 1 = Requests(c) THEN "reply" ELSE "write"]

(* Faulty: PushReader returns once DONE is acknowledged.                   *)
WriteReturnsWithoutReply(c) ==
  /\ At(c, "written") /\ stream[c].put = "acked"
  /\ \/ call[c].sent = Chunks + 1 /\ HostLeaves(c, "ok")
     \/ call[c].sent < Chunks + 1 /\ RequestAcked(c) /\ UNCHANGED stream
  /\ UNCHANGED <<given, serv, remote, installed, conn, ctxDone>>

WriteReturns(c) ==
  /\ At(c, "written") /\ stream[c].put = "acked"
  /\ RequestAcked(c)
  /\ UNCHANGED <<given, stream, serv, remote, installed, conn, ctxDone>>

WriteFails(c) ==
  /\ At(c, "written") /\ (Cancelled(c) \/ stream[c].end # "open")
  /\ HostLeaves(c, "err")
  /\ UNCHANGED <<given, serv, remote, installed, conn, ctxDone>>

Has(c) == stream[c].down # <<>>
First(c) == Head(stream[c].down)
Rest(c) == [stream[c] EXCEPT !.down = Tail(@)]

(* The response to SEND.  Neither this nor PullMessage looks at ctx.       *)
PushReply(c) ==
  /\ At(c, "reply") /\ call[c].phase = "push" /\ Has(c)
  /\ Leave(c, Rest(c), IF First(c) = "okay" THEN "ok" ELSE "err")
  /\ UNCHANGED <<given, serv, remote, installed, conn, ctxDone>>

(* A message of RECV; the local write of its data may fail.                *)
PullMessage(c) ==
  /\ At(c, "reply") /\ call[c].phase = "pull" /\ Has(c)
  /\ \/ /\ First(c) = "data"
        /\ call' = [call EXCEPT ![c].got = Append(@, First(c))]
        /\ stream' = [stream EXCEPT ![c] = Rest(c)]
     \/ First(c) = "data" /\ Leave(c, Rest(c), "err")
     \/ First(c) = "done" /\ Leave(c, Rest(c), "ok")
     \/ First(c) \in {"fail", "bad"} /\ Leave(c, Rest(c), "err")
  /\ UNCHANGED <<given, serv, remote, installed, conn, ctxDone>>

StreamEndsFirst(c, r) ==
  /\ At(c, "reply") /\ call[c].phase \in {"push", "pull"}
  /\ ~Has(c) /\ stream[c].end # "open"
  /\ HostLeaves(c, r)
  /\ UNCHANGED <<given, serv, remote, installed, conn, ctxDone>>

(* Faulty: io.EOF in place of a header ends a pull as DONE does.           *)
ReplyEndsWell(c) == StreamEndsFirst(c, IF stream[c].end = "remote" THEN "ok" ELSE "err")

(* io.ReadFull meets the end of the stream.                                *)
ReplyEnds(c) == StreamEndsFirst(c, "err")

CopyUntil(c, errors) ==
  /\ call[c].copier = "run"
  /\ \/ /\ Has(c)
        /\ call' = [call EXCEPT ![c].got = Append(@, First(c))]
        /\ stream' = [stream EXCEPT ![c] = Rest(c)]
     \/ /\ ~Has(c) /\ stream[c].end # "open"
        /\ call' = [call EXCEPT ![c].copier = IF stream[c].end \in errors THEN "err" ELSE "eof"]
        /\ UNCHANGED stream
  /\ UNCHANGED <<given, serv, remote, installed, conn, ctxDone>>

(* Faulty: the end of the connection looks like the end of the output.     *)
CopyTakesLossForEnd(c) == CopyUntil(c, {})

(* The goroutine of Shell that copies the output into the buffer.  Close   *)
(* by this side ends the stream with io.EOF too.                           *)
Copy(c) == CopyUntil(c, {"conn"})

ShellReturnsOk(c, ok) ==
  /\ At(c, "reply") /\ call[c].copier \in {"eof", "err"}
  /\ HostLeaves(c, IF ok THEN "ok" ELSE "err")
  /\ UNCHANGED <<given, serv, remote, installed, conn, ctxDone>>

(* Faulty: the output of pm is not looked at.                              *)
ShellReturnsUnchecked(c) == ShellReturnsOk(c, call[c].copier = "eof")

(* Shell returns; after pm the output must say Success.                    *)
ShellReturns(c) ==
  ShellReturnsOk(c, /\ call[c].copier = "eof"
                    /\ call[c].phase = "pm" => call[c].got = <<"success">>)

ShellCancelledIf(c, looks) ==
  /\ At(c, "reply") /\ call[c].copier # "none" /\ Cancelled(c) /\ looks
  /\ HostLeaves(c, "err")
  /\ UNCHANGED <<given, serv, remote, installed, conn, ctxDone>>

(* Faulty: the context is looked at only between chunks of output.         *)
ShellCancelledWithOutput(c) == ShellCancelledIf(c, Has(c))

ShellCancelled(c) == ShellCancelledIf(c, TRUE)

(* Pull closes its file, which may fail, and removes it after an error;    *)
(* os.Remove may fail, and its error is ignored.                           *)
CloseFile(c) ==
  /\ At(c, "closeFile")
  /\ \/ \E r \in {"ok", "closeErr"} : call[c].result = "ok" /\ Goto(c, "pull", "returned", r)
     \/ /\ call[c].result = "err"
        /\ \E f \in {"none", "left"} :
             call' = [call EXCEPT ![c].pc = "returned", ![c].file = f]
  /\ UNCHANGED <<given, stream, serv, remote, installed, conn, ctxDone>>

CallStep(c) ==
  \/ OpenLocal(c) \/ SendOpen(c) \/ OpenReturns(c) \/ OpenFails(c)
  \/ Write(c) \/ WriteReturns(c) \/ WriteFails(c) \/ PushReply(c) \/ PullMessage(c)
  \/ ReplyEnds(c) \/ ShellReturns(c) \/ ShellCancelled(c) \/ CloseFile(c)

----------------------------------------------------------------------------
(* External: the services of the device.                                   *)

host == <<given, call, conn, ctxDone>>
Running(c) == conn = "up" /\ serv[c].state \in {"on", "failed"}
Replies(c, m) == stream' = [stream EXCEPT ![c].down = Append(@, m)]

(* An upload that is given up before DONE may be left or unlinked.         *)
GivesUpUpload(c) ==
  \/ UNCHANGED remote
  \/ /\ serv[c].name = "push" /\ serv[c].count < Chunks + 2
     /\ remote[path[c]].owner = c
     /\ remote' = [remote EXCEPT ![path[c]] = NoFile]

DeviceStarts(c) ==
  /\ conn = "up" /\ serv[c].state = "asked"
  /\ \/ \E n \in CASE serv[c].name = "shell" -> 0 .. Chunks
                   [] serv[c].name \in {"pm", "rm"} -> {1}
                   [] OTHER -> {0} :
          serv' = [serv EXCEPT ![c].state = "on", ![c].left = n]
        /\ UNCHANGED stream
     \/ /\ serv' = [serv EXCEPT ![c].state = "refused"]
        /\ stream' = [stream EXCEPT ![c].end = IF @ = "open" THEN "remote" ELSE @]
  /\ UNCHANGED <<host, remote, installed>>

(* The next request of a push is carried out: SEND unlinks what is there   *)
(* and creates the file, DATA extends it, DONE is answered.                *)
TakesPush(c) ==
  /\ serv[c].name = "push"
  /\ remote' = [remote EXCEPT ![path[c]] =
       IF serv[c].count = 0 THEN Upload(c, 0)
       ELSE IF serv[c].count <= Chunks /\ @.owner = c THEN Upload(c, @.size + 1) ELSE @]
  /\ serv' = [serv EXCEPT ![c].count = @ + 1]
  /\ stream' = [stream EXCEPT ![c].put = "acked",
       ![c].down = IF serv[c].count = Chunks + 1 THEN Append(@, "okay") ELSE @]

TakesPull(c) ==
  /\ serv[c].name = "pull"
  /\ serv' = [serv EXCEPT ![c].left = Chunks + 1]
  /\ stream' = [stream EXCEPT ![c].put = "acked"]
  /\ UNCHANGED remote

Fails(c) ==
  /\ serv' = [serv EXCEPT ![c].state = "failed", ![c].left = 0]
  /\ stream' = [stream EXCEPT ![c].put = "acked", ![c].down = Append(@, "fail")]
  /\ GivesUpUpload(c)

Drains(c) ==
  /\ stream' = [stream EXCEPT ![c].put = "acked"]
  /\ UNCHANGED <<serv, remote>>

DeviceTakes(c) ==
  /\ Running(c) /\ stream[c].put = "sent" /\ stream[c].end # "remote"
  /\ IF serv[c].state = "failed" THEN Drains(c)
     ELSE TakesPush(c) \/ TakesPull(c) \/ Fails(c)
  /\ UNCHANGED <<host, installed>>

DeviceOutputs(c) ==
  /\ Running(c) /\ serv[c].left > 0 /\ stream[c].end = "open" /\ Len(stream[c].down) < Window
  /\ \/ /\ serv[c].name = "shell" \/ (serv[c].name = "pull" /\ serv[c].left > 1)
        /\ Replies(c, "data")
        /\ serv' = [serv EXCEPT ![c].left = @ - 1, ![c].count = @ + 1]
     \/ /\ serv[c].name = "pull" /\ serv[c].left = 1
        /\ Replies(c, "done")
        /\ serv' = [serv EXCEPT ![c].left = 0]
     \/ /\ serv[c].name = "pull"
        /\ Replies(c, "fail") \/ Replies(c, "bad")
        /\ serv' = [serv EXCEPT ![c].state = "failed", ![c].left = 0]
  /\ UNCHANGED <<host, remote, installed>>

(* pm reads the upload: it can succeed with a whole file.                  *)
DeviceInstalls(c) ==
  /\ Running(c) /\ serv[c].name = "pm" /\ serv[c].left = 1 /\ stream[c].end = "open"
  /\ serv' = [serv EXCEPT ![c].left = 0]
  /\ \/ /\ remote[path[c]].size = Chunks
        /\ installed' = [installed EXCEPT ![c] = remote[path[c]].owner]
        /\ Replies(c, "success")
     \/ Replies(c, "failure") /\ UNCHANGED installed
  /\ UNCHANGED <<host, remote>>

DeviceRemoves(c) ==
  /\ Running(c) /\ serv[c].name = "rm" /\ serv[c].left = 1
  /\ serv' = [serv EXCEPT ![c].left = 0]
  /\ remote' = [remote EXCEPT ![path[c]] = NoFile]
  /\ UNCHANGED <<host, stream, installed>>

(* The service ends, at any time unless it is rm.                          *)
DeviceEnds(c) ==
  /\ Running(c) /\ stream[c].end = "open"
  /\ serv[c].name = "rm" => serv[c].left = 0
  /\ serv' = [serv EXCEPT ![c].state = "gone"]
  /\ stream' = [stream EXCEPT ![c].end = "remote"]
  /\ GivesUpUpload(c)
  /\ UNCHANGED <<host, installed>>

(* The stream was closed by the host, or the connection is gone.           *)
DeviceSeesClose(c) ==
  /\ serv[c].state \in {"on", "failed"}
  /\ conn = "up" => stream[c].end = "local" /\ stream[c].put # "sent"
  /\ serv' = [serv EXCEPT ![c].state = "gone"]
  /\ GivesUpUpload(c)
  /\ UNCHANGED <<host, stream, installed>>

ServiceStep(c) ==
  \/ DeviceStarts(c) \/ DeviceTakes(c) \/ DeviceOutputs(c) \/ DeviceInstalls(c)
  \/ DeviceRemoves(c) \/ DeviceEnds(c) \/ DeviceSeesClose(c)

----------------------------------------------------------------------------
CtxEnds(c) ==
  /\ c \in Exposed \ ctxDone
  /\ ctxDone' = ctxDone \cup {c}
  /\ UNCHANGED <<given, call, stream, serv, remote, installed, conn>>

(* What a break of the connection, or Client.Close, leaves of a stream: a  *)
(* beginning of the replies and ErrClosed; or all of it, if readLoop has   *)
(* seen the end.                                                           *)
Cut(s) ==
  IF s.end \in {"open", "remote"}
  THEN {[s EXCEPT !.down = SubSeq(@, 1, n), !.end = "conn"] : n \in 0 .. Len(s.down)}
         \cup (IF s.end = "remote" THEN {s} ELSE {})
  ELSE {s}

ConnEnds ==
  /\ conn = "up" /\ \A c \in Callers : c \in Exposed \/ task[c] = "idle"
  /\ conn' = "down"
  /\ stream' \in {f \in [Callers -> UNION {Cut(stream[c]) : c \in Callers}] :
                    \A c \in Callers : f[c] \in Cut(stream[c])}
  /\ UNCHANGED <<given, call, serv, remote, installed, ctxDone>>

Quiet == \A c \in Callers : At(c, "returned") /\ call[c].copier # "run"

Next ==
  \/ \E c \in Callers : CallStep(c) \/ Copy(c) \/ ServiceStep(c) \/ CtxEnds(c)
  \/ ConnEnds
  \/ Quiet /\ UNCHANGED vars

(* Goroutines that can run do.                                             *)
ClientFairness == \A c \in Callers : WF_vars(CallStep(c)) /\ WF_vars(Copy(c))

Spec == Init /\ [][Next]_vars /\ ClientFairness

----------------------------------------------------------------------------
Returned(c, r) == At(c, "returned") /\ call[c].result = r
AloneOnPath(c) ==
  \A d \in Callers \ {c} : task[d] \in {"push", "install"} => path[d] # path[c]

(* A push that returned nil is stored whole on the device, whatever adbd   *)
(* did in between, unless another call writes the same path: OKAY was the  *)
(* answer to DONE and not only an acknowledgement (sync.go:48-59).         *)
PushMeansStored ==
  \A c \in Callers :
    task[c] = "push" /\ Returned(c, "ok") /\ AloneOnPath(c) =>
      remote[path[c]] = Upload(c, Chunks)

(* A pull that returned nil left the whole file.  One that failed left none*)
(* at whatever message, disk error, end or cancellation it failed, or its  *)
(* os.Remove failed, whose error nobody sees (sync.go:71-98,               *)
(* client.go:79-85); a failing Close of a whole file leaves that file.     *)
PullIsWholeOrRemoved ==
  \A c \in Callers :
    task[c] = "pull" =>
      /\ Returned(c, "ok") => call[c].file = "there" /\ Len(call[c].got) = Chunks
      /\ Returned(c, "err") => call[c].file \in {"none", "left"}
      /\ Returned(c, "closeErr") => Len(call[c].got) = Chunks

(* Output that Shell or Exec returns with nil is all the command wrote, and*)
(* the copier no longer touches the buffer (client.go:33-48); with an error*)
(* the copier may still be writing what the caller is given.               *)
ShellIsComplete ==
  \A c \in Callers :
    task[c] = "shell" /\ Returned(c, "ok") =>
      Len(call[c].got) = serv[c].count /\ call[c].copier = "eof"

(* Once InstallAPK has returned its upload is gone from the device, whether*)
(* pm succeeded, failed or was cancelled (client.go:99-102): unless the    *)
(* upload itself failed, the connection is gone or the device refused rm.  *)
UploadIsRemoved ==
  \A c \in Callers :
    /\ task[c] = "install" /\ At(c, "returned") /\ call[c].phase = "rm"
    /\ conn = "up" /\ serv[c].state # "refused"
    => remote[path[c]].owner # c

(* An install that returned nil installed its own file: not a part of it,  *)
(* and not the file of another call, unless that has the same base name    *)
(* and so the same path on the device (client.go:98, 122-129).             *)
InstallsItsOwn ==
  \A c \in Callers :
    task[c] = "install" /\ Returned(c, "ok") /\ AloneOnPath(c) => installed[c] = c

(* A cancelled Shell returns and its copier ends, and every call returns   *)
(* once the connection is down, with no help from the device; push and pull*)
(* do not look at ctx while they wait for a response (sync.go:48, 74) and  *)
(* return in every case only if the device's services do something.        *)
CallsEnd ==
  /\ \A c \in Callers :
       conn = "down" \/ (task[c] = "shell" /\ c \in ctxDone)
         ~> At(c, "returned") /\ call[c].copier # "run"
  /\ (\A c \in Callers : WF_vars(ServiceStep(c))) =>
       \A c \in Callers : <>At(c, "returned")
=============================================================================
