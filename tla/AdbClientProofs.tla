--------------------------- MODULE AdbClientProofs ---------------------------
(***************************************************************************)
(* Proofs about AdbClient for any callers, paths, tasks, file length and   *)
(* window.  A step of a caller changes only what belongs to that caller,   *)
(* and the file at its path; so the invariant is one of each caller by     *)
(* itself (Attached to RemovalFollows), and AloneOnPath keeps the others   *)
(* away from the file.                                                     *)
(***************************************************************************)
EXTENDS AdbClient, TLAPS

Points == {"local", "open", "opening", "write", "written", "reply", "closeFile", "returned"}
Phases == {"shell", "push", "pull", "pm", "rm", "idle"}
Messages == {"okay", "fail", "bad", "data", "done", "success", "failure"}
Copiers == {"none", "run", "eof", "err"}
Results == {"none", "ok", "err", "closeErr"}
LocalFiles == {"none", "there", "left"}
Calls ==
  [pc : Points, phase : Phases, sent : Nat, got : Seq(Messages),
   copier : Copiers, file : LocalFiles, result : Results]
Puts == {"none", "sent", "acked"}
Ends == {"none", "open", "local", "remote", "conn"}
Streams == [put : Puts, down : Seq(Messages), end : Ends]
States == {"none", "asked", "on", "failed", "gone", "refused"}
Services == [name : Phases \cup {"none"}, state : States, left : Nat, count : Nat]
Files == [owner : Callers \cup {"none"}, size : Nat]

TypeOK ==
  /\ task \in [Callers -> {"shell", "push", "pull", "install", "idle"}]
  /\ path \in [Callers -> Paths]
  /\ call \in [Callers -> Calls]
  /\ stream \in [Callers -> Streams]
  /\ serv \in [Callers -> Services]
  /\ remote \in [Paths -> Files]
  /\ installed \in [Callers -> Callers \cup {"none"}]
  /\ conn \in {"up", "down"}
  /\ ctxDone \in SUBSET Callers

OnStream(c) == call[c].pc \in {"opening", "write", "written", "reply"}

(* The phases a task goes through, and the service and the end of stream   *)
(* that go with a point of the call.                                       *)
Attached(c) ==
  /\ IF task[c] = "install" THEN call[c].phase \in {"push", "pm", "rm"}
                            ELSE call[c].phase = task[c]
  /\ task[c] = "idle" => At(c, "returned")
  /\ OnStream(c) => serv[c].name = call[c].phase /\ stream[c].end \in {"open", "remote", "conn"}
  /\ stream[c].end = "open" => OnStream(c)
  /\ stream[c].end = "conn" => conn = "down"
  /\ call[c].pc \in {"write", "written"} => call[c].phase \in {"push", "pull"}
  /\ At(c, "closeFile") => call[c].phase = "pull"
  /\ At(c, "opening") \/ call[c].phase \in {"push", "pull"} => call[c].copier = "none"
  /\ call[c].copier \in {"eof", "err"} => stream[c].end # "open"
  /\ serv[c].name \notin {"push", "pull"} => stream[c].put = "none" /\ serv[c].state # "failed"
  /\ serv[c].state = "asked" => serv[c].count = 0 /\ serv[c].left = 0
  /\ serv[c].name \in {"push", "pm", "rm"} => task[c] \in {"push", "install"}
  /\ call[c].phase = "pm" => /\ serv[c].name \in {"push", "pm"}
                             /\ OnStream(c) \/ (At(c, "open") /\ call[c].copier = "none")
  /\ At(c, "local") => call[c].phase \notin {"pm", "rm"}

(* How far adbd is with the requests of a push, and what it answered.      *)
PushFollows(c) ==
  /\ serv[c].name = "push" => /\ serv[c].count <= Chunks + 2
                              /\ stream[c].put = "sent" => serv[c].count < Chunks + 2
                              /\ \A i \in 1 .. Len(stream[c].down) :
                                   stream[c].down[i] = "okay" => serv[c].count = Chunks + 2
  /\ call[c].phase = "push" =>
       /\ At(c, "opening") => call[c].sent = 0 /\ serv[c].count = 0 /\ stream[c].put = "none"
       /\ call[c].pc \in {"write", "written"} =>
            call[c].sent < Chunks + 2 /\ serv[c].count <= call[c].sent + 1
       /\ At(c, "written") /\ stream[c].put = "sent" => serv[c].count <= call[c].sent
       /\ At(c, "write") => stream[c].put # "sent" /\ serv[c].count <= call[c].sent
       /\ At(c, "reply") => stream[c].put # "sent"
       /\ call[c].result = "ok" =>
            At(c, "returned") /\ serv[c].name = "push" /\ serv[c].count = Chunks + 2
  /\ call[c].phase = "pm" /\ At(c, "open") => serv[c].name = "push" /\ serv[c].count = Chunks + 2

(* The file a pull writes to.                                              *)
FileFollows(c) ==
  call[c].phase = "pull" =>
    /\ At(c, "local") => call[c].file = "none" /\ call[c].result = "none"
    /\ At(c, "open") \/ OnStream(c) => call[c].file = "there" /\ call[c].result = "none"
    /\ At(c, "closeFile") => call[c].file = "there"
    /\ At(c, "returned") /\ call[c].result = "ok" => call[c].file = "there"
    /\ At(c, "returned") /\ call[c].result = "err" => call[c].file \in {"none", "left"}

(* What became of the chunks of a pull: DONE comes after all of them.      *)
OnlyData(q) == \A i \in 1 .. Len(q) : q[i] = "data"
DoneAfterAll(n, q) == \A i \in 1 .. Len(q) : q[i] = "done" => n + i = Chunks + 1
PullFollows(c) ==
  call[c].phase = "pull" =>
    /\ call[c].result \in {"ok", "closeErr"} => Len(call[c].got) = Chunks
    /\ call[c].pc \in {"opening", "write", "written"} => call[c].sent = 0
    /\ call[c].pc \in {"opening", "write"} => stream[c].put = "none"
    /\ At(c, "reply") => stream[c].put = "acked"
    /\ OnStream(c) =>
         /\ stream[c].put # "acked" =>
              call[c].got = <<>> /\ stream[c].down = <<>> /\ serv[c].count = 0 /\ serv[c].left = 0
         /\ serv[c].left > 0 =>
              /\ serv[c].left + serv[c].count = Chunks + 1
              /\ stream[c].end = "open" => Len(call[c].got) + Len(stream[c].down) = serv[c].count
              /\ OnlyData(stream[c].down)
         /\ DoneAfterAll(Len(call[c].got), stream[c].down)

(* What became of the output of a command.                                 *)
ShellFollows(c) ==
  call[c].phase = "shell" =>
    /\ OnStream(c) /\ stream[c].end \in {"open", "remote"} =>
         Len(call[c].got) + Len(stream[c].down) = serv[c].count
    /\ At(c, "reply") /\ call[c].copier = "eof" => Len(call[c].got) = serv[c].count
    /\ At(c, "returned") \/ call[c].result = "none"
    /\ call[c].result = "ok" => Len(call[c].got) = serv[c].count /\ call[c].copier = "eof"

(* The upload of this caller on the device, if nobody else uses its path.  *)
UploadFollows(c) ==
  AloneOnPath(c) =>
    /\ /\ serv[c].name = "push" /\ serv[c].count \in 1 .. Chunks + 1 /\ serv[c].state = "on"
       => remote[path[c]] = Upload(c, serv[c].count - 1)
    /\ \/ serv[c].name = "push" /\ serv[c].count = Chunks + 2
       \/ call[c].phase = "pm"
       => remote[path[c]] = Upload(c, Chunks)

(* Whose file pm installed, as far as anything says that it did.           *)
InstallFollows(c) ==
  /\ call[c].phase = "push" => call[c].got = <<>>
  /\ task[c] = "install" /\ call[c].phase # "rm" => call[c].result # "ok"
  /\ AloneOnPath(c) =>
       \/ installed[c] = c
       \/ /\ serv[c].name = "pm" => \A i \in 1 .. Len(stream[c].down) : stream[c].down[i] # "success"
          /\ call[c].phase = "pm" => \A i \in 1 .. Len(call[c].got) : call[c].got[i] # "success"
          /\ task[c] = "install" => call[c].result # "ok"

(* The removal of an upload.                                               *)
RemovalFollows(c) ==
  /\ serv[c].name = "rm" =>
       /\ call[c].phase = "rm"
       /\ stream[c].end \in {"open", "remote", "conn"}
       /\ serv[c].state \in {"asked", "on", "gone", "refused"}
       /\ stream[c].end = "remote" /\ conn = "up" =>
            serv[c].state = "refused" \/ (serv[c].state = "gone" /\ serv[c].left = 0)
       /\ serv[c].state \in {"on", "gone"} /\ serv[c].left = 0 => remote[path[c]].owner # c
  /\ call[c].phase = "rm" /\ conn = "up" /\ At(c, "returned") =>
       serv[c].name = "rm" /\ stream[c].end = "remote"

Follows(c) ==
  /\ Attached(c) /\ PushFollows(c) /\ FileFollows(c) /\ PullFollows(c) /\ ShellFollows(c)
  /\ UploadFollows(c) /\ InstallFollows(c) /\ RemovalFollows(c)

Invariant == TypeOK /\ \A c \in Callers : Follows(c)

----------------------------------------------------------------------------
(* What the steps do, in terms of the caller they belong to.               *)
Same(f, g, c) == \A d \in Callers \ {c} : f[d] = g[d]

LEMMA TailIs ==
  ASSUME NEW S, NEW q \in Seq(S), q # <<>>
  PROVE  /\ Head(q) \in S /\ Head(q) = q[1] /\ Len(q) \in Nat \ {0} /\ Tail(q) \in Seq(S) /\ Len(Tail(q)) = Len(q) - 1
         /\ \A i \in 1 .. Len(Tail(q)) : Tail(q)[i] = q[i + 1]
OBVIOUS

LEMMA AppendIs ==
  ASSUME NEW S, NEW q \in Seq(S), NEW m \in S
  PROVE  /\ Append(q, m) \in Seq(S) /\ Len(Append(q, m)) = Len(q) + 1 /\ Len(q) \in Nat
         /\ Append(q, m)[Len(q) + 1] = m
         /\ \A i \in 1 .. Len(q) : Append(q, m)[i] = q[i]
OBVIOUS

LEMMA GotoIs ==
  ASSUME call \in [Callers -> Calls], NEW c \in Callers, NEW f \in Phases, NEW p \in Points,
         NEW r \in Results, Goto(c, f, p, r)
  PROVE  /\ call' \in [Callers -> Calls] /\ Same(call', call, c)
         /\ call'[c].phase = f /\ call'[c].pc = p /\ call'[c].result = r
         /\ call'[c].sent = call[c].sent /\ call'[c].got = call[c].got
         /\ call'[c].copier = call[c].copier /\ call'[c].file = call[c].file
BY DEF Calls, Goto, Same

LEMMA PcIs ==
  ASSUME call \in [Callers -> Calls], NEW c \in Callers, NEW p \in Points,
         call' = [call EXCEPT ![c].pc = p]
  PROVE  /\ call' \in [Callers -> Calls] /\ Same(call', call, c)
         /\ call'[c].pc = p /\ call'[c].phase = call[c].phase /\ call'[c].sent = call[c].sent
         /\ call'[c].got = call[c].got /\ call'[c].copier = call[c].copier /\ call'[c].file = call[c].file
         /\ call'[c].result = call[c].result
BY DEF Calls, Same

LEMMA PcSentIs ==
  ASSUME call \in [Callers -> Calls], NEW c \in Callers, NEW n \in Nat, NEW p \in Points,
         call' = [call EXCEPT ![c].sent = n, ![c].pc = p]
  PROVE  /\ call' \in [Callers -> Calls] /\ Same(call', call, c)
         /\ call'[c].pc = p /\ call'[c].phase = call[c].phase /\ call'[c].sent = n
         /\ call'[c].got = call[c].got /\ call'[c].copier = call[c].copier /\ call'[c].file = call[c].file
         /\ call'[c].result = call[c].result
BY DEF Calls, Same

LEMMA PcCopierIs ==
  ASSUME call \in [Callers -> Calls], NEW c \in Callers, NEW p \in Points, NEW k \in Copiers,
         call' = [call EXCEPT ![c].pc = p, ![c].copier = k]
  PROVE  /\ call' \in [Callers -> Calls] /\ Same(call', call, c)
         /\ call'[c].pc = p /\ call'[c].phase = call[c].phase /\ call'[c].sent = call[c].sent
         /\ call'[c].got = call[c].got /\ call'[c].copier = k /\ call'[c].file = call[c].file
         /\ call'[c].result = call[c].result
BY DEF Calls, Same

LEMMA PcFileIs ==
  ASSUME call \in [Callers -> Calls], NEW c \in Callers, NEW p \in Points, NEW b \in LocalFiles,
         call' = [call EXCEPT ![c].pc = p, ![c].file = b]
  PROVE  /\ call' \in [Callers -> Calls] /\ Same(call', call, c)
         /\ call'[c].pc = p /\ call'[c].phase = call[c].phase /\ call'[c].sent = call[c].sent
         /\ call'[c].got = call[c].got /\ call'[c].copier = call[c].copier /\ call'[c].file = b
         /\ call'[c].result = call[c].result
BY DEF Calls, Same

LEMMA GotIs ==
  ASSUME call \in [Callers -> Calls], NEW c \in Callers, NEW g \in Seq(Messages),
         call' = [call EXCEPT ![c].got = g]
  PROVE  /\ call' \in [Callers -> Calls] /\ Same(call', call, c)
         /\ call'[c].pc = call[c].pc /\ call'[c].phase = call[c].phase /\ call'[c].sent = call[c].sent
         /\ call'[c].got = g /\ call'[c].copier = call[c].copier /\ call'[c].file = call[c].file
         /\ call'[c].result = call[c].result
BY DEF Calls, Same

LEMMA CopierIs ==
  ASSUME call \in [Callers -> Calls], NEW c \in Callers, NEW k \in Copiers,
         call' = [call EXCEPT ![c].copier = k]
  PROVE  /\ call' \in [Callers -> Calls] /\ Same(call', call, c)
         /\ call'[c].pc = call[c].pc /\ call'[c].phase = call[c].phase /\ call'[c].sent = call[c].sent
         /\ call'[c].got = call[c].got /\ call'[c].copier = k /\ call'[c].file = call[c].file
         /\ call'[c].result = call[c].result
BY DEF Calls, Same

LEMMA PutIs ==
  ASSUME stream \in [Callers -> Streams], NEW c \in Callers, NEW x \in Puts,
         stream' = [stream EXCEPT ![c].put = x]
  PROVE  /\ stream' \in [Callers -> Streams] /\ Same(stream', stream, c)
         /\ stream'[c].put = x /\ stream'[c].down = stream[c].down /\ stream'[c].end = stream[c].end
BY DEF Streams, Same

LEMMA DownIs ==
  ASSUME stream \in [Callers -> Streams], NEW c \in Callers, NEW q \in Seq(Messages),
         stream' = [stream EXCEPT ![c].down = q]
  PROVE  /\ stream' \in [Callers -> Streams] /\ Same(stream', stream, c)
         /\ stream'[c].put = stream[c].put /\ stream'[c].down = q /\ stream'[c].end = stream[c].end
BY DEF Streams, Same

LEMMA EndIs ==
  ASSUME stream \in [Callers -> Streams], NEW c \in Callers, NEW e \in Ends,
         stream' = [stream EXCEPT ![c].end = e]
  PROVE  /\ stream' \in [Callers -> Streams] /\ Same(stream', stream, c)
         /\ stream'[c].put = stream[c].put /\ stream'[c].down = stream[c].down /\ stream'[c].end = e
BY DEF Streams, Same

LEMMA PutDownIs ==
  ASSUME stream \in [Callers -> Streams], NEW c \in Callers, NEW x \in Puts, NEW q \in Seq(Messages),
         stream' = [stream EXCEPT ![c].put = x, ![c].down = q]
  PROVE  /\ stream' \in [Callers -> Streams] /\ Same(stream', stream, c)
         /\ stream'[c].put = x /\ stream'[c].down = q /\ stream'[c].end = stream[c].end
BY DEF Streams, Same

LEMMA StateIs ==
  ASSUME serv \in [Callers -> Services], NEW c \in Callers, NEW x \in States,
         serv' = [serv EXCEPT ![c].state = x]
  PROVE  /\ serv' \in [Callers -> Services] /\ Same(serv', serv, c)
         /\ serv'[c].name = serv[c].name /\ serv'[c].state = x /\ serv'[c].left = serv[c].left
         /\ serv'[c].count = serv[c].count
BY DEF Services, Same

LEMMA LeftIs ==
  ASSUME serv \in [Callers -> Services], NEW c \in Callers, NEW n \in Nat,
         serv' = [serv EXCEPT ![c].left = n]
  PROVE  /\ serv' \in [Callers -> Services] /\ Same(serv', serv, c)
         /\ serv'[c].name = serv[c].name /\ serv'[c].state = serv[c].state /\ serv'[c].left = n
         /\ serv'[c].count = serv[c].count
BY DEF Services, Same

LEMMA CountIs ==
  ASSUME serv \in [Callers -> Services], NEW c \in Callers, NEW m \in Nat,
         serv' = [serv EXCEPT ![c].count = m]
  PROVE  /\ serv' \in [Callers -> Services] /\ Same(serv', serv, c)
         /\ serv'[c].name = serv[c].name /\ serv'[c].state = serv[c].state /\ serv'[c].left = serv[c].left
         /\ serv'[c].count = m
BY DEF Services, Same

LEMMA StateLeftIs ==
  ASSUME serv \in [Callers -> Services], NEW c \in Callers, NEW x \in States, NEW n \in Nat,
         serv' = [serv EXCEPT ![c].state = x, ![c].left = n]
  PROVE  /\ serv' \in [Callers -> Services] /\ Same(serv', serv, c)
         /\ serv'[c].name = serv[c].name /\ serv'[c].state = x /\ serv'[c].left = n
         /\ serv'[c].count = serv[c].count
BY DEF Services, Same

LEMMA LeftCountIs ==
  ASSUME serv \in [Callers -> Services], NEW c \in Callers, NEW n \in Nat, NEW m \in Nat,
         serv' = [serv EXCEPT ![c].left = n, ![c].count = m]
  PROVE  /\ serv' \in [Callers -> Services] /\ Same(serv', serv, c)
         /\ serv'[c].name = serv[c].name /\ serv'[c].state = serv[c].state /\ serv'[c].left = n
         /\ serv'[c].count = m
BY DEF Services, Same

LEMMA SendIs ==
  ASSUME call \in [Callers -> Calls], NEW c \in Callers,
         call' = [call EXCEPT ![c].pc = "opening", ![c].sent = 0, ![c].got = <<>>, ![c].copier = "none"]
  PROVE  /\ call' \in [Callers -> Calls]/\ Same(call', call, c)
         /\ call'[c].pc = "opening" /\ call'[c].sent = 0 /\ call'[c].got = <<>> /\ call'[c].copier = "none"
         /\ call'[c].phase = call[c].phase /\ call'[c].result = call[c].result /\ call'[c].file = call[c].file
<1> DEFINE k == [call[c] EXCEPT !.pc = "opening"]
           m == [k EXCEPT !.sent = 0]
           n == [m EXCEPT !.got = <<>>]
           o == [n EXCEPT !.copier = "none"]
<1>1. call' = [call EXCEPT ![c] = o]
  BY Zenon
<1>2. k \in Calls
  BY DEF Calls, Points
<1>3. m \in Calls
  <2> HIDE DEF k
  <2> QED BY <1>2 DEF Calls
<1>4. n \in Calls
  <2>1. <<>> \in Seq(Messages)
    OBVIOUS
  <2> HIDE DEF m
  <2> QED BY <1>3, <2>1 DEF Calls
<1>5. o \in Calls
  <2> HIDE DEF n
  <2> QED BY <1>4 DEF Calls, Copiers
<1>6. /\ call'[c].pc = "opening" /\ call'[c].sent = 0 /\ call'[c].got = <<>> /\ call'[c].copier = "none"
         /\ call'[c].phase = call[c].phase /\ call'[c].result = call[c].result /\ call'[c].file = call[c].file
  BY DEF Calls
<1> HIDE DEF o
<1>7. call' \in [Callers -> Calls]
  BY <1>1, <1>5
<1>8. Same(call', call, c)
  BY <1>1, <1>5 DEF Same
<1> QED BY <1>6, <1>7, <1>8
LEMMA LeaveIs ==
  ASSUME TypeOK, NEW c \in Callers, NEW s \in Streams, NEW r \in {"ok", "err"}, Leave(c, s, r)
  PROVE  /\ call' \in [Callers -> Calls] /\ Same(call', call, c)
         /\ call'[c].sent = call[c].sent /\ call'[c].got = call[c].got
         /\ call'[c].copier = call[c].copier /\ call'[c].file = call[c].file
         /\ stream' \in [Callers -> Streams] /\ Same(stream', stream, c)
         /\ stream'[c].put = s.put /\ stream'[c].down = s.down
         /\ stream'[c].end = IF s.end = "open" THEN "local" ELSE s.end
         /\ \/ /\ call[c].phase = "push" /\ task[c] = "install" /\ r = "ok"
               /\ call'[c].phase = "pm" /\ call'[c].pc = "open" /\ call'[c].result = "none"
            \/ /\ call[c].phase = "pm"
               /\ call'[c].phase = "rm" /\ call'[c].pc = "open" /\ call'[c].result = r
            \/ /\ call[c].phase = "rm"
               /\ call'[c].phase = "rm" /\ call'[c].pc = "returned" /\ call'[c].result = call[c].result
            \/ /\ call[c].phase = "pull"
               /\ call'[c].phase = "pull" /\ call'[c].pc = "closeFile" /\ call'[c].result = r
            \/ /\ call[c].phase \in {"shell", "push", "idle"}
               /\ ~ (call[c].phase = "push" /\ task[c] = "install" /\ r = "ok")
               /\ call'[c].phase = call[c].phase /\ call'[c].pc = "returned" /\ call'[c].result = r
<1>1. /\ stream' \in [Callers -> Streams] /\ Same(stream', stream, c)
      /\ stream'[c].put = s.put /\ stream'[c].down = s.down
      /\ stream'[c].end = IF s.end = "open" THEN "local" ELSE s.end
  BY DEF TypeOK, Streams, Ends, Leave, Same
<1>2. call \in [Callers -> Calls] /\ call[c].phase \in Phases
      /\ call[c].result \in Results
  BY DEF TypeOK, Calls
<1>3. CASE call[c].phase = "push" /\ task[c] = "install" /\ r = "ok"
  <2>1. Goto(c, "pm", "open", "none")
    BY <1>3 DEF Leave
  <2> QED BY <1>1, <1>2, <1>3, <2>1, GotoIs DEF Phases, Points, Results
<1>4. CASE call[c].phase = "pm"
  <2>1. Goto(c, "rm", "open", r)
    BY <1>4 DEF Leave
  <2> QED BY <1>1, <1>2, <1>4, <2>1, GotoIs DEF Phases, Points, Results
<1>5. CASE call[c].phase = "rm"
  <2>1. Goto(c, "rm", "returned", call[c].result)
    BY <1>5 DEF Leave
  <2> QED BY <1>1, <1>2, <1>5, <2>1, GotoIs DEF Phases, Points, Results
<1>6. CASE call[c].phase = "pull"
  <2>1. Goto(c, "pull", "closeFile", r)
    BY <1>6 DEF Leave
  <2> QED BY <1>1, <1>2, <1>6, <2>1, GotoIs DEF Phases, Points, Results
<1>7. CASE /\ call[c].phase \in {"shell", "push", "idle"}
           /\ ~ (call[c].phase = "push" /\ task[c] = "install" /\ r = "ok")
  <2>1. Goto(c, call[c].phase, "returned", r)
    BY <1>7 DEF Leave
  <2> QED BY <1>1, <1>2, <1>7, <2>1, GotoIs DEF Phases, Points, Results
<1> QED BY <1>2, <1>3, <1>4, <1>5, <1>6, <1>7 DEF Phases

LEMMA RestIs ==
  ASSUME TypeOK, NEW c \in Callers, Has(c)
  PROVE  /\ First(c) \in Messages /\ First(c) = stream[c].down[1] /\ Len(stream[c].down) \in Nat \ {0}
         /\ Rest(c) \in Streams
         /\ Rest(c).put = stream[c].put /\ Rest(c).end = stream[c].end
         /\ Len(Rest(c).down) = Len(stream[c].down) - 1
         /\ \A i \in 1 .. Len(Rest(c).down) : Rest(c).down[i] = stream[c].down[i + 1]
<1>1. stream[c] \in Streams /\ stream[c].down \in Seq(Messages) /\ stream[c].down # <<>>
  BY DEF TypeOK, Streams, Has
<1>2. /\ Rest(c).put = stream[c].put /\ Rest(c).end = stream[c].end
      /\ Rest(c).down = Tail(stream[c].down)
  BY <1>1 DEF Rest, Streams
<1>3. Rest(c) \in Streams
  BY <1>1, TailIs DEF Rest, Streams
<1> QED BY <1>1, <1>2, <1>3, TailIs DEF First
(* A step of the caller, its copier or its service.                        *)
Touches(c) ==
  /\ task' = task /\ path' = path
  /\ conn' = conn /\ ctxDone' = ctxDone
  /\ call' \in [Callers -> Calls] /\ Same(call', call, c)
  /\ stream' \in [Callers -> Streams] /\ Same(stream', stream, c)
  /\ serv' \in [Callers -> Services] /\ Same(serv', serv, c)
  /\ remote' \in [Paths -> Files]
  /\ \A q \in Paths \ {path[c]} : remote'[q] = remote[q]
  /\ serv[c].name \notin {"push", "rm"} => remote' = remote
  /\ remote'[path[c]] = remote[path[c]] \/ remote'[path[c]].owner \in {c, "none"}
  /\ installed' \in [Callers -> Callers \cup {"none"}] /\ Same(installed', installed, c)

LEMMA CallTouches ==
  ASSUME TypeOK, NEW c \in Callers, CallStep(c) \/ Copy(c)
  PROVE  Touches(c)
<1> USE DEF given
<1>0. /\ call \in [Callers -> Calls] /\ stream \in [Callers -> Streams]
      /\ serv \in [Callers -> Services] /\ remote \in [Paths -> Files]
      /\ installed \in [Callers -> Callers \cup {"none"}]
      /\ stream[c] \in Streams /\ call[c].phase \in Phases /\ call[c].sent \in Nat
      /\ call[c].result \in Results /\ call[c].got \in Seq(Messages)
  BY DEF TypeOK, Calls
<1>1. ASSUME call' \in [Callers -> Calls], Same(call', call, c),
             stream' \in [Callers -> Streams], Same(stream', stream, c),
             UNCHANGED <<given, serv, remote, installed, conn, ctxDone>>
      PROVE  Touches(c)
  BY <1>0, <1>1 DEF Touches, Same
<1>2. ASSUME call' \in [Callers -> Calls], Same(call', call, c),
             UNCHANGED <<given, stream, serv, remote, installed, conn, ctxDone>>
      PROVE  Touches(c)
  BY <1>0, <1>1, <1>2 DEF Same
<1>3. ASSUME NEW s \in Streams, NEW r \in {"ok", "err"}, Leave(c, s, r),
             UNCHANGED <<given, serv, remote, installed, conn, ctxDone>>
      PROVE  Touches(c)
  BY <1>1, <1>3, LeaveIs
<1>4. ASSUME NEW r \in {"ok", "err"}, HostLeaves(c, r),
             UNCHANGED <<given, serv, remote, installed, conn, ctxDone>>
      PROVE  Touches(c)
  BY <1>0, <1>3, <1>4 DEF HostLeaves
<1>5. CASE OpenLocal(c)
  <2>1. CASE call' = [call EXCEPT ![c].pc = "open",
                                   ![c].file = IF task[c] = "pull" THEN "there" ELSE "none"]
    <3>1. call' \in [Callers -> Calls] /\ Same(call', call, c)
      BY <1>0, <2>1, PcFileIs DEF Points, LocalFiles
    <3> QED BY <1>2, <1>5, <3>1 DEF OpenLocal
  <2>2. CASE Goto(c, call[c].phase, "returned", "err")
    BY <1>0, <1>2, <1>5, <2>2, GotoIs DEF OpenLocal, Points, Results
  <2> QED BY <1>5, <2>1, <2>2 DEF OpenLocal
<1>6. CASE SendOpen(c)
  <2>1. CASE conn = "up"
    <3>1. call' \in [Callers -> Calls] /\ Same(call', call, c)
      BY <1>0, <1>6, <2>1, SendIs DEF SendOpen
    <3>2. [put |-> "none", down |-> <<>>, end |-> "open"] \in Streams
      <4>1. <<>> \in Seq(Messages)
        OBVIOUS
      <4> QED BY <4>1 DEF Streams, Puts, Ends
    <3>3. [name |-> call[c].phase, state |-> "asked", left |-> 0, count |-> 0] \in Services
      BY <1>0 DEF Services, States
    <3>4. /\ stream' \in [Callers -> Streams] /\ Same(stream', stream, c)
          /\ serv' \in [Callers -> Services] /\ Same(serv', serv, c)
      BY <1>0, <1>6, <2>1, <3>2, <3>3 DEF SendOpen, Same
    <3> QED BY <1>0, <1>6, <3>1, <3>4 DEF SendOpen, Touches, Same
  <2> QED BY <1>4, <1>6, <2>1 DEF SendOpen
<1>7. CASE OpenReturns(c)
  <2>1. call' \in [Callers -> Calls] /\ Same(call', call, c)
    BY <1>0, <1>7, PcCopierIs DEF OpenReturns, Points, Copiers
  <2> QED BY <1>2, <1>7, <2>1 DEF OpenReturns
<1>8. CASE Write(c)
  <2>1. CASE call' = [call EXCEPT ![c].pc = "written"] /\ stream' = [stream EXCEPT ![c].put = "sent"]
    <3>1. /\ call' \in [Callers -> Calls] /\ Same(call', call, c)
          /\ stream' \in [Callers -> Streams] /\ Same(stream', stream, c)
      BY <1>0, <2>1, PcIs, PutIs DEF Points, Puts
    <3> QED BY <1>1, <1>8, <3>1 DEF Write
  <2> QED BY <1>4, <1>8, <2>1 DEF Write
<1>9. CASE WriteReturns(c)
  <2>1. call' \in [Callers -> Calls] /\ Same(call', call, c)
    <3> DEFINE p == IF call[c].sent + 1 = Requests(c) THEN "reply" ELSE "write"
               n == call[c].sent + 1
    <3>1. p \in Points /\ n \in Nat /\ call' = [call EXCEPT ![c].sent = n, ![c].pc = p]
      BY <1>0, <1>9 DEF WriteReturns, RequestAcked, Points
    <3> HIDE DEF p, n
    <3> QED BY <1>0, <3>1, PcSentIs
  <2> QED BY <1>2, <1>9, <2>1 DEF WriteReturns
<1>10. CASE OpenFails(c) \/ WriteFails(c) \/ ReplyEnds(c) \/ ShellReturns(c) \/ ShellCancelled(c)
  BY <1>4, <1>10 DEF OpenFails, WriteFails, ReplyEnds, StreamEndsFirst, ShellReturns, ShellReturnsOk,
                     ShellCancelled, ShellCancelledIf
<1>11. CASE PushReply(c)
  BY <1>3, <1>11, RestIs DEF PushReply
<1>12. ASSUME Has(c), call' = [call EXCEPT ![c].got = Append(@, First(c))],
              stream' = [stream EXCEPT ![c] = Rest(c)],
              UNCHANGED <<given, serv, remote, installed, conn, ctxDone>>
       PROVE  Touches(c)
  <2>1. call' \in [Callers -> Calls] /\ Same(call', call, c)
    BY <1>0, <1>12, RestIs, AppendIs, GotIs
  <2>2. stream' \in [Callers -> Streams] /\ Same(stream', stream, c)
    BY <1>0, <1>12, RestIs DEF Same
  <2> QED BY <1>1, <1>12, <2>1, <2>2
<1>13. CASE PullMessage(c)
  BY <1>3, <1>12, <1>13, RestIs DEF PullMessage
<1>14. CASE CloseFile(c)
  <2>1. ASSUME NEW r \in {"ok", "closeErr"}, Goto(c, "pull", "returned", r)
        PROVE  Touches(c)
    <3>1. "pull" \in Phases /\ "returned" \in Points /\ r \in Results
      BY DEF Phases, Points, Results
    <3>2. call' \in [Callers -> Calls] /\ Same(call', call, c)
      BY <1>0, <2>1, <3>1, GotoIs
    <3> QED BY <1>2, <1>14, <3>2 DEF CloseFile
  <2>2. ASSUME NEW f \in {"none", "left"},
               call' = [call EXCEPT ![c].pc = "returned", ![c].file = f]
        PROVE  Touches(c)
    <3>1. call' \in [Callers -> Calls] /\ Same(call', call, c)
      BY <1>0, <2>2, PcFileIs DEF Points, LocalFiles
    <3> QED BY <1>2, <1>14, <3>1 DEF CloseFile
  <2> QED BY <1>14, <2>1, <2>2 DEF CloseFile
<1>15. CASE Copy(c)
  <2>1. CASE call' = [call EXCEPT ![c].copier = IF stream[c].end \in {"conn"} THEN "err" ELSE "eof"]
             /\ UNCHANGED stream
    <3>1. call' \in [Callers -> Calls] /\ Same(call', call, c)
      BY <1>0, <2>1, CopierIs DEF Copiers
    <3> QED BY <1>2, <1>15, <2>1, <3>1 DEF Copy, CopyUntil
  <2> QED BY <1>12, <1>15, <2>1 DEF Copy, CopyUntil
<1> QED BY <1>5, <1>6, <1>7, <1>8, <1>9, <1>10, <1>11, <1>13, <1>14, <1>15 DEF CallStep

(* remote' as a step of the service of c may leave it.                     *)
RemoteTouched(c) ==
  /\ remote' \in [Paths -> Files]
  /\ \A q \in Paths \ {path[c]} : remote'[q] = remote[q]
  /\ serv[c].name \notin {"push", "rm"} => remote' = remote
  /\ remote'[path[c]] = remote[path[c]] \/ remote'[path[c]].owner \in {c, "none"}

LEMMA SetFileTouches ==
  ASSUME TypeOK, NEW c \in Callers, NEW f \in Files, serv[c].name \in {"push", "rm"},
         f = remote[path[c]] \/ f.owner \in {c, "none"},
         remote' = [remote EXCEPT ![path[c]] = f]
  PROVE  RemoteTouched(c) /\ remote'[path[c]] = f
BY DEF TypeOK, RemoteTouched

LEMMA GivesUpTouches ==
  ASSUME TypeOK, NEW c \in Callers, GivesUpUpload(c)
  PROVE  RemoteTouched(c)
<1>1. NoFile \in Files /\ NoFile.owner = "none" /\ remote \in [Paths -> Files]
  BY DEF NoFile, Files, TypeOK
<1> QED BY <1>1, SetFileTouches DEF GivesUpUpload, RemoteTouched

LEMMA PushTouches ==
  ASSUME TypeOK, NEW c \in Callers, TakesPush(c)
  PROVE  /\ RemoteTouched(c)
         /\ serv[c].count = 0 => remote'[path[c]] = Upload(c, 0)
         /\ serv[c].count \in 1 .. Chunks /\ remote[path[c]].owner = c =>
              remote'[path[c]] = Upload(c, remote[path[c]].size + 1)
         /\ serv[c].count = Chunks + 1 => remote' = remote
<1> DEFINE f == IF serv[c].count = 0 THEN Upload(c, 0)
                ELSE IF serv[c].count <= Chunks /\ remote[path[c]].owner = c
                     THEN Upload(c, remote[path[c]].size + 1) ELSE remote[path[c]]
<1>1. /\ remote[path[c]] \in Files /\ remote[path[c]].size \in Nat /\ path[c] \in Paths
      /\ serv[c].count \in Nat /\ remote \in [Paths -> Files]
  BY DEF TypeOK, Files, Services
<1>2. /\ Upload(c, 0) \in Files /\ Upload(c, remote[path[c]].size + 1) \in Files
      /\ Upload(c, 0).owner = c /\ Upload(c, remote[path[c]].size + 1).owner = c
  BY <1>1 DEF Upload, Files
<1>3. f \in Files /\ (f = remote[path[c]] \/ f.owner \in {c, "none"})
  BY <1>1, <1>2
<1>4. remote' = [remote EXCEPT ![path[c]] = f] /\ serv[c].name = "push"
  BY DEF TakesPush
<1>5. /\ serv[c].count = 0 => f = Upload(c, 0)
      /\ serv[c].count \in 1 .. Chunks /\ remote[path[c]].owner = c =>
           f = Upload(c, remote[path[c]].size + 1)
      /\ serv[c].count = Chunks + 1 => f = remote[path[c]]
  BY <1>1, ClientAssumption
<1> HIDE DEF f
<1>6. RemoteTouched(c) /\ remote'[path[c]] = f
  BY <1>3, <1>4, SetFileTouches
<1> QED BY <1>1, <1>4, <1>5, <1>6

LEMMA ServiceTouches ==
  ASSUME TypeOK, NEW c \in Callers, ServiceStep(c)
  PROVE  Touches(c)
<1> USE DEF given, host
<1>0. /\ call \in [Callers -> Calls] /\ stream \in [Callers -> Streams]
      /\ serv \in [Callers -> Services] /\ remote \in [Paths -> Files]
      /\ installed \in [Callers -> Callers \cup {"none"}]
      /\ serv[c].left \in Nat /\ serv[c].count \in Nat
      /\ stream[c].end \in Ends /\ stream[c].down \in Seq(Messages)
  BY DEF TypeOK, Services, Streams
<1>1. ASSUME UNCHANGED host, stream' \in [Callers -> Streams], Same(stream', stream, c),
             serv' \in [Callers -> Services], Same(serv', serv, c),
             RemoteTouched(c), installed' \in [Callers -> Callers \cup {"none"}], Same(installed', installed, c)
      PROVE  Touches(c)
  BY <1>0, <1>1 DEF Touches, Same, RemoteTouched
<1>2. ASSUME UNCHANGED host, stream' \in [Callers -> Streams], Same(stream', stream, c),
             serv' \in [Callers -> Services], Same(serv', serv, c),
             RemoteTouched(c), UNCHANGED installed
      PROVE  Touches(c)
  BY <1>0, <1>1, <1>2 DEF Same
<1>3. /\ remote' = remote => RemoteTouched(c)
      /\ stream' = stream => stream' \in [Callers -> Streams] /\ Same(stream', stream, c)
      /\ serv' = serv => serv' \in [Callers -> Services] /\ Same(serv', serv, c)
  BY <1>0 DEF RemoteTouched, Same
<1>4. ASSUME NEW m \in Messages, Replies(c, m)
      PROVE  stream' \in [Callers -> Streams] /\ Same(stream', stream, c)
  <2> DEFINE q == Append(stream[c].down, m)
  <2>1. q \in Seq(Messages) /\ stream' = [stream EXCEPT ![c].down = q]
    BY <1>0, <1>4, AppendIs DEF Replies
  <2> HIDE DEF q
  <2> QED BY <1>0, <2>1, DownIs
<1>5. CASE DeviceStarts(c)
  <2>1. CASE \E n \in Nat : serv' = [serv EXCEPT ![c].state = "on", ![c].left = n] /\ UNCHANGED stream
    BY <1>0, <1>2, <1>3, <1>5, <2>1, StateLeftIs DEF DeviceStarts, States
  <2>2. CASE /\ serv' = [serv EXCEPT ![c].state = "refused"]
             /\ stream' = [stream EXCEPT ![c].end = IF @ = "open" THEN "remote" ELSE @]
    <3>1. stream' \in [Callers -> Streams] /\ Same(stream', stream, c)
      BY <1>0, <2>2, EndIs DEF Ends
    <3> QED BY <1>0, <1>2, <1>3, <1>5, <2>2, <3>1, StateIs DEF DeviceStarts, States
  <2>3. \A n \in CASE serv[c].name = "shell" -> 0 .. Chunks
                   [] serv[c].name \in {"pm", "rm"} -> {1}
                   [] OTHER -> {0} : n \in Nat
    BY ClientAssumption
  <2> QED BY <1>5, <2>1, <2>2, <2>3 DEF DeviceStarts
<1>6. CASE DeviceTakes(c)
  <2>1. CASE Drains(c)
    BY <1>0, <1>2, <1>3, <1>6, <2>1, PutIs DEF DeviceTakes, Drains, Puts
  <2>2. CASE TakesPull(c)
    <3>1. serv' \in [Callers -> Services] /\ Same(serv', serv, c)
      <4> DEFINE n == Chunks + 1
      <4>1. n \in Nat /\ serv' = [serv EXCEPT ![c].left = n]
        BY <2>2, ClientAssumption DEF TakesPull
      <4> HIDE DEF n
      <4> QED BY <1>0, <4>1, LeftIs
    <3> QED BY <1>0, <1>2, <1>3, <1>6, <2>2, <3>1, PutIs DEF DeviceTakes, TakesPull, Puts
  <2>3. CASE Fails(c)
    <3>1. serv' \in [Callers -> Services] /\ Same(serv', serv, c)
      BY <1>0, <2>3, StateLeftIs DEF Fails, States
    <3>2. stream' \in [Callers -> Streams] /\ Same(stream', stream, c)
      <4> DEFINE q == Append(stream[c].down, "fail")
      <4>1. q \in Seq(Messages) /\ stream' = [stream EXCEPT ![c].put = "acked", ![c].down = q]
        BY <1>0, <2>3, AppendIs DEF Fails, Messages
      <4> HIDE DEF q
      <4> QED BY <1>0, <4>1, PutDownIs DEF Puts
    <3> QED BY <1>2, <1>6, <2>3, <3>1, <3>2, GivesUpTouches DEF DeviceTakes, Fails
  <2>4. CASE TakesPush(c)
    <3>1. serv' \in [Callers -> Services] /\ Same(serv', serv, c)
      <4> DEFINE m == serv[c].count + 1
      <4>1. m \in Nat /\ serv' = [serv EXCEPT ![c].count = m]
        BY <1>0, <2>4 DEF TakesPush
      <4> HIDE DEF m
      <4> QED BY <1>0, <4>1, CountIs
    <3>2. stream' \in [Callers -> Streams] /\ Same(stream', stream, c)
      <4> DEFINE q == IF serv[c].count = Chunks + 1 THEN Append(stream[c].down, "okay") ELSE stream[c].down
      <4>1. q \in Seq(Messages) /\ stream' = [stream EXCEPT ![c].put = "acked", ![c].down = q]
        BY <1>0, <2>4, AppendIs DEF TakesPush, Messages
      <4> HIDE DEF q
      <4> QED BY <1>0, <4>1, PutDownIs DEF Puts
    <3> QED BY <1>2, <1>6, <2>4, <3>1, <3>2, PushTouches DEF DeviceTakes
  <2> QED BY <1>6, <2>1, <2>2, <2>3, <2>4 DEF DeviceTakes
<1>7. CASE DeviceOutputs(c)
  <2>1. stream' \in [Callers -> Streams] /\ Same(stream', stream, c)
    BY <1>4, <1>7 DEF DeviceOutputs, Messages
  <2>2. serv' \in [Callers -> Services] /\ Same(serv', serv, c)
    <3>1. CASE serv' = [serv EXCEPT ![c].left = @ - 1, ![c].count = @ + 1]
      <4> DEFINE n == serv[c].left - 1  m == serv[c].count + 1
      <4>1. n \in Nat /\ m \in Nat /\ serv' = [serv EXCEPT ![c].left = n, ![c].count = m]
        BY <1>0, <1>7, <3>1 DEF DeviceOutputs
      <4> HIDE DEF n, m
      <4> QED BY <1>0, <4>1, LeftCountIs
    <3>2. CASE serv' = [serv EXCEPT ![c].left = 0]
      BY <1>0, <3>2, LeftIs
    <3>3. CASE serv' = [serv EXCEPT ![c].state = "failed", ![c].left = 0]
      BY <1>0, <3>3, StateLeftIs DEF States
    <3> QED BY <1>7, <3>1, <3>2, <3>3 DEF DeviceOutputs
  <2> QED BY <1>2, <1>3, <1>7, <2>1, <2>2 DEF DeviceOutputs
<1>8. CASE DeviceInstalls(c)
  <2>1. stream' \in [Callers -> Streams] /\ Same(stream', stream, c)
    BY <1>4, <1>8 DEF DeviceInstalls, Messages
  <2>2. serv' \in [Callers -> Services] /\ Same(serv', serv, c)
    BY <1>0, <1>8, LeftIs DEF DeviceInstalls
  <2>3. installed' \in [Callers -> Callers \cup {"none"}] /\ Same(installed', installed, c)
    <3>1. remote[path[c]].owner \in Callers \cup {"none"}
      BY DEF TypeOK, Files
    <3> QED BY <1>0, <1>8, <3>1 DEF DeviceInstalls, Same
  <2> QED BY <1>1, <1>3, <1>8, <2>1, <2>2, <2>3 DEF DeviceInstalls
<1>9. CASE DeviceRemoves(c)
  <2>1. serv' \in [Callers -> Services] /\ Same(serv', serv, c)
    BY <1>0, <1>9, LeftIs DEF DeviceRemoves
  <2>2. RemoteTouched(c)
    BY <1>9, SetFileTouches DEF DeviceRemoves, NoFile, Files
  <2> QED BY <1>2, <1>3, <1>9, <2>1, <2>2 DEF DeviceRemoves
<1>10. CASE DeviceEnds(c)
  <2>1. /\ serv' \in [Callers -> Services] /\ Same(serv', serv, c)
        /\ stream' \in [Callers -> Streams] /\ Same(stream', stream, c)
    BY <1>0, <1>10, StateIs, EndIs DEF DeviceEnds, States, Ends
  <2> QED BY <1>2, <1>10, <2>1, GivesUpTouches DEF DeviceEnds
<1>11. CASE DeviceSeesClose(c)
  <2>1. serv' \in [Callers -> Services] /\ Same(serv', serv, c)
    BY <1>0, <1>11, StateIs DEF DeviceSeesClose, States
  <2> QED BY <1>2, <1>3, <1>11, <2>1, GivesUpTouches DEF DeviceSeesClose
<1> QED BY <1>5, <1>6, <1>7, <1>8, <1>9, <1>10, <1>11 DEF ServiceStep

----------------------------------------------------------------------------
(* The steps with which a call is done with its stream have this in common.*)
Departs(c) ==
  /\ UNCHANGED <<given, serv, remote, installed, conn, ctxDone>>
  /\ \E s \in Streams, r \in {"ok", "err"} :
       /\ Leave(c, s, r)
       /\ s.put = stream[c].put /\ s.end = stream[c].end
       /\ \A i \in 1 .. Len(s.down) :
            \E j \in 1 .. Len(stream[c].down) : s.down[i] = stream[c].down[j]
       /\ (At(c, "open") /\ conn = "down") \/ OnStream(c)
       /\ call[c].phase = "rm" => At(c, "open") \/ stream[c].end # "open"
       /\ r = "ok" =>
            /\ At(c, "reply")
            /\ call[c].phase = "push" => Has(c) /\ First(c) = "okay"
            /\ call[c].phase = "pull" => Has(c) /\ First(c) = "done"
            /\ call[c].phase \notin {"push", "pull"} => call[c].copier = "eof"
            /\ call[c].phase = "pm" => call[c].got = <<"success">>

LEMMA HostLeavesDeparts ==
  ASSUME TypeOK, NEW c \in Callers, NEW r \in {"ok", "err"}, HostLeaves(c, r),
         UNCHANGED <<given, serv, remote, installed, conn, ctxDone>>,
         (At(c, "open") /\ conn = "down") \/ OnStream(c),
         call[c].phase = "rm" => At(c, "open") \/ stream[c].end # "open",
         r = "ok" => /\ At(c, "reply") /\ call[c].phase \notin {"push", "pull"} /\ call[c].copier = "eof"
                     /\ call[c].phase = "pm" => call[c].got = <<"success">>
  PROVE  Departs(c)
<1>1. stream[c] \in Streams
  BY DEF TypeOK
<1>2. Leave(c, stream[c], r)
  BY DEF HostLeaves
<1> QED BY <1>1, <1>2 DEF Departs

LEMMA RestDeparts ==
  ASSUME TypeOK, NEW c \in Callers, NEW r \in {"ok", "err"}, Has(c), Leave(c, Rest(c), r), At(c, "reply"),
         UNCHANGED <<given, serv, remote, installed, conn, ctxDone>>,
         call[c].phase \in {"push", "pull"},
         r = "ok" => First(c) = IF call[c].phase = "push" THEN "okay" ELSE "done"
  PROVE  Departs(c)
<1> DEFINE s == Rest(c)
<1>1. /\ s \in Streams /\ s.put = stream[c].put /\ s.end = stream[c].end
      /\ Len(s.down) = Len(stream[c].down) - 1 /\ Len(stream[c].down) \in Nat
      /\ \A i \in 1 .. Len(s.down) : s.down[i] = stream[c].down[i + 1]
  BY RestIs
<1>2. \A i \in 1 .. Len(s.down) : \E j \in 1 .. Len(stream[c].down) : s.down[i] = stream[c].down[j]
  BY <1>1
<1> HIDE DEF s
<1>3. Leave(c, s, r)
  BY DEF s
<1> QED BY <1>1, <1>2, <1>3 DEF Departs, OnStream, At

LEMMA DepartingSteps ==
  ASSUME TypeOK, NEW c \in Callers, Attached(c),
         \/ OpenFails(c) \/ WriteFails(c) \/ ReplyEnds(c) \/ ShellReturns(c) \/ ShellCancelled(c)
         \/ PushReply(c)
  PROVE  Departs(c)
<1>1. CASE OpenFails(c) \/ WriteFails(c)
  <2>1. HostLeaves(c, "err") /\ OnStream(c) /\ (call[c].phase = "rm" => stream[c].end # "open")
    BY <1>1 DEF OpenFails, WriteFails, OnStream, At, Cancelled
  <2> QED BY <1>1, <2>1, HostLeavesDeparts DEF OpenFails, WriteFails
<1>2. CASE ReplyEnds(c)
  <2>1. HostLeaves(c, "err") /\ OnStream(c) /\ call[c].phase # "rm"
    BY <1>2 DEF ReplyEnds, StreamEndsFirst, OnStream, At
  <2> QED BY <1>2, <2>1, HostLeavesDeparts DEF ReplyEnds, StreamEndsFirst
<1>3. CASE ShellReturns(c)
  <2>1. PICK r \in {"ok", "err"} :
          /\ HostLeaves(c, r)
          /\ r = "ok" => call[c].copier = "eof" /\ (call[c].phase = "pm" => call[c].got = <<"success">>)
    BY <1>3 DEF ShellReturns, ShellReturnsOk
  <2>2. /\ OnStream(c) /\ At(c, "reply") /\ call[c].copier # "none"
        /\ stream[c].end # "open"
    BY <1>3 DEF ShellReturns, ShellReturnsOk, OnStream, At, Attached
  <2>3. call[c].phase \notin {"push", "pull"}
    BY <2>2 DEF Attached
  <2> QED BY <1>3, <2>1, <2>2, <2>3, HostLeavesDeparts DEF ShellReturns, ShellReturnsOk
<1>4. CASE ShellCancelled(c)
  <2>1. HostLeaves(c, "err") /\ OnStream(c) /\ call[c].phase # "rm"
    BY <1>4 DEF ShellCancelled, ShellCancelledIf, OnStream, At, Cancelled
  <2> QED BY <1>4, <2>1, HostLeavesDeparts DEF ShellCancelled, ShellCancelledIf
<1>5. CASE PushReply(c)
  <2>1. PICK r \in {"ok", "err"} : Leave(c, Rest(c), r) /\ (r = "ok" => First(c) = "okay")
    BY <1>5 DEF PushReply
  <2> QED BY <1>5, <2>1, RestDeparts DEF PushReply
<1> QED BY <1>1, <1>2, <1>3, <1>4, <1>5

(* What a caller that departs leaves.                                      *)
LEMMA DepartsIs ==
  ASSUME TypeOK, NEW c \in Callers, Departs(c)
  PROVE  /\ call[c].pc \in {"open", "opening", "write", "written", "reply"}
         /\ At(c, "open") => conn = "down"
         /\ call[c].phase = "rm" => At(c, "open") \/ stream[c].end # "open"
         /\ call'[c].got = call[c].got /\ call'[c].copier = call[c].copier
         /\ call'[c].file = call[c].file /\ serv'[c] = serv[c] /\ conn' = conn
         /\ stream'[c].put = stream[c].put
         /\ stream'[c].end = IF stream[c].end = "open" THEN "local" ELSE stream[c].end
         /\ \A i \in 1 .. Len(stream'[c].down) :
              \E j \in 1 .. Len(stream[c].down) : stream'[c].down[i] = stream[c].down[j]
         /\ \E r \in {"ok", "err"} :
              /\ r = "ok" =>
                   /\ At(c, "reply")
                   /\ call[c].phase = "push" => Has(c) /\ First(c) = "okay"
                   /\ call[c].phase = "pull" => Has(c) /\ First(c) = "done"
                   /\ call[c].phase \notin {"push", "pull"} => call[c].copier = "eof"
                   /\ call[c].phase = "pm" => call[c].got = <<"success">>
              /\ \/ /\ call[c].phase = "push" /\ task[c] = "install" /\ r = "ok"
                    /\ call'[c].phase = "pm" /\ call'[c].pc = "open" /\ call'[c].result = "none"
                 \/ /\ call[c].phase = "pm"
                    /\ call'[c].phase = "rm" /\ call'[c].pc = "open" /\ call'[c].result = r
                 \/ /\ call[c].phase = "rm"
                    /\ call'[c].phase = "rm" /\ call'[c].pc = "returned" /\ call'[c].result = call[c].result
                 \/ /\ call[c].phase = "pull"
                    /\ call'[c].phase = "pull" /\ call'[c].pc = "closeFile" /\ call'[c].result = r
                 \/ /\ call[c].phase \in {"shell", "push", "idle"}
                    /\ ~ (call[c].phase = "push" /\ task[c] = "install" /\ r = "ok")
                    /\ call'[c].phase = call[c].phase /\ call'[c].pc = "returned" /\ call'[c].result = r
<1>1. PICK s \in Streams, r \in {"ok", "err"} :
       /\ Leave(c, s, r)
       /\ s.put = stream[c].put /\ s.end = stream[c].end
       /\ \A i \in 1 .. Len(s.down) :
            \E j \in 1 .. Len(stream[c].down) : s.down[i] = stream[c].down[j]
       /\ (At(c, "open") /\ conn = "down") \/ OnStream(c)
       /\ call[c].phase = "rm" => At(c, "open") \/ stream[c].end # "open"
       /\ r = "ok" =>
            /\ At(c, "reply")
            /\ call[c].phase = "push" => Has(c) /\ First(c) = "okay"
            /\ call[c].phase = "pull" => Has(c) /\ First(c) = "done"
            /\ call[c].phase \notin {"push", "pull"} => call[c].copier = "eof"
            /\ call[c].phase = "pm" => call[c].got = <<"success">>
  BY DEF Departs
<1>2. serv'[c] = serv[c] /\ conn' = conn
  BY DEF Departs
<1>3. stream'[c].down = s.down
  BY <1>1, LeaveIs
<1>4. /\ call[c].pc \in {"open", "opening", "write", "written", "reply"}
      /\ At(c, "open") => conn = "down"
  BY <1>1 DEF OnStream, At
<1> QED BY <1>1, <1>2, <1>3, <1>4, LeaveIs

----------------------------------------------------------------------------
(* The steps of the caller itself.                                         *)
LEMMA DepartsKeepsAttached ==
  ASSUME TypeOK, NEW c \in Callers, Follows(c), Departs(c)
  PROVE  Attached(c)'
<1>1. task'[c] = task[c] /\ task[c] \in {"shell", "push", "pull", "install", "idle"}
  BY DEF Departs, given, TypeOK
<1> QED BY <1>1, DepartsIs DEF Follows, Attached, OnStream, At

LEMMA DepartsKeepsPush ==
  ASSUME TypeOK, NEW c \in Callers, Follows(c), Departs(c)
  PROVE  PushFollows(c)'
<1>1. Has(c) /\ First(c) = "okay" => \E i \in 1 .. Len(stream[c].down) : stream[c].down[i] = "okay"
  <2>1. Has(c) => 1 \in 1 .. Len(stream[c].down) /\ First(c) = stream[c].down[1]
    BY RestIs
  <2> QED BY <2>1
<1>2. At(c, "reply") /\ call[c].phase = "push" => serv[c].name = "push"
  BY DEF Follows, Attached, At, OnStream
<1>3. serv'[c].name = "push" =>
        /\ serv'[c].count <= Chunks + 2
        /\ stream'[c].put = "sent" => serv'[c].count < Chunks + 2
        /\ \A i \in 1 .. Len(stream'[c].down) : stream'[c].down[i] = "okay" => serv'[c].count = Chunks + 2
  <2>1. serv[c].name = "push" =>
          /\ serv[c].count <= Chunks + 2
          /\ stream[c].put = "sent" => serv[c].count < Chunks + 2
          /\ \A i \in 1 .. Len(stream[c].down) : stream[c].down[i] = "okay" => serv[c].count = Chunks + 2
    BY DEF Follows, PushFollows
  <2>2. /\ serv'[c] = serv[c] /\ stream'[c].put = stream[c].put
        /\ \A i \in 1 .. Len(stream'[c].down) :
             \E j \in 1 .. Len(stream[c].down) : stream'[c].down[i] = stream[c].down[j]
    BY DepartsIs
  <2> QED BY <2>1, <2>2
<1>4. /\ call'[c].phase = "push" => /\ call'[c].pc = "returned" /\ serv'[c] = serv[c]
                                    /\ call'[c].result = "ok" => serv[c].name = "push" /\ serv[c].count = Chunks + 2
      /\ call'[c].phase = "pm" => serv'[c] = serv[c] /\ serv[c].name = "push" /\ serv[c].count = Chunks + 2
  BY <1>1, <1>2, DepartsIs DEF Follows, PushFollows, At
<1> QED BY <1>3, <1>4 DEF PushFollows, At

LEMMA DepartsKeepsPull ==
  ASSUME TypeOK, NEW c \in Callers, Follows(c), Departs(c)
  PROVE  FileFollows(c)' /\ PullFollows(c)'
<1>1. Has(c) => 1 \in 1 .. Len(stream[c].down) /\ First(c) = stream[c].down[1]
  BY RestIs
<1>2. /\ Len(call[c].got) \in Nat /\ Chunks \in Nat
  BY ClientAssumption DEF TypeOK, Calls
<1>3. OnStream(c) /\ call[c].phase = "pull" /\ Has(c) /\ First(c) = "done" => Len(call[c].got) = Chunks
  BY <1>1, <1>2 DEF Follows, PullFollows, DoneAfterAll
<1>4. call'[c].phase = "pull" =>
        /\ call'[c].pc = "closeFile" /\ call'[c].file = "there"
        /\ call'[c].result \in {"ok", "closeErr"} => Len(call'[c].got) = Chunks
  BY <1>3, DepartsIs DEF Follows, FileFollows, OnStream, At
<1> QED BY <1>4 DEF FileFollows, PullFollows, OnStream, At

LEMMA DepartsKeepsShell ==
  ASSUME TypeOK, NEW c \in Callers, Follows(c), Departs(c)
  PROVE  ShellFollows(c)'
BY DepartsIs DEF Follows, ShellFollows, OnStream, At

LEMMA DepartsKeepsUpload ==
  ASSUME TypeOK, NEW c \in Callers, Follows(c), Departs(c)
  PROVE  UploadFollows(c)'
<1>1. task' = task /\ path' = path /\ remote' = remote /\ AloneOnPath(c)' = AloneOnPath(c)
  BY DEF Departs, given, AloneOnPath
<1>2. At(c, "reply") /\ call[c].phase = "push" => serv[c].name = "push"
  BY DEF Follows, Attached, OnStream, At
<1>3. Has(c) => 1 \in 1 .. Len(stream[c].down) /\ First(c) = stream[c].down[1]
  BY RestIs
<1> QED BY <1>1, <1>2, <1>3, DepartsIs DEF Follows, UploadFollows, PushFollows

LEMMA DepartsKeepsInstall ==
  ASSUME TypeOK, NEW c \in Callers, Follows(c), Departs(c)
  PROVE  InstallFollows(c)'
<1>1. task' = task /\ path' = path /\ installed' = installed /\ AloneOnPath(c)' = AloneOnPath(c)
  BY DEF Departs, given, AloneOnPath
<1>2. call[c].got = <<"success">> => 1 \in 1 .. Len(call[c].got) /\ call[c].got[1] = "success"
  OBVIOUS
<1>3. call'[c].phase = "push" => call'[c].got = <<>>
  BY DepartsIs DEF Follows, InstallFollows
<1>4. task[c] = "install" => call[c].phase \in {"push", "pm", "rm"}
  BY DEF Follows, Attached
<1>5. task[c] = "install" /\ call'[c].phase # "rm" => call'[c].result # "ok"
  BY <1>4, DepartsIs
<1>6. ASSUME AloneOnPath(c), installed[c] # c
      PROVE  /\ serv'[c].name = "pm" => \A i \in 1 .. Len(stream'[c].down) : stream'[c].down[i] # "success"
             /\ call'[c].phase = "pm" => \A i \in 1 .. Len(call'[c].got) : call'[c].got[i] # "success"
             /\ task[c] = "install" => call'[c].result # "ok"
  <2>1. serv'[c].name = "pm" => \A i \in 1 .. Len(stream'[c].down) : stream'[c].down[i] # "success"
    BY <1>6, DepartsIs DEF Follows, InstallFollows
  <2>2. call'[c].phase = "pm" => call'[c].got = <<>>
    BY <1>4, DepartsIs DEF Follows, InstallFollows
  <2>3. task[c] = "install" => call'[c].result # "ok"
    BY <1>2, <1>4, <1>6, DepartsIs DEF Follows, InstallFollows
  <2> QED BY <2>1, <2>2, <2>3
<1> QED BY <1>1, <1>3, <1>5, <1>6 DEF InstallFollows

LEMMA DepartsKeepsRemoval ==
  ASSUME TypeOK, NEW c \in Callers, Follows(c), Departs(c)
  PROVE  RemovalFollows(c)'
<1>1. path' = path /\ remote' = remote
  BY DEF Departs, given
<1> QED BY <1>1, DepartsIs DEF Follows, Attached, RemovalFollows, OnStream, At

LEMMA DepartsKeeps ==
  ASSUME TypeOK, NEW c \in Callers, Follows(c), Departs(c)
  PROVE  Follows(c)'
BY DepartsKeepsAttached, DepartsKeepsPush, DepartsKeepsPull, DepartsKeepsShell, DepartsKeepsUpload,
   DepartsKeepsInstall, DepartsKeepsRemoval DEF Follows

(* What a step of the caller leaves alone that is not on its own side.     *)
CallOnly(c) ==
  /\ task' = task /\ path' = path /\ conn' = conn /\ serv' = serv
  /\ remote' = remote /\ installed' = installed

LEMMA CallOnlyKeeps ==
  ASSUME TypeOK, NEW c \in Callers, Follows(c), CallOnly(c), call'[c].phase = call[c].phase,
         call'[c].result # "ok" \/ call'[c].result = call[c].result,
         call'[c].got = call[c].got \/ call[c].phase # "push",
         stream'[c].down = stream[c].down,
         At(c, "returned")' => ~OnStream(c) /\ call[c].phase # "rm",
         stream'[c].end = stream[c].end
  PROVE  /\ UploadFollows(c)' /\ RemovalFollows(c)'
         /\ call'[c].got = call[c].got => InstallFollows(c)'
<1>1. AloneOnPath(c)' = AloneOnPath(c)
  BY DEF CallOnly, AloneOnPath
<1>2. UploadFollows(c)'
  BY <1>1 DEF CallOnly, Follows, UploadFollows
<1>3. call'[c].got = call[c].got => InstallFollows(c)'
  BY <1>1 DEF CallOnly, Follows, InstallFollows
<1>4. RemovalFollows(c)'
  BY DEF CallOnly, Follows, RemovalFollows
<1> QED BY <1>2, <1>3, <1>4

LEMMA OpenLocalKeeps ==
  ASSUME TypeOK, NEW c \in Callers, Follows(c), OpenLocal(c)
  PROVE  Follows(c)'
<1>1. /\ call \in [Callers -> Calls] /\ call[c].phase \in Phases
      /\ At(c, "local") /\ ~OnStream(c) /\ CallOnly(c) /\ stream' = stream
  BY DEF TypeOK, Calls, OpenLocal, CallOnly, given, OnStream, At
<1>2. /\ call'[c].phase = call[c].phase /\ call'[c].sent = call[c].sent
      /\ call'[c].got = call[c].got /\ call'[c].copier = call[c].copier
      /\ \/ /\ call'[c].pc = "open" /\ call'[c].result = call[c].result
            /\ call'[c].file = IF task[c] = "pull" THEN "there" ELSE "none"
         \/ /\ call'[c].pc = "returned" /\ call'[c].result = "err"
            /\ call'[c].file = call[c].file /\ task[c] # "shell"
  <2>1. CASE call' = [call EXCEPT ![c].pc = "open",
                                   ![c].file = IF task[c] = "pull" THEN "there" ELSE "none"]
    <3> DEFINE f == IF task[c] = "pull" THEN "there" ELSE "none"
    <3>1. call' = [call EXCEPT ![c].pc = "open", ![c].file = f]
      BY <2>1
    <3> HIDE DEF f
    <3>2. /\ call'[c].phase = call[c].phase /\ call'[c].sent = call[c].sent
          /\ call'[c].got = call[c].got /\ call'[c].copier = call[c].copier
          /\ call'[c].pc = "open" /\ call'[c].result = call[c].result /\ call'[c].file = f
      BY <1>1, <3>1 DEF Calls
    <3>3. f = IF task[c] = "pull" THEN "there" ELSE "none"
      BY DEF f
    <3> QED BY <3>2, <3>3
  <2>2. CASE task[c] # "shell" /\ Goto(c, call[c].phase, "returned", "err")
    BY <1>1, <2>2, GotoIs DEF Points, Results
  <2> QED BY <2>1, <2>2 DEF OpenLocal
<1>3. Attached(c)'
  BY <1>1, <1>2 DEF CallOnly, Follows, Attached, OnStream, At
<1>4. PushFollows(c)' /\ PullFollows(c)' /\ ShellFollows(c)'
  BY <1>1, <1>2 DEF CallOnly, Follows, Attached, PushFollows, FileFollows, PullFollows, ShellFollows,
                    OnStream, At
<1>5. FileFollows(c)'
  BY <1>1, <1>2 DEF Follows, Attached, FileFollows, OnStream, At
<1>6. UploadFollows(c)' /\ RemovalFollows(c)' /\ InstallFollows(c)'
  <2>1. call[c].phase \notin {"pm", "rm"}
    BY <1>1 DEF Follows, Attached
  <2> QED BY <1>1, <1>2, <2>1, CallOnlyKeeps DEF At
<1> QED BY <1>3, <1>4, <1>5, <1>6 DEF Follows

LEMMA EmptyIsNothing == OnlyData(<<>>) /\ (\A n : DoneAfterAll(n, <<>>))
BY DEF OnlyData, DoneAfterAll

LEMMA SendOpenKeeps ==
  ASSUME TypeOK, NEW c \in Callers, Follows(c), SendOpen(c)
  PROVE  Follows(c)'
<1>1. CASE conn = "down"
  <2>1. HostLeaves(c, "err") /\ At(c, "open") /\ UNCHANGED <<given, serv, remote, installed, conn, ctxDone>>
    BY <1>1 DEF SendOpen
  <2> QED BY <1>1, <2>1, HostLeavesDeparts, DepartsKeeps
<1>2. CASE conn = "up"
  <2>1. /\ call \in [Callers -> Calls] /\ stream \in [Callers -> Streams] /\ serv \in [Callers -> Services]
        /\ At(c, "open") /\ ~OnStream(c) /\ path' = path /\ task' = task
        /\ remote' = remote /\ installed' = installed /\ conn' = conn
        /\ task[c] \in {"shell", "push", "pull", "install", "idle"}
    BY <1>2 DEF TypeOK, SendOpen, given, OnStream, At
  <2>2. /\ call'[c].phase = call[c].phase /\ call'[c].pc = "opening" /\ call'[c].sent = 0
        /\ call'[c].got = <<>> /\ call'[c].copier = "none"
        /\ call'[c].file = call[c].file /\ call'[c].result = call[c].result
    BY <1>2, <2>1, SendIs DEF SendOpen
  <2>3. /\ stream'[c].put = "none" /\ stream'[c].down = <<>> /\ stream'[c].end = "open"
        /\ serv'[c].name = call[c].phase /\ serv'[c].state = "asked"
        /\ serv'[c].left = 0 /\ serv'[c].count = 0
    BY <1>2, <2>1 DEF SendOpen
  <2>4. AloneOnPath(c)' = AloneOnPath(c)
    BY <2>1 DEF AloneOnPath
  <2>5. Len(<<>>) = 0 /\ Len(stream'[c].down) = 0 /\ Len(call'[c].got) = 0
    BY <2>2, <2>3
  <2>6. Attached(c)'
    BY <1>2, <2>1, <2>2, <2>3 DEF Follows, Attached, OnStream, At
  <2>7. PushFollows(c)'
    BY <2>1, <2>2, <2>3, <2>5, ClientAssumption DEF Follows, PushFollows, At
  <2>8. FileFollows(c)' /\ PullFollows(c)'
    BY <2>1, <2>2, <2>3, <2>5, EmptyIsNothing DEF Follows, FileFollows, PullFollows, OnStream, At
  <2>9. ShellFollows(c)'
    BY <2>1, <2>2, <2>3, <2>5 DEF Follows, ShellFollows, OnStream, At
  <2>10. UploadFollows(c)'
    BY <2>1, <2>2, <2>3, <2>4, ClientAssumption DEF Follows, UploadFollows
  <2>11. InstallFollows(c)'
    BY <2>1, <2>2, <2>3, <2>4, <2>5 DEF Follows, InstallFollows
  <2>12. RemovalFollows(c)'
    BY <1>2, <2>1, <2>2, <2>3 DEF RemovalFollows, At
  <2> QED BY <2>6, <2>7, <2>8, <2>9, <2>10, <2>11, <2>12 DEF Follows
<1> QED BY <1>1, <1>2 DEF SendOpen

LEMMA OpenReturnsKeeps ==
  ASSUME TypeOK, NEW c \in Callers, Follows(c), OpenReturns(c)
  PROVE  Follows(c)'
<1>1. /\ call \in [Callers -> Calls] /\ call[c].phase \in Phases
      /\ At(c, "opening") /\ OnStream(c) /\ CallOnly(c) /\ stream' = stream /\ stream[c].end = "open"
  BY DEF TypeOK, Calls, OpenReturns, CallOnly, given, OnStream, At
<1>2. Requests(c) = 0 <=> call[c].phase \notin {"push", "pull"}
  BY ClientAssumption DEF Requests
<1>3. /\ call'[c].phase = call[c].phase /\ call'[c].sent = call[c].sent
      /\ call'[c].got = call[c].got /\ call'[c].file = call[c].file
      /\ call'[c].result = call[c].result
      /\ IF call[c].phase \in {"push", "pull"}
         THEN call'[c].pc = "write" /\ call'[c].copier = "none"
         ELSE call'[c].pc = "reply" /\ call'[c].copier = "run"
  BY <1>1, <1>2, PcCopierIs DEF OpenReturns, Points, Copiers
<1>4. Attached(c)'
  BY <1>1, <1>3 DEF CallOnly, Follows, Attached, OnStream, At
<1>5. PushFollows(c)'
  BY <1>1, <1>3, ClientAssumption DEF CallOnly, Follows, PushFollows, At
<1>6. FileFollows(c)' /\ PullFollows(c)' /\ ShellFollows(c)'
  BY <1>1, <1>3 DEF CallOnly, Follows, FileFollows, PullFollows, ShellFollows, OnStream, At
<1>7. UploadFollows(c)' /\ RemovalFollows(c)' /\ InstallFollows(c)'
  BY <1>1, <1>3, CallOnlyKeeps DEF At
<1> QED BY <1>4, <1>5, <1>6, <1>7 DEF Follows

LEMMA WriteKeeps ==
  ASSUME TypeOK, NEW c \in Callers, Follows(c), Write(c)
  PROVE  Follows(c)'
<1>1. /\ call \in [Callers -> Calls] /\ stream \in [Callers -> Streams] /\ call[c].phase \in {"push", "pull"}
      /\ At(c, "write") /\ OnStream(c) /\ CallOnly(c) /\ serv[c].name = call[c].phase
  BY DEF TypeOK, Write, CallOnly, given, OnStream, At, Follows, Attached
<1>2. CASE HostLeaves(c, "err")
  <2>1. UNCHANGED <<given, serv, remote, installed, conn, ctxDone>>
    BY DEF Write
  <2> QED BY <1>1, <1>2, <2>1, HostLeavesDeparts, DepartsKeeps
<1>3. CASE call' = [call EXCEPT ![c].pc = "written"] /\ stream' = [stream EXCEPT ![c].put = "sent"]
  <2>1. /\ call'[c].phase = call[c].phase /\ call'[c].sent = call[c].sent
        /\ call'[c].got = call[c].got /\ call'[c].file = call[c].file
        /\ call'[c].result = call[c].result /\ call'[c].copier = call[c].copier
        /\ call'[c].pc = "written"
        /\ stream'[c].put = "sent" /\ stream'[c].down = stream[c].down /\ stream'[c].end = stream[c].end
    BY <1>1, <1>3, PcIs, PutIs DEF Points, Puts
  <2>2. Attached(c)'
    BY <1>1, <2>1 DEF CallOnly, Follows, Attached, OnStream, At
  <2>3. PushFollows(c)'
    <3>1. call[c].sent \in Nat /\ serv[c].count \in Nat /\ Chunks \in Nat
      BY ClientAssumption DEF TypeOK, Calls, Services
    <3> QED BY <1>1, <2>1, <3>1 DEF CallOnly, Follows, PushFollows, At
  <2>4. FileFollows(c)' /\ PullFollows(c)' /\ ShellFollows(c)'
    <3>1. FileFollows(c)' /\ ShellFollows(c)'
      BY <1>1, <2>1 DEF Follows, FileFollows, ShellFollows, OnStream, At
    <3>2. PullFollows(c)'
      BY <1>1, <2>1 DEF CallOnly, Follows, FileFollows, PullFollows, OnStream, At
    <3> QED BY <3>1, <3>2
  <2>5. UploadFollows(c)' /\ RemovalFollows(c)' /\ InstallFollows(c)'
    BY <1>1, <2>1, CallOnlyKeeps DEF At
  <2> QED BY <2>2, <2>3, <2>4, <2>5 DEF Follows
<1> QED BY <1>2, <1>3 DEF Write

LEMMA WriteReturnsKeeps ==
  ASSUME TypeOK, NEW c \in Callers, Follows(c), WriteReturns(c)
  PROVE  Follows(c)'
<1>1. /\ call \in [Callers -> Calls] /\ call[c].phase \in {"push", "pull"}
      /\ At(c, "written") /\ OnStream(c) /\ CallOnly(c) /\ stream' = stream /\ stream[c].put = "acked"
  BY DEF TypeOK, WriteReturns, CallOnly, given, OnStream, At, Follows, Attached
<1>2. call[c].sent \in Nat /\ serv[c].count \in Nat /\ Chunks \in Nat
  BY ClientAssumption DEF TypeOK, Calls, Services
<1>3. /\ call'[c].phase = call[c].phase /\ call'[c].sent = call[c].sent + 1
      /\ call'[c].got = call[c].got /\ call'[c].file = call[c].file
      /\ call'[c].result = call[c].result /\ call'[c].copier = call[c].copier
      /\ call'[c].pc = IF call[c].sent + 1 = Requests(c) THEN "reply" ELSE "write"
  <2> DEFINE p == IF call[c].sent + 1 = Requests(c) THEN "reply" ELSE "write"
             n == call[c].sent + 1
  <2>1. p \in Points /\ n \in Nat /\ call' = [call EXCEPT ![c].sent = n, ![c].pc = p]
    BY <1>2 DEF WriteReturns, RequestAcked, Points
  <2> HIDE DEF p, n
  <2>2. /\ call'[c].phase = call[c].phase /\ call'[c].sent = n
        /\ call'[c].got = call[c].got /\ call'[c].file = call[c].file
        /\ call'[c].result = call[c].result /\ call'[c].copier = call[c].copier
        /\ call'[c].pc = p
    BY <1>1, <2>1 DEF Calls
  <2> QED BY <2>2 DEF p, n
<1>4. Requests(c) = IF call[c].phase = "push" THEN Chunks + 2 ELSE 1
  BY <1>1 DEF Requests
<1>5. Attached(c)'
  BY <1>1, <1>3 DEF CallOnly, Follows, Attached, OnStream, At
<1>6. PushFollows(c)'
  BY <1>1, <1>2, <1>3, <1>4 DEF CallOnly, Follows, PushFollows, At
<1>7. FileFollows(c)' /\ PullFollows(c)' /\ ShellFollows(c)'
  <2>1. call[c].phase = "pull" => call'[c].pc = "reply"
    BY <1>1, <1>3, <1>4 DEF Follows, PullFollows, At
  <2>2. PullFollows(c)'
    BY <1>1, <1>3, <2>1 DEF CallOnly, Follows, FileFollows, PullFollows, OnStream, At
  <2> QED BY <1>1, <1>3, <2>1, <2>2 DEF CallOnly, Follows, FileFollows, ShellFollows, OnStream, At
<1>8. UploadFollows(c)' /\ RemovalFollows(c)' /\ InstallFollows(c)'
  BY <1>1, <1>3, CallOnlyKeeps DEF At
<1> QED BY <1>5, <1>6, <1>7, <1>8 DEF Follows

LEMMA RestKeepsData ==
  ASSUME TypeOK, NEW c \in Callers, Has(c), NEW n \in Nat
  PROVE  /\ OnlyData(stream[c].down) => OnlyData(Rest(c).down)
         /\ DoneAfterAll(n, stream[c].down) => DoneAfterAll(n + 1, Rest(c).down)
<1> DEFINE q == stream[c].down  s == Rest(c).down
<1>1. /\ Len(s) = Len(q) - 1 /\ Len(q) \in Nat
      /\ \A i \in 1 .. Len(s) : s[i] = q[i + 1]
  BY RestIs
<1>2. Chunks \in Nat
  BY ClientAssumption
<1> HIDE DEF q, s
<1>3. \A i \in 1 .. Len(s) : i + 1 \in 1 .. Len(q) /\ s[i] = q[i + 1]
  BY <1>1
<1>4. OnlyData(q) => OnlyData(s)
  BY <1>3 DEF OnlyData
<1>5. ASSUME DoneAfterAll(n, q)
      PROVE  DoneAfterAll(n + 1, s)
  <2>1. SUFFICES ASSUME NEW i \in 1 .. Len(s), s[i] = "done"
                 PROVE  (n + 1) + i = Chunks + 1
    BY DEF DoneAfterAll
  <2>2. i \in Nat /\ n + (i + 1) = Chunks + 1
    BY <1>1, <1>3, <1>5, <2>1 DEF DoneAfterAll
  <2> QED BY <1>2, <2>2
<1> QED BY <1>4, <1>5 DEF q, s

(* A reply moves from the stream to the call.                              *)
LEMMA GotOneIs ==
  ASSUME TypeOK, NEW c \in Callers, Has(c), call' = [call EXCEPT ![c].got = Append(@, First(c))],
         stream' = [stream EXCEPT ![c] = Rest(c)]
  PROVE  /\ call'[c].pc = call[c].pc /\ call'[c].phase = call[c].phase
         /\ call'[c].sent = call[c].sent /\ call'[c].copier = call[c].copier
         /\ call'[c].file = call[c].file /\ call'[c].result = call[c].result
         /\ Len(call'[c].got) = Len(call[c].got) + 1 /\ Len(call[c].got) \in Nat
         /\ \A i \in 1 .. Len(call'[c].got) :
              call'[c].got[i] = IF i <= Len(call[c].got) THEN call[c].got[i] ELSE stream[c].down[1]
         /\ stream'[c] = Rest(c)
<1> DEFINE g == Append(call[c].got, First(c))
<1>1. /\ call \in [Callers -> Calls] /\ stream \in [Callers -> Streams]
      /\ call[c].got \in Seq(Messages) /\ First(c) \in Messages /\ First(c) = stream[c].down[1]
  BY RestIs DEF TypeOK, Calls
<1>2. /\ g \in Seq(Messages) /\ Len(g) = Len(call[c].got) + 1 /\ Len(call[c].got) \in Nat
      /\ \A i \in 1 .. Len(g) :
           g[i] = IF i <= Len(call[c].got) THEN call[c].got[i] ELSE stream[c].down[1]
  BY <1>1, AppendIs
<1>3. call' = [call EXCEPT ![c].got = g]
  OBVIOUS
<1> HIDE DEF g
<1>4. /\ call'[c].pc = call[c].pc /\ call'[c].phase = call[c].phase
      /\ call'[c].sent = call[c].sent /\ call'[c].copier = call[c].copier
      /\ call'[c].file = call[c].file /\ call'[c].result = call[c].result
      /\ call'[c].got = g
  BY <1>1, <1>3 DEF Calls
<1>5. stream'[c] = Rest(c)
  BY <1>1
<1> QED BY <1>2, <1>4, <1>5

LEMMA PullMessageKeeps ==
  ASSUME TypeOK, NEW c \in Callers, Follows(c), PullMessage(c)
  PROVE  Follows(c)'
<1>1. /\ At(c, "reply") /\ call[c].phase = "pull" /\ Has(c)
      /\ UNCHANGED <<given, serv, remote, installed, conn, ctxDone>>
  BY DEF PullMessage
<1>2. ASSUME NEW r \in {"ok", "err"}, Leave(c, Rest(c), r), r = "ok" => First(c) = "done"
      PROVE  Follows(c)'
  BY <1>1, <1>2, RestDeparts, DepartsKeeps
<1>3. CASE /\ First(c) = "data"
           /\ call' = [call EXCEPT ![c].got = Append(@, First(c))]
           /\ stream' = [stream EXCEPT ![c] = Rest(c)]
  <2>1. /\ call'[c].pc = "reply" /\ call'[c].phase = "pull"
        /\ call'[c].sent = call[c].sent /\ call'[c].copier = call[c].copier
        /\ call'[c].file = call[c].file /\ call'[c].result = call[c].result
        /\ Len(call'[c].got) = Len(call[c].got) + 1 /\ Len(call[c].got) \in Nat
        /\ stream'[c] = Rest(c)
    BY <1>1, <1>3, GotOneIs DEF At
  <2>2. /\ Rest(c).put = stream[c].put /\ Rest(c).end = stream[c].end
        /\ Len(Rest(c).down) = Len(stream[c].down) - 1 /\ Len(stream[c].down) \in Nat
        /\ \A i \in 1 .. Len(Rest(c).down) : Rest(c).down[i] = stream[c].down[i + 1]
    BY <1>1, RestIs
  <2>3. OnStream(c) /\ OnStream(c)' /\ CallOnly(c) /\ serv[c].name = "pull"
    BY <1>1, <2>1 DEF OnStream, At, CallOnly, given, Follows, Attached
  <2>4. Attached(c)'
    BY <1>1, <2>1, <2>2, <2>3 DEF CallOnly, Follows, Attached, At
  <2>5. PushFollows(c)' /\ ShellFollows(c)' /\ FileFollows(c)'
    BY <1>1, <2>1, <2>3 DEF CallOnly, Follows, PushFollows, ShellFollows, FileFollows, OnStream, At
  <2>6. PullFollows(c)'
    <3>1. /\ serv[c].left \in Nat /\ serv[c].count \in Nat
      BY DEF TypeOK, Services
    <3>2. stream[c].down # <<>>
      BY <1>1 DEF Has
    <3>3. /\ OnlyData(stream[c].down) => OnlyData(stream'[c].down)
          /\ DoneAfterAll(Len(call[c].got), stream[c].down) => DoneAfterAll(Len(call'[c].got), stream'[c].down)
      BY <1>1, <2>1, RestKeepsData
    <3>4. call[c].result = "none"
      BY <1>1, <2>3 DEF Follows, FileFollows
    <3>5. Len(call'[c].got) + Len(stream'[c].down) = Len(call[c].got) + Len(stream[c].down)
      <4> DEFINE g == Len(call[c].got)  n == Len(stream[c].down)
      <4>1. g \in Nat /\ n \in Nat /\ Len(call'[c].got) = g + 1 /\ Len(stream'[c].down) = n - 1
        BY <2>1, <2>2
      <4> HIDE DEF g, n
      <4>2. Len(call'[c].got) + Len(stream'[c].down) = g + n
        BY <4>1
      <4> QED BY <4>2 DEF g, n
    <3>6. /\ stream[c].put = "acked"
          /\ serv[c].left > 0 =>
               /\ serv[c].left + serv[c].count = Chunks + 1
               /\ stream[c].end = "open" => Len(call[c].got) + Len(stream[c].down) = serv[c].count
               /\ OnlyData(stream[c].down)
          /\ DoneAfterAll(Len(call[c].got), stream[c].down)
      BY <1>1, <2>3 DEF Follows, PullFollows
    <3>7. /\ stream'[c].put = "acked" /\ stream'[c].end = stream[c].end /\ serv'[c] = serv[c]
          /\ call'[c].pc = "reply" /\ call'[c].result = "none"
      BY <2>1, <2>2, <2>3, <3>4, <3>6 DEF CallOnly
    <3> QED BY <3>3, <3>5, <3>6, <3>7 DEF PullFollows, At
  <2>7. UploadFollows(c)'
    BY <1>1, <2>1, <2>3 DEF CallOnly, Follows, UploadFollows, AloneOnPath
  <2>8. InstallFollows(c)' /\ RemovalFollows(c)'
    BY <1>1, <2>1, <2>3 DEF CallOnly, Follows, Attached, InstallFollows, RemovalFollows, AloneOnPath, At
  <2> QED BY <2>4, <2>5, <2>6, <2>7, <2>8 DEF Follows
<1> QED BY <1>2, <1>3 DEF PullMessage

LEMMA CloseFileKeeps ==
  ASSUME TypeOK, NEW c \in Callers, Follows(c), CloseFile(c)
  PROVE  Follows(c)'
<1>1. /\ call \in [Callers -> Calls] /\ call[c].phase = "pull"
      /\ At(c, "closeFile") /\ ~OnStream(c) /\ CallOnly(c) /\ stream' = stream
  BY DEF TypeOK, CloseFile, CallOnly, given, OnStream, At, Follows, Attached
<1>2. /\ call'[c].phase = "pull" /\ call'[c].pc = "returned" /\ call'[c].sent = call[c].sent
      /\ call'[c].got = call[c].got /\ call'[c].copier = call[c].copier
      /\ \/ /\ call[c].result = "ok" /\ call'[c].result \in {"ok", "closeErr"}
            /\ call'[c].file = call[c].file
         \/ /\ call[c].result = "err" /\ call'[c].result = "err"
            /\ call'[c].file \in {"none", "left"}
  <2>1. ASSUME NEW r \in {"ok", "closeErr"}, Goto(c, "pull", "returned", r)
        PROVE  /\ call'[c].phase = "pull" /\ call'[c].pc = "returned" /\ call'[c].sent = call[c].sent
               /\ call'[c].got = call[c].got /\ call'[c].copier = call[c].copier
               /\ call'[c].result = r /\ call'[c].file = call[c].file
    BY <1>1, <2>1, GotoIs DEF Points, Results, Phases
  <2>2. ASSUME NEW f \in {"none", "left"},
               call' = [call EXCEPT ![c].pc = "returned", ![c].file = f]
        PROVE  /\ call'[c].phase = "pull" /\ call'[c].pc = "returned" /\ call'[c].sent = call[c].sent
               /\ call'[c].got = call[c].got /\ call'[c].copier = call[c].copier
               /\ call'[c].result = call[c].result /\ call'[c].file = f
    BY <1>1, <2>2, PcFileIs DEF Points, LocalFiles
  <2> QED BY <2>1, <2>2 DEF CloseFile
<1>3. Attached(c)'
  BY <1>1, <1>2 DEF CallOnly, Follows, Attached, OnStream, At
<1>4. PushFollows(c)' /\ ShellFollows(c)' /\ PullFollows(c)'
  BY <1>1, <1>2 DEF CallOnly, Follows, PushFollows, PullFollows, ShellFollows, OnStream, At
<1>5. FileFollows(c)'
  BY <1>1, <1>2 DEF Follows, FileFollows, OnStream, At
<1>6. UploadFollows(c)' /\ RemovalFollows(c)' /\ InstallFollows(c)'
  BY <1>1, <1>2, CallOnlyKeeps DEF At
<1> QED BY <1>3, <1>4, <1>5, <1>6 DEF Follows

LEMMA CopyKeeps ==
  ASSUME TypeOK, NEW c \in Callers, Follows(c), Copy(c)
  PROVE  Follows(c)'
<1>1. /\ call[c].copier = "run" /\ call[c].phase \notin {"push", "pull"} /\ CallOnly(c)
      /\ call \in [Callers -> Calls] /\ call[c].pc # "opening"
  BY DEF Copy, CopyUntil, CallOnly, given, Follows, Attached, At, TypeOK
<1>2. CASE /\ Has(c) /\ call' = [call EXCEPT ![c].got = Append(@, First(c))]
           /\ stream' = [stream EXCEPT ![c] = Rest(c)]
  <2>1. /\ call'[c].pc = call[c].pc /\ call'[c].phase = call[c].phase
        /\ call'[c].sent = call[c].sent /\ call'[c].copier = call[c].copier
        /\ call'[c].file = call[c].file /\ call'[c].result = call[c].result
        /\ Len(call'[c].got) = Len(call[c].got) + 1 /\ Len(call[c].got) \in Nat
        /\ \A i \in 1 .. Len(call'[c].got) :
             call'[c].got[i] = IF i <= Len(call[c].got) THEN call[c].got[i] ELSE stream[c].down[1]
        /\ stream'[c] = Rest(c)
    BY <1>2, GotOneIs
  <2>2. /\ Rest(c).put = stream[c].put /\ Rest(c).end = stream[c].end
        /\ Len(Rest(c).down) = Len(stream[c].down) - 1 /\ Len(stream[c].down) \in Nat \ {0}
        /\ \A i \in 1 .. Len(Rest(c).down) : Rest(c).down[i] = stream[c].down[i + 1]
    BY <1>2, RestIs
  <2>3. Attached(c)'
    BY <1>1, <2>1, <2>2 DEF CallOnly, Follows, Attached, OnStream, At
  <2>4. PushFollows(c)'
    <3>1. \A i \in 1 .. Len(stream'[c].down) :
            i + 1 \in 1 .. Len(stream[c].down) /\ stream'[c].down[i] = stream[c].down[i + 1]
      BY <2>1, <2>2
    <3> QED BY <1>1, <2>1, <2>2, <3>1 DEF CallOnly, Follows, PushFollows, At
  <2>5. FileFollows(c)' /\ PullFollows(c)'
    BY <1>1, <2>1 DEF FileFollows, PullFollows
  <2>6. ShellFollows(c)'
    <3>1. serv[c].count \in Nat
      BY DEF TypeOK, Services
    <3>2. Len(call'[c].got) + Len(stream'[c].down) = Len(call[c].got) + Len(stream[c].down)
      <4> DEFINE g == Len(call[c].got)  n == Len(stream[c].down)
      <4>1. g \in Nat /\ n \in Nat /\ Len(call'[c].got) = g + 1 /\ Len(stream'[c].down) = n - 1
        BY <2>1, <2>2
      <4> HIDE DEF g, n
      <4>2. Len(call'[c].got) + Len(stream'[c].down) = g + n
        BY <4>1
      <4> QED BY <4>2 DEF g, n
    <3>3. stream'[c].end = stream[c].end /\ serv'[c] = serv[c] /\ call'[c].copier = "run"
      BY <1>1, <2>1, <2>2 DEF CallOnly
    <3> QED BY <1>1, <2>1, <3>1, <3>2, <3>3 DEF Follows, ShellFollows, OnStream, At
  <2>7. UploadFollows(c)' /\ RemovalFollows(c)'
    BY <1>1, <2>1, <2>2 DEF CallOnly, Follows, UploadFollows, RemovalFollows, AloneOnPath, At
  <2>8. InstallFollows(c)'
    <3>1. call[c].phase = "pm" => serv[c].name = "pm"
      BY <1>1 DEF Follows, Attached, At
    <3>2. \A i \in 1 .. Len(stream'[c].down) :
            i + 1 \in 1 .. Len(stream[c].down) /\ stream'[c].down[i] = stream[c].down[i + 1]
      BY <2>1, <2>2
    <3>3. \A i \in 1 .. Len(call'[c].got) :
            \/ i \in 1 .. Len(call[c].got) /\ call'[c].got[i] = call[c].got[i]
            \/ 1 \in 1 .. Len(stream[c].down) /\ call'[c].got[i] = stream[c].down[1]
      BY <2>1, <2>2
    <3>4. /\ AloneOnPath(c)' = AloneOnPath(c) /\ task' = task /\ serv' = serv /\ installed' = installed
          /\ call'[c].phase = call[c].phase /\ call'[c].result = call[c].result
      BY <1>1, <2>1 DEF CallOnly, AloneOnPath
    <3> QED BY <1>1, <3>1, <3>2, <3>3, <3>4 DEF Follows, InstallFollows
  <2> QED BY <2>3, <2>4, <2>5, <2>6, <2>7, <2>8 DEF Follows
<1>3. CASE /\ ~Has(c) /\ stream[c].end # "open" /\ stream' = stream
           /\ call' = [call EXCEPT ![c].copier = IF stream[c].end \in {"conn"} THEN "err" ELSE "eof"]
  <2>1. /\ call'[c].pc = call[c].pc /\ call'[c].phase = call[c].phase
        /\ call'[c].sent = call[c].sent /\ call'[c].got = call[c].got
        /\ call'[c].file = call[c].file /\ call'[c].result = call[c].result
        /\ call'[c].copier = IF stream[c].end = "conn" THEN "err" ELSE "eof"
    BY <1>1, <1>3, CopierIs DEF Copiers
  <2>2. Len(stream[c].down) = 0
    BY <1>3 DEF Has
  <2>3. Attached(c)'
    BY <1>1, <1>3, <2>1 DEF CallOnly, Follows, Attached, OnStream, At
  <2>4. PushFollows(c)' /\ FileFollows(c)' /\ PullFollows(c)'
    BY <1>1, <1>3, <2>1 DEF CallOnly, Follows, PushFollows, FileFollows, PullFollows, At
  <2>5. ShellFollows(c)'
    <3>1. serv[c].count \in Nat /\ Len(call[c].got) \in Nat
      BY DEF TypeOK, Services, Calls
    <3>2. At(c, "reply") => stream[c].end \in {"remote", "conn"} /\ OnStream(c)
      BY <1>3 DEF Follows, Attached, OnStream, At
    <3> QED BY <1>1, <1>3, <2>1, <2>2, <3>1, <3>2 DEF CallOnly, Follows, ShellFollows, OnStream, At
  <2>6. UploadFollows(c)' /\ RemovalFollows(c)'
    BY <1>1, <1>3, <2>1 DEF CallOnly, Follows, UploadFollows, RemovalFollows, AloneOnPath, At
  <2>7. InstallFollows(c)'
    BY <1>1, <1>3, <2>1 DEF CallOnly, Follows, InstallFollows, AloneOnPath
  <2> QED BY <2>3, <2>4, <2>5, <2>6, <2>7 DEF Follows
<1> QED BY <1>2, <1>3 DEF Copy, CopyUntil

----------------------------------------------------------------------------
(* The steps of the service of the caller.                                 *)
(* What a service can do to the file of its caller and must not.           *)
LEMMA GivesUpIs ==
  ASSUME TypeOK, NEW c \in Callers, GivesUpUpload(c)
  PROVE  /\ remote'[path[c]] # remote[path[c]] => serv[c].name = "push" /\ serv[c].count < Chunks + 2
         /\ remote[path[c]].owner # c => remote'[path[c]].owner # c
<1>1. path[c] \in Paths /\ remote \in [Paths -> Files] /\ NoFile.owner = "none" /\ "none" # c
  BY ClientAssumption DEF TypeOK, NoFile
<1> QED BY <1>1 DEF GivesUpUpload

LEMMA StartsKeeps ==
  ASSUME TypeOK, NEW c \in Callers, Follows(c), DeviceStarts(c)
  PROVE  Follows(c)'
<1>1. /\ serv \in [Callers -> Services] /\ stream \in [Callers -> Streams]
      /\ conn = "up" /\ serv[c].state = "asked" /\ serv[c].count = 0 /\ serv[c].left = 0
      /\ call' = call /\ task' = task /\ path' = path /\ conn' = conn
      /\ remote' = remote /\ installed' = installed /\ AloneOnPath(c)' = AloneOnPath(c)
      /\ OnStream(c)' = OnStream(c)
  BY DEF TypeOK, DeviceStarts, host, given, Follows, Attached, AloneOnPath, OnStream
<1>2. ASSUME NEW n \in Nat, serv' = [serv EXCEPT ![c].state = "on", ![c].left = n], stream' = stream,
             serv[c].name = "rm" => n = 1, serv[c].name = "pull" => n = 0
      PROVE  Follows(c)'
  <2>1. /\ serv'[c].name = serv[c].name /\ serv'[c].state = "on" /\ serv'[c].left = n
        /\ serv'[c].count = 0
    BY <1>1, <1>2, StateLeftIs DEF States
  <2>2. Attached(c)' /\ PushFollows(c)' /\ FileFollows(c)'
    BY <1>1, <1>2, <2>1 DEF Follows, Attached, PushFollows, FileFollows, At
  <2>3. PullFollows(c)' /\ ShellFollows(c)'
    <3>1. call[c].phase = "pull" /\ OnStream(c) => serv'[c].left = 0 /\ ~(serv'[c].left > 0)
      BY <1>2, <2>1 DEF Follows, Attached
    <3>2. PullFollows(c)'
      BY <1>1, <1>2, <2>1, <3>1 DEF Follows, PullFollows, At
    <3> QED BY <1>1, <1>2, <2>1, <3>2 DEF Follows, ShellFollows, At
  <2>4. UploadFollows(c)' /\ InstallFollows(c)' /\ RemovalFollows(c)'
    BY <1>1, <1>2, <2>1, ClientAssumption DEF Follows, UploadFollows, InstallFollows, RemovalFollows, At
  <2> QED BY <2>2, <2>3, <2>4 DEF Follows
<1>3. CASE /\ serv' = [serv EXCEPT ![c].state = "refused"]
           /\ stream' = [stream EXCEPT ![c].end = IF @ = "open" THEN "remote" ELSE @]
  <2>1. /\ serv'[c].name = serv[c].name /\ serv'[c].state = "refused"
        /\ serv'[c].left = 0 /\ serv'[c].count = 0
    BY <1>1, <1>3, StateIs DEF States
  <2>2. /\ stream'[c].put = stream[c].put /\ stream'[c].down = stream[c].down
        /\ stream'[c].end = IF stream[c].end = "open" THEN "remote" ELSE stream[c].end
    BY <1>1, <1>3 DEF Streams
  <2>3. Attached(c)' /\ PushFollows(c)' /\ FileFollows(c)'
    BY <1>1, <2>1, <2>2 DEF Follows, Attached, PushFollows, FileFollows, At
  <2>4. PullFollows(c)' /\ ShellFollows(c)'
    BY <1>1, <2>1, <2>2 DEF Follows, PullFollows, ShellFollows, At
  <2>5. UploadFollows(c)' /\ InstallFollows(c)' /\ RemovalFollows(c)'
    BY <1>1, <2>1, <2>2, ClientAssumption DEF Follows, Attached, UploadFollows, InstallFollows, RemovalFollows, At
  <2> QED BY <2>3, <2>4, <2>5 DEF Follows
<1>4. ASSUME NEW n \in CASE serv[c].name = "shell" -> 0 .. Chunks
                   [] serv[c].name \in {"pm", "rm"} -> {1}
                   [] OTHER -> {0}
      PROVE  n \in Nat /\ (serv[c].name = "rm" => n = 1) /\ (serv[c].name = "pull" => n = 0)
  BY <1>4, ClientAssumption
<1> QED BY <1>2, <1>3, <1>4 DEF DeviceStarts

LEMMA EndsKeeps ==
  ASSUME TypeOK, NEW c \in Callers, Follows(c), DeviceEnds(c)
  PROVE  Follows(c)'
<1>1. /\ serv \in [Callers -> Services] /\ stream \in [Callers -> Streams]
      /\ conn = "up" /\ serv[c].state \in {"on", "failed"} /\ stream[c].end = "open"
      /\ serv[c].name = "rm" => serv[c].left = 0
      /\ call' = call /\ task' = task /\ path' = path /\ conn' = conn
      /\ installed' = installed /\ AloneOnPath(c)' = AloneOnPath(c)
      /\ OnStream(c)' = OnStream(c) /\ OnStream(c) /\ serv[c].name = call[c].phase
  BY DEF TypeOK, DeviceEnds, Running, host, given, Follows, Attached, AloneOnPath, OnStream
<1>2. /\ serv'[c].name = serv[c].name /\ serv'[c].state = "gone"
      /\ serv'[c].left = serv[c].left /\ serv'[c].count = serv[c].count
      /\ stream'[c].put = stream[c].put /\ stream'[c].down = stream[c].down
      /\ stream'[c].end = "remote"
  BY <1>1, StateIs, EndIs DEF DeviceEnds, States, Ends
<1>3. /\ remote'[path[c]] # remote[path[c]] => serv[c].name = "push" /\ serv[c].count < Chunks + 2
      /\ remote[path[c]].owner # c => remote'[path[c]].owner # c
  BY GivesUpIs DEF DeviceEnds
<1>4. Attached(c)' /\ PushFollows(c)' /\ FileFollows(c)'
  BY <1>1, <1>2 DEF Follows, Attached, PushFollows, FileFollows, At
<1>5. PullFollows(c)' /\ ShellFollows(c)'
  BY <1>1, <1>2 DEF Follows, PullFollows, ShellFollows, At
<1>6. UploadFollows(c)'
  <2>1. Chunks \in Nat /\ serv[c].count \in Nat
    BY ClientAssumption DEF TypeOK, Services
  <2> QED BY <1>1, <1>2, <1>3, <2>1 DEF Follows, UploadFollows
<1>7. InstallFollows(c)' /\ RemovalFollows(c)'
  BY <1>1, <1>2, <1>3 DEF Follows, Attached, InstallFollows, RemovalFollows, OnStream, At
<1> QED BY <1>4, <1>5, <1>6, <1>7 DEF Follows

LEMMA SeesCloseKeeps ==
  ASSUME TypeOK, NEW c \in Callers, Follows(c), DeviceSeesClose(c)
  PROVE  Follows(c)'
<1>1. /\ serv \in [Callers -> Services] /\ serv[c].state \in {"on", "failed"}
      /\ conn = "up" => stream[c].end = "local"
      /\ call' = call /\ task' = task /\ path' = path /\ conn' = conn /\ stream' = stream
      /\ installed' = installed /\ AloneOnPath(c)' = AloneOnPath(c)
      /\ OnStream(c)' = OnStream(c)
  BY DEF TypeOK, DeviceSeesClose, host, given, AloneOnPath, OnStream
<1>2. /\ serv'[c].name = serv[c].name /\ serv'[c].state = "gone"
      /\ serv'[c].left = serv[c].left /\ serv'[c].count = serv[c].count
  BY <1>1, StateIs DEF DeviceSeesClose, States
<1>3. /\ remote'[path[c]] # remote[path[c]] => serv[c].name = "push" /\ serv[c].count < Chunks + 2
      /\ remote[path[c]].owner # c => remote'[path[c]].owner # c
  BY GivesUpIs DEF DeviceSeesClose
<1>4. Attached(c)' /\ PushFollows(c)' /\ FileFollows(c)'
  BY <1>1, <1>2 DEF Follows, Attached, PushFollows, FileFollows, At
<1>5. PullFollows(c)' /\ ShellFollows(c)'
  BY <1>1, <1>2 DEF Follows, PullFollows, ShellFollows, At
<1>6. UploadFollows(c)'
  <2>1. Chunks \in Nat /\ serv[c].count \in Nat
    BY ClientAssumption DEF TypeOK, Services
  <2>2. call[c].phase = "pm" => remote'[path[c]] = remote[path[c]]
    BY <1>3, <2>1 DEF Follows, Attached, PushFollows
  <2> QED BY <1>1, <1>2, <1>3, <2>1, <2>2 DEF Follows, UploadFollows
<1>7. InstallFollows(c)' /\ RemovalFollows(c)'
  BY <1>1, <1>2, <1>3 DEF Follows, Attached, InstallFollows, RemovalFollows, OnStream, At
<1> QED BY <1>4, <1>5, <1>6, <1>7 DEF Follows

LEMMA RemovesKeeps ==
  ASSUME TypeOK, NEW c \in Callers, Follows(c), DeviceRemoves(c)
  PROVE  Follows(c)'
<1>1. /\ serv \in [Callers -> Services] /\ serv[c].name = "rm" /\ call[c].phase = "rm"
      /\ call' = call /\ task' = task /\ path' = path /\ conn' = conn /\ stream' = stream
      /\ installed' = installed /\ AloneOnPath(c)' = AloneOnPath(c)
      /\ OnStream(c)' = OnStream(c)
  BY DEF TypeOK, DeviceRemoves, host, given, AloneOnPath, OnStream, Follows, RemovalFollows
<1>2. /\ serv'[c].name = serv[c].name /\ serv'[c].state = serv[c].state
      /\ serv'[c].left = 0 /\ serv'[c].count = serv[c].count
  BY <1>1, LeftIs DEF DeviceRemoves
<1>3. remote'[path[c]].owner # c
  <2>1. path[c] \in Paths /\ remote \in [Paths -> Files] /\ NoFile.owner = "none"
    BY DEF TypeOK, NoFile
  <2> QED BY <2>1, ClientAssumption DEF DeviceRemoves
<1>4. Attached(c)' /\ PushFollows(c)' /\ FileFollows(c)'
  BY <1>1, <1>2 DEF Follows, Attached, PushFollows, FileFollows, At
<1>5. PullFollows(c)' /\ ShellFollows(c)' /\ UploadFollows(c)'
  BY <1>1, <1>2 DEF PullFollows, ShellFollows, UploadFollows
<1>6. InstallFollows(c)' /\ RemovalFollows(c)'
  BY <1>1, <1>2, <1>3 DEF Follows, InstallFollows, RemovalFollows, At
<1> QED BY <1>4, <1>5, <1>6 DEF Follows

LEMMA RepliesIs ==
  ASSUME TypeOK, NEW c \in Callers, NEW m \in Messages, Replies(c, m)
  PROVE  /\ stream'[c].put = stream[c].put /\ stream'[c].end = stream[c].end
         /\ Len(stream'[c].down) = Len(stream[c].down) + 1 /\ Len(stream[c].down) \in Nat
         /\ stream'[c].down[Len(stream[c].down) + 1] = m
         /\ \A i \in 1 .. Len(stream[c].down) : stream'[c].down[i] = stream[c].down[i]
<1> DEFINE q == Append(stream[c].down, m)
<1>1. stream \in [Callers -> Streams] /\ stream[c].down \in Seq(Messages)
  BY DEF TypeOK, Streams
<1>2. /\ q \in Seq(Messages) /\ Len(q) = Len(stream[c].down) + 1 /\ Len(stream[c].down) \in Nat
      /\ q[Len(stream[c].down) + 1] = m
      /\ \A i \in 1 .. Len(stream[c].down) : q[i] = stream[c].down[i]
  BY <1>1, AppendIs
<1>3. stream' = [stream EXCEPT ![c].down = q]
  BY DEF Replies
<1> HIDE DEF q
<1>4. /\ stream'[c].put = stream[c].put /\ stream'[c].end = stream[c].end /\ stream'[c].down = q
  BY <1>1, <1>3 DEF Streams
<1> QED BY <1>2, <1>4

LEMMA InstallsKeeps ==
  ASSUME TypeOK, NEW c \in Callers, Follows(c), DeviceInstalls(c)
  PROVE  Follows(c)'
<1>1. /\ serv \in [Callers -> Services] /\ stream \in [Callers -> Streams]
      /\ OnStream(c) /\ serv[c].name = "pm" /\ call[c].phase = "pm"
      /\ call' = call /\ task' = task /\ path' = path /\ conn' = conn /\ remote' = remote
      /\ AloneOnPath(c)' = AloneOnPath(c) /\ OnStream(c)' = OnStream(c) /\ stream[c].end = "open"
  BY DEF TypeOK, DeviceInstalls, host, given, AloneOnPath, OnStream, Follows, Attached
<1>2. /\ serv'[c].name = "pm" /\ serv'[c].state = serv[c].state
      /\ serv'[c].left = 0 /\ serv'[c].count = serv[c].count
  BY <1>1, LeftIs DEF DeviceInstalls
<1>3. PICK m \in {"success", "failure"} :
        /\ Replies(c, m)
        /\ IF m = "success" THEN installed' = [installed EXCEPT ![c] = remote[path[c]].owner]
                            ELSE installed' = installed
  BY DEF DeviceInstalls
<1>4. /\ stream'[c].put = stream[c].put /\ stream'[c].end = stream[c].end
      /\ Len(stream'[c].down) = Len(stream[c].down) + 1 /\ Len(stream[c].down) \in Nat
      /\ stream'[c].down[Len(stream[c].down) + 1] = m
      /\ \A i \in 1 .. Len(stream[c].down) : stream'[c].down[i] = stream[c].down[i]
  BY <1>3, RepliesIs DEF Messages
<1>5. Attached(c)' /\ FileFollows(c)'
  BY <1>1, <1>2, <1>4 DEF Follows, Attached, FileFollows, At
<1>6. PushFollows(c)' /\ PullFollows(c)' /\ ShellFollows(c)' /\ RemovalFollows(c)'
  BY <1>1, <1>2, <1>4 DEF Follows, PushFollows, PullFollows, ShellFollows, RemovalFollows, OnStream, At
<1>7. UploadFollows(c)'
  BY <1>1, <1>2 DEF Follows, UploadFollows
<1>8. InstallFollows(c)'
  <2>1. CASE m = "success"
    <3>1. AloneOnPath(c) => remote[path[c]].owner = c
      BY <1>1 DEF Follows, UploadFollows, Upload
    <3>2. AloneOnPath(c) => installed'[c] = c
      BY <1>3, <2>1, <3>1 DEF TypeOK
    <3> QED BY <1>1, <3>2 DEF Follows, InstallFollows
  <2>2. CASE m = "failure"
    <3>1. ASSUME \A i \in 1 .. Len(stream[c].down) : stream[c].down[i] # "success"
          PROVE  \A i \in 1 .. Len(stream'[c].down) : stream'[c].down[i] # "success"
      <4>1. TAKE i \in 1 .. Len(stream'[c].down)
      <4>2. i \in 1 .. Len(stream[c].down) \/ i = Len(stream[c].down) + 1
        BY <1>4
      <4> QED BY <1>4, <2>2, <3>1, <4>2
    <3>2. installed' = installed
      BY <1>3, <2>2
    <3> QED BY <1>1, <1>2, <3>1, <3>2 DEF Follows, InstallFollows
  <2> QED BY <2>1, <2>2
<1> QED BY <1>5, <1>6, <1>7, <1>8 DEF Follows

LEMMA ReplyKeepsData ==
  ASSUME TypeOK, NEW c \in Callers, NEW m \in Messages, Replies(c, m), NEW n \in Nat
  PROVE  /\ OnlyData(stream[c].down) /\ m = "data" => OnlyData(stream'[c].down)
         /\ /\ OnlyData(stream[c].down)
            /\ m = "done" => n + Len(stream[c].down) = Chunks
            => DoneAfterAll(n, stream'[c].down)
<1> DEFINE k == Len(stream[c].down)
<1>1. /\ Len(stream'[c].down) = k + 1 /\ k \in Nat /\ stream'[c].down[k + 1] = m
      /\ \A i \in 1 .. k : stream'[c].down[i] = stream[c].down[i]
  BY RepliesIs
<1>2. Chunks \in Nat
  BY ClientAssumption
<1>3. \A i \in 1 .. Len(stream'[c].down) : i \in 1 .. k \/ i = k + 1
  BY <1>1
<1>4. OnlyData(stream[c].down) => \A i \in 1 .. k : stream'[c].down[i] = "data"
  BY <1>1 DEF OnlyData
<1> HIDE DEF k
<1>5. OnlyData(stream[c].down) /\ m = "data" => OnlyData(stream'[c].down)
  BY <1>1, <1>3, <1>4 DEF OnlyData
<1>6. OnlyData(stream[c].down) /\ (m = "done" => n + k = Chunks) => DoneAfterAll(n, stream'[c].down)
  BY <1>1, <1>2, <1>3, <1>4 DEF DoneAfterAll
<1> QED BY <1>5, <1>6 DEF k

LEMMA OutputsKeeps ==
  ASSUME TypeOK, NEW c \in Callers, Follows(c), DeviceOutputs(c)
  PROVE  Follows(c)'
<1>1. /\ serv \in [Callers -> Services] /\ stream \in [Callers -> Streams]
      /\ OnStream(c) /\ serv[c].name = call[c].phase /\ serv[c].name \in {"shell", "pull"}
      /\ serv[c].left > 0 /\ stream[c].end = "open" /\ serv[c].state \in {"on", "failed"}
      /\ call' = call /\ task' = task /\ path' = path /\ conn' = conn /\ remote' = remote
      /\ installed' = installed /\ AloneOnPath(c)' = AloneOnPath(c) /\ OnStream(c)' = OnStream(c)
  BY DEF TypeOK, DeviceOutputs, Running, host, given, AloneOnPath, OnStream, Follows, Attached
<1>2. /\ serv[c].left \in Nat /\ serv[c].count \in Nat /\ Chunks \in Nat
      /\ Len(call[c].got) \in Nat /\ Len(stream[c].down) \in Nat
  BY ClientAssumption DEF TypeOK, Services, Calls, Streams
<1>3. PICK m \in {"data", "done", "fail", "bad"} :
        /\ Replies(c, m)
        /\ \/ /\ m = "data" /\ (serv[c].name = "shell" \/ serv[c].left > 1)
             /\ serv' = [serv EXCEPT ![c].left = @ - 1, ![c].count = @ + 1]
           \/ /\ m = "done" /\ serv[c].name = "pull" /\ serv[c].left = 1
             /\ serv' = [serv EXCEPT ![c].left = 0]
           \/ /\ m \in {"fail", "bad"} /\ serv[c].name = "pull"
             /\ serv' = [serv EXCEPT ![c].state = "failed", ![c].left = 0]
  BY DEF DeviceOutputs
<1>4. /\ stream'[c].put = stream[c].put /\ stream'[c].end = "open"
      /\ Len(stream'[c].down) = Len(stream[c].down) + 1
  BY <1>1, <1>3, RepliesIs DEF Messages
<1>5. /\ serv'[c].name = serv[c].name
      /\ \/ /\ m = "data" /\ (serv[c].name = "shell" \/ serv[c].left > 1)
            /\ serv'[c].left = serv[c].left - 1 /\ serv'[c].count = serv[c].count + 1
            /\ serv'[c].state = serv[c].state
         \/ /\ m = "done" /\ serv[c].name = "pull" /\ serv[c].left = 1
            /\ serv'[c].left = 0 /\ serv'[c].count = serv[c].count /\ serv'[c].state = serv[c].state
         \/ /\ m \in {"fail", "bad"} /\ serv[c].name = "pull"
            /\ serv'[c].left = 0 /\ serv'[c].count = serv[c].count /\ serv'[c].state = "failed"
  BY <1>1, <1>3 DEF Services
<1>6. Attached(c)' /\ FileFollows(c)'
  BY <1>1, <1>4, <1>5 DEF Follows, Attached, FileFollows, At
<1>7. PushFollows(c)' /\ UploadFollows(c)' /\ InstallFollows(c)' /\ RemovalFollows(c)'
  BY <1>1, <1>4, <1>5 DEF Follows, PushFollows, UploadFollows, InstallFollows, RemovalFollows
<1> DEFINE g == Len(call[c].got)  n == Len(stream[c].down)  l == serv[c].left  k == serv[c].count
           l2 == serv'[c].left  k2 == serv'[c].count  n2 == Len(stream'[c].down)
<1>8. /\ g \in Nat /\ n \in Nat /\ l \in Nat /\ k \in Nat /\ Chunks \in Nat /\ l > 0
      /\ n2 = n + 1 /\ Len(call'[c].got) = g
      /\ \/ m = "data" /\ (serv[c].name = "shell" \/ l > 1) /\ l2 = l - 1 /\ k2 = k + 1
         \/ m = "done" /\ serv[c].name = "pull" /\ l = 1 /\ l2 = 0 /\ k2 = k
         \/ m \in {"fail", "bad"} /\ serv[c].name = "pull" /\ l2 = 0 /\ k2 = k
  BY <1>1, <1>2, <1>4, <1>5
<1>9. ShellFollows(c)'
  <2>1. CASE call[c].phase = "shell"
    <3>1. g + n = k
      BY <1>1, <2>1 DEF Follows, ShellFollows
    <3>2. g + n2 = k2
      <4> HIDE DEF g, n, l, k, l2, k2, n2
      <4> QED BY <1>1, <1>8, <2>1, <3>1
    <3>3. call[c].copier # "eof" /\ call[c].result = "none"
      BY <1>1, <2>1 DEF Follows, Attached, ShellFollows, OnStream, At
    <3> QED BY <1>1, <1>8, <3>2, <3>3 DEF ShellFollows, At
  <2> QED BY <1>1, <2>1 DEF ShellFollows
<1>10. PullFollows(c)'
  <2>1. CASE call[c].phase = "pull"
    <3>0. stream[c].put = "acked"
      BY <1>1, <2>1 DEF Follows, PullFollows
    <3>1. l + k = Chunks + 1 /\ OnlyData(stream[c].down) /\ g + n = k
      BY <1>1, <2>1 DEF Follows, PullFollows
    <3>2. /\ m = "done" => g + n = Chunks
          /\ l2 > 0 => l2 + k2 = Chunks + 1 /\ g + n2 = k2 /\ m = "data"
      <4>1. serv[c].name = "pull" /\ call[c].phase # "shell"
        BY <1>1, <2>1
      <4> HIDE DEF g, n, l, k, l2, k2, n2
      <4>2. CASE m = "data" /\ l2 = l - 1 /\ k2 = k + 1
        BY <1>8, <3>1, <4>2
      <4>3. CASE m = "done" /\ l = 1 /\ l2 = 0 /\ k2 = k
        BY <1>8, <3>1, <4>3
      <4>4. CASE m \in {"fail", "bad"} /\ l2 = 0
        BY <4>4
      <4> QED BY <1>8, <4>2, <4>3, <4>4
    <3>3. DoneAfterAll(g, stream'[c].down)
      BY <1>2, <1>3, <3>1, <3>2, ReplyKeepsData DEF Messages
    <3>4. l2 > 0 => OnlyData(stream'[c].down)
      BY <1>2, <1>3, <3>1, <3>2, ReplyKeepsData DEF Messages
    <3> QED BY <1>1, <1>4, <1>8, <2>1, <3>0, <3>2, <3>3, <3>4 DEF Follows, PullFollows, At
  <2> QED BY <1>1, <2>1 DEF PullFollows
<1> QED BY <1>6, <1>7, <1>9, <1>10 DEF Follows

LEMMA TakesKeeps ==
  ASSUME TypeOK, NEW c \in Callers, Follows(c), DeviceTakes(c)
  PROVE  Follows(c)'
<1>1. /\ serv \in [Callers -> Services] /\ stream \in [Callers -> Streams]
      /\ stream[c].put = "sent" /\ stream[c].end # "remote" /\ serv[c].name \in {"push", "pull"}
      /\ call' = call /\ task' = task /\ path' = path /\ conn' = conn
      /\ installed' = installed /\ AloneOnPath(c)' = AloneOnPath(c) /\ OnStream(c)' = OnStream(c)
  BY DEF TypeOK, DeviceTakes, host, given, AloneOnPath, OnStream, Follows, Attached
<1>2. /\ serv[c].left \in Nat /\ serv[c].count \in Nat /\ Chunks \in Nat
      /\ stream[c].down \in Seq(Messages) /\ Len(stream[c].down) \in Nat
  BY ClientAssumption DEF TypeOK, Services, Streams
<1>3. call[c].phase # "pm" /\ (serv[c].name = "push" => serv[c].count < Chunks + 2)
  BY <1>1, <1>2 DEF Follows, Attached, PushFollows, At
<1>4. CASE Drains(c)
  <2>1. /\ stream'[c].put = "acked" /\ stream'[c].down = stream[c].down
        /\ stream'[c].end = stream[c].end /\ serv' = serv /\ remote' = remote
    BY <1>1, <1>4, PutIs DEF Drains, Puts
  <2>2. Attached(c)' /\ FileFollows(c)'
    BY <1>1, <2>1 DEF Follows, Attached, FileFollows, At
  <2>5. ShellFollows(c)'
    BY <1>1, <2>1 DEF Follows, ShellFollows, At
  <2>3. PushFollows(c)' /\ PullFollows(c)'
    BY <1>1, <2>1 DEF Follows, PushFollows, PullFollows, At
  <2>4. UploadFollows(c)' /\ InstallFollows(c)' /\ RemovalFollows(c)'
    BY <1>1, <2>1 DEF Follows, UploadFollows, InstallFollows, RemovalFollows, At
  <2> QED BY <2>2, <2>3, <2>4, <2>5 DEF Follows
<1>5. CASE TakesPull(c)
  <2>1. /\ stream'[c].put = "acked" /\ stream'[c].down = stream[c].down
        /\ stream'[c].end = stream[c].end /\ remote' = remote /\ serv[c].name = "pull"
        /\ serv'[c].name = "pull" /\ serv'[c].state = serv[c].state
        /\ serv'[c].left = Chunks + 1 /\ serv'[c].count = serv[c].count
    <3>1. /\ stream'[c].put = "acked" /\ stream'[c].down = stream[c].down
          /\ stream'[c].end = stream[c].end
      BY <1>1, <1>5, PutIs DEF TakesPull, Puts
    <3>2. /\ serv'[c].name = serv[c].name /\ serv'[c].state = serv[c].state
          /\ serv'[c].left = Chunks + 1 /\ serv'[c].count = serv[c].count
      BY <1>1, <1>5 DEF TakesPull, Services
    <3> QED BY <1>5, <3>1, <3>2 DEF TakesPull
  <2>2. Attached(c)' /\ FileFollows(c)' /\ ShellFollows(c)' /\ PushFollows(c)'
    <3>1. serv[c].state # "asked"
      BY DEF DeviceTakes, Running
    <3> QED BY <1>1, <2>1, <3>1 DEF Follows, Attached, FileFollows, ShellFollows, PushFollows, At
  <2>3. PullFollows(c)'
    <3>1. CASE call[c].phase = "pull" /\ OnStream(c)
      <4>1. /\ call[c].got = <<>> /\ stream[c].down = <<>> /\ serv[c].count = 0
            /\ DoneAfterAll(Len(call[c].got), stream[c].down)
        BY <1>1, <3>1 DEF Follows, PullFollows
      <4>2. /\ Len(call[c].got) = 0 /\ Len(stream[c].down) = 0 /\ OnlyData(stream[c].down)
        BY <4>1, EmptyIsNothing
      <4> QED BY <1>1, <1>2, <2>1, <3>1, <4>1, <4>2 DEF Follows, PullFollows, At
    <3>2. CASE ~OnStream(c)
      BY <1>1, <2>1, <3>2 DEF Follows, PullFollows, OnStream, At
    <3> QED BY <1>1, <3>1, <3>2 DEF PullFollows
  <2>4. UploadFollows(c)' /\ InstallFollows(c)' /\ RemovalFollows(c)'
    BY <1>1, <1>3, <2>1 DEF Follows, UploadFollows, InstallFollows, RemovalFollows, At
  <2> QED BY <2>2, <2>3, <2>4 DEF Follows
<1>6. CASE Fails(c)
  <2> DEFINE q == Append(stream[c].down, "fail")
  <2>1. /\ q \in Seq(Messages) /\ Len(q) = Len(stream[c].down) + 1
        /\ q[Len(stream[c].down) + 1] = "fail"
        /\ \A i \in 1 .. Len(stream[c].down) : q[i] = stream[c].down[i]
        /\ stream' = [stream EXCEPT ![c].put = "acked", ![c].down = q]
    BY <1>2, <1>6, AppendIs DEF Fails, Messages
  <2>2. stream[c].down = <<>> => DoneAfterAll(Len(call[c].got), q)
    BY <2>1 DEF DoneAfterAll
  <2> HIDE DEF q
  <2>3. /\ stream'[c].put = "acked" /\ stream'[c].down = q
        /\ stream'[c].end = stream[c].end
        /\ serv'[c].name = serv[c].name /\ serv'[c].state = "failed"
        /\ serv'[c].left = 0 /\ serv'[c].count = serv[c].count
    BY <1>1, <1>6, <2>1, PutDownIs, StateLeftIs DEF Fails, Puts, States
  <2>4. \A i \in 1 .. Len(q) : q[i] = "fail" \/ (i \in 1 .. Len(stream[c].down) /\ q[i] = stream[c].down[i])
    BY <1>2, <2>1
  <2>5. /\ remote'[path[c]] # remote[path[c]] => serv[c].name = "push" /\ serv[c].count < Chunks + 2
        /\ remote[path[c]].owner # c => remote'[path[c]].owner # c
    BY <1>6, GivesUpIs DEF Fails
  <2>6. Attached(c)' /\ FileFollows(c)' /\ ShellFollows(c)'
    BY <1>1, <2>3 DEF Follows, Attached, FileFollows, ShellFollows, At
  <2>7. PushFollows(c)'
    BY <1>1, <2>3, <2>4 DEF Follows, PushFollows, At
  <2>8. PullFollows(c)'
    <3>1. CASE call[c].phase = "pull"
      <4>1. /\ call[c].result \in {"ok", "closeErr"} => Len(call[c].got) = Chunks
            /\ call[c].pc \notin {"opening", "write", "reply"}
            /\ At(c, "written") => call[c].sent = 0
            /\ OnStream(c) => stream[c].down = <<>>
        BY <1>1, <3>1 DEF Follows, PullFollows, At
      <4>2. ~(serv'[c].left > 0)
        BY <2>3
      <4> QED BY <1>1, <2>2, <2>3, <3>1, <4>1, <4>2 DEF PullFollows, At
    <3> QED BY <1>1, <3>1 DEF PullFollows
  <2>9. UploadFollows(c)'
    BY <1>1, <1>2, <1>3, <2>3, <2>5 DEF Follows, UploadFollows
  <2>10. InstallFollows(c)' /\ RemovalFollows(c)'
    BY <1>1, <2>3 DEF Follows, InstallFollows, RemovalFollows, At
  <2> QED BY <2>6, <2>7, <2>8, <2>9, <2>10 DEF Follows
<1>7. CASE TakesPush(c) /\ serv[c].state # "failed"
  <2> DEFINE q == IF serv[c].count = Chunks + 1 THEN Append(stream[c].down, "okay") ELSE stream[c].down
             k == serv[c].count
  <2>1. /\ q \in Seq(Messages)
        /\ \A i \in 1 .. Len(q) :
             \/ k = Chunks + 1
             \/ i \in 1 .. Len(stream[c].down) /\ q[i] = stream[c].down[i]
        /\ stream' = [stream EXCEPT ![c].put = "acked", ![c].down = q]
    BY <1>2, <1>7, AppendIs DEF TakesPush, Messages
  <2> HIDE DEF q
  <2>2. /\ stream'[c].put = "acked" /\ stream'[c].down = q /\ stream'[c].end = stream[c].end
    BY <1>1, <2>1, PutDownIs DEF Puts
  <2>3. /\ serv[c].name = "push" /\ serv'[c].name = "push" /\ serv'[c].state = serv[c].state
        /\ serv'[c].left = serv[c].left /\ serv'[c].count = k + 1
    BY <1>1, <1>7 DEF TakesPush, Services
  <2>4. /\ k = 0 => remote'[path[c]] = Upload(c, 0)
        /\ k \in 1 .. Chunks /\ remote[path[c]].owner = c =>
             remote'[path[c]] = Upload(c, remote[path[c]].size + 1)
        /\ k = Chunks + 1 => remote' = remote
    BY <1>7, PushTouches
  <2>5. serv[c].state = "on" /\ task[c] \in {"push", "install"} /\ k < Chunks + 2
    BY <1>3, <1>7, <2>3 DEF DeviceTakes, Running, Follows, Attached
  <2>6. call[c].phase \notin {"shell", "pull", "idle"}
    BY <2>5 DEF Follows, Attached
  <2>7. Attached(c)' /\ FileFollows(c)' /\ ShellFollows(c)' /\ PullFollows(c)'
    BY <1>1, <2>2, <2>3, <2>5, <2>6 DEF Follows, Attached, FileFollows, ShellFollows, PullFollows, At
  <2>8. PushFollows(c)'
    <3>1. \A i \in 1 .. Len(stream[c].down) : stream[c].down[i] # "okay"
      BY <1>2, <2>3, <2>5 DEF Follows, PushFollows
    <3>2. \A i \in 1 .. Len(q) : q[i] = "okay" => k + 1 = Chunks + 2
      BY <1>2, <2>1, <3>1
    <3>3. call[c].phase = "push" => call[c].pc \notin {"opening", "write", "reply"} /\ call[c].result # "ok"
      BY <1>1, <1>2, <2>3, <2>5 DEF Follows, PushFollows, At
    <3>4. call[c].phase = "push" /\ At(c, "written") => k <= call[c].sent /\ call[c].sent < Chunks + 2
      BY <1>1 DEF Follows, PushFollows, At
    <3>5. call[c].sent \in Nat
      BY DEF TypeOK, Calls
    <3>6. k + 1 <= Chunks + 2
      BY <1>2, <2>5
    <3>7. call[c].phase = "push" /\ At(c, "written") => k + 1 <= call[c].sent + 1
      BY <1>2, <3>4, <3>5
    <3> HIDE DEF k
    <3> QED BY <1>1, <1>3, <2>2, <2>3, <3>2, <3>3, <3>4, <3>6, <3>7 DEF PushFollows, At
  <2>9. UploadFollows(c)'
    <3>1. SUFFICES ASSUME AloneOnPath(c)
                   PROVE  remote'[path[c]] = Upload(c, IF k = Chunks + 1 THEN Chunks ELSE k)
      BY <1>1, <1>2, <1>3, <2>3, <2>5 DEF UploadFollows
    <3>2. CASE k = 0
      BY <1>2, <2>4, <3>2, ClientAssumption
    <3>3. CASE k \in 1 .. Chunks
      <4>1. remote[path[c]] = Upload(c, k - 1)
        BY <1>2, <2>3, <2>5, <3>1, <3>3 DEF Follows, UploadFollows
      <4>2. remote[path[c]].owner = c /\ remote[path[c]].size + 1 = k
        BY <1>2, <4>1 DEF Upload
      <4> QED BY <1>2, <2>4, <3>3, <4>2
    <3>4. CASE k = Chunks + 1
      <4>1. remote[path[c]] = Upload(c, Chunks)
        BY <1>2, <2>3, <2>5, <3>1, <3>4 DEF Follows, UploadFollows
      <4> QED BY <2>4, <3>4, <4>1
    <3> QED BY <1>2, <2>5, <3>2, <3>3, <3>4
  <2>10. InstallFollows(c)' /\ RemovalFollows(c)'
    BY <1>1, <1>3, <2>3 DEF Follows, InstallFollows, RemovalFollows, At
  <2> QED BY <2>7, <2>8, <2>9, <2>10 DEF Follows
<1> QED BY <1>4, <1>5, <1>6, <1>7 DEF DeviceTakes

----------------------------------------------------------------------------
(* All the steps together.                                                 *)
LEMMA OwnStepKeeps ==
  ASSUME TypeOK, NEW c \in Callers, Follows(c), CallStep(c) \/ Copy(c) \/ ServiceStep(c)
  PROVE  Follows(c)'
<1>1. CASE CallStep(c)
  <2>1. CASE \/ OpenFails(c) \/ WriteFails(c) \/ ReplyEnds(c) \/ ShellReturns(c) \/ ShellCancelled(c)
             \/ PushReply(c)
    <3>1. Departs(c)
      BY <2>1, DepartingSteps DEF Follows
    <3> QED BY <3>1, DepartsKeeps
  <2>2. CASE OpenLocal(c) \/ SendOpen(c) \/ OpenReturns(c)
    BY <2>2, OpenLocalKeeps, SendOpenKeeps, OpenReturnsKeeps
  <2>3. CASE Write(c) \/ WriteReturns(c) \/ PullMessage(c) \/ CloseFile(c)
    BY <2>3, WriteKeeps, WriteReturnsKeeps, PullMessageKeeps, CloseFileKeeps
  <2> QED BY <1>1, <2>1, <2>2, <2>3 DEF CallStep
<1>2. CASE Copy(c)
  BY <1>2, CopyKeeps
<1>3. CASE ServiceStep(c)
  <2>1. CASE DeviceStarts(c) \/ DeviceTakes(c) \/ DeviceOutputs(c) \/ DeviceInstalls(c)
    BY <2>1, StartsKeeps, TakesKeeps, OutputsKeeps, InstallsKeeps
  <2>2. CASE DeviceRemoves(c) \/ DeviceEnds(c) \/ DeviceSeesClose(c)
    BY <2>2, RemovesKeeps, EndsKeeps, SeesCloseKeeps
  <2> QED BY <1>3, <2>1, <2>2 DEF ServiceStep
<1> QED BY <1>1, <1>2, <1>3

(* A step of one caller leaves the others as they are: what it writes of   *)
(* the device's files is at its own path, and it never makes a file of     *)
(* another caller.                                                         *)
LEMMA OthersKeep ==
  ASSUME TypeOK, NEW c \in Callers, NEW d \in Callers \ {c}, Attached(c), Touches(c), Follows(d)
  PROVE  Follows(d)'
<1>1. /\ call'[d] = call[d] /\ stream'[d] = stream[d] /\ serv'[d] = serv[d]
      /\ installed'[d] = installed[d] /\ task' = task /\ path' = path /\ conn' = conn
      /\ AloneOnPath(d)' = AloneOnPath(d) /\ OnStream(d)' = OnStream(d)
  BY DEF Touches, Same, AloneOnPath, OnStream
<1>2. path[c] \in Paths /\ path[d] \in Paths /\ "none" # d
  BY ClientAssumption DEF TypeOK
<1>3. AloneOnPath(d) => remote'[path[d]] = remote[path[d]]
  <2>1. CASE serv[c].name \in {"push", "rm"}
    <3>1. AloneOnPath(d) => path[c] # path[d]
      BY <2>1 DEF Attached, AloneOnPath
    <3> QED BY <1>2, <3>1 DEF Touches
  <2> QED BY <2>1 DEF Touches
<1>4. remote[path[d]].owner # d => remote'[path[d]].owner # d
  <2>1. CASE path[c] = path[d]
    BY <1>2, <2>1 DEF Touches
  <2>2. CASE path[c] # path[d]
    BY <1>2, <2>2 DEF Touches
  <2> QED BY <2>1, <2>2
<1>5. Attached(d)' /\ PushFollows(d)' /\ FileFollows(d)'
  BY <1>1 DEF Follows, Attached, PushFollows, FileFollows, At
<1>6. PullFollows(d)' /\ ShellFollows(d)'
  BY <1>1 DEF Follows, PullFollows, ShellFollows, At
<1>7. UploadFollows(d)' /\ InstallFollows(d)'
  BY <1>1, <1>3 DEF Follows, UploadFollows, InstallFollows
<1>8. RemovalFollows(d)'
  BY <1>1, <1>4 DEF Follows, RemovalFollows, At
<1> QED BY <1>5, <1>6, <1>7, <1>8 DEF Follows

LEMMA CallerKeeps ==
  ASSUME Invariant, NEW c \in Callers, CallStep(c) \/ Copy(c) \/ ServiceStep(c)
  PROVE  Invariant'
<1>1. TypeOK /\ Follows(c) /\ Attached(c) /\ (\A d \in Callers : Follows(d))
  BY DEF Invariant, Follows
<1>2. Touches(c)
  BY <1>1, CallTouches, ServiceTouches
<1>3. TypeOK'
  BY <1>1, <1>2 DEF TypeOK, Touches
<1>4. Follows(c)'
  BY <1>1, OwnStepKeeps
<1>5. ASSUME NEW d \in Callers
      PROVE  Follows(d)'
  <2>1. CASE d = c
    BY <1>4, <2>1
  <2>2. CASE d # c
    BY <1>1, <1>2, <2>2, OthersKeep
  <2> QED BY <2>1, <2>2
<1> QED BY <1>3, <1>5 DEF Invariant

LEMMA StutterKeeps ==
  ASSUME Invariant, UNCHANGED <<given, call, stream, serv, remote, installed, conn>>,
         ctxDone' \in SUBSET Callers
  PROVE  Invariant'
<1>1. UNCHANGED <<task, path, call, stream, serv, remote, installed, conn>>
  BY DEF given
<1>2. TypeOK'
  BY <1>1 DEF Invariant, TypeOK
<1>3. ASSUME NEW c \in Callers
      PROVE  Follows(c)'
  <2> USE <1>1, <1>3 DEF Invariant, Follows, OnStream, AloneOnPath, At
  <2>1. Attached(c)' /\ PushFollows(c)' /\ FileFollows(c)'
    BY DEF Attached, PushFollows, FileFollows
  <2>2. PullFollows(c)' /\ ShellFollows(c)'
    BY DEF PullFollows, ShellFollows
  <2>3. UploadFollows(c)' /\ InstallFollows(c)' /\ RemovalFollows(c)'
    BY DEF UploadFollows, InstallFollows, RemovalFollows
  <2> QED BY <2>1, <2>2, <2>3
<1> QED BY <1>2, <1>3 DEF Invariant

(* What is left of a stream when the connection breaks.                    *)
LEMMA CutIs ==
  ASSUME NEW s \in Streams, NEW t \in Cut(s)
  PROVE  /\ t \in Streams /\ t.put = s.put
         /\ Len(t.down) \in Nat /\ Len(t.down) <= Len(s.down)
         /\ \A i \in 1 .. Len(t.down) : i \in 1 .. Len(s.down) /\ t.down[i] = s.down[i]
         /\ t.end # "open"
         /\ t = s \/ (t.end = "conn" /\ s.end \in {"open", "remote"})
<1>1. s.down \in Seq(Messages) /\ Len(s.down) \in Nat
  BY DEF Streams
<1>2. CASE t = s /\ s.end # "open"
  BY <1>1, <1>2
<1>3. ASSUME NEW n \in 0 .. Len(s.down), t = [s EXCEPT !.down = SubSeq(@, 1, n), !.end = "conn"],
             s.end \in {"open", "remote"}
      PROVE  /\ t \in Streams /\ t.put = s.put /\ t.end = "conn"
             /\ Len(t.down) \in Nat /\ Len(t.down) <= Len(s.down)
             /\ \A i \in 1 .. Len(t.down) : i \in 1 .. Len(s.down) /\ t.down[i] = s.down[i]
  <2> DEFINE q == SubSeq(s.down, 1, n)
  <2>1. q \in Seq(Messages) /\ Len(q) = n /\ \A i \in 1 .. n : q[i] = s.down[i]
    BY <1>1
  <2>2. t = [s EXCEPT !.down = q, !.end = "conn"]
    BY <1>3
  <2> HIDE DEF q
  <2>3. t.put = s.put /\ t.end = "conn" /\ t.down = q
    BY <2>2 DEF Streams
  <2>4. t \in Streams
    BY <2>1, <2>2 DEF Streams, Ends
  <2>5. n \in Nat /\ n <= Len(s.down)
    BY <1>1
  <2> QED BY <1>1, <2>1, <2>3, <2>4, <2>5
<1>4. s.end \notin {"open", "remote"} => t = s
  BY DEF Cut
<1>5. s.end \in {"open", "remote"} =>
        \/ t = s /\ s.end = "remote"
        \/ \E n \in 0 .. Len(s.down) : t = [s EXCEPT !.down = SubSeq(@, 1, n), !.end = "conn"]
  BY DEF Cut
<1> QED BY <1>2, <1>3, <1>4, <1>5

LEMMA ConnEndsKeeps ==
  ASSUME Invariant, ConnEnds
  PROVE  Invariant'
<1>1. /\ TypeOK /\ (\A c \in Callers : Follows(c)) /\ stream \in [Callers -> Streams]
      /\ UNCHANGED <<task, path, call, serv, remote, installed, ctxDone>> /\ conn' = "down"
      /\ stream' \in [Callers -> UNION {Cut(stream[c]) : c \in Callers}]
      /\ \A c \in Callers : stream'[c] \in Cut(stream[c])
  BY DEF Invariant, ConnEnds, given, TypeOK
<1>2. \A c \in Callers : stream[c] \in Streams /\ stream'[c] \in Streams
  BY <1>1, CutIs
<1>3. stream' \in [Callers -> Streams]
  BY <1>1, <1>2
<1>4. TypeOK'
  BY <1>1, <1>3 DEF TypeOK
<1>5. ASSUME NEW c \in Callers
      PROVE  Follows(c)'
  <2> DEFINE s == stream[c]  t == stream'[c]
  <2>1. /\ t.put = s.put /\ t.end # "open" /\ Len(t.down) \in Nat
        /\ \A i \in 1 .. Len(t.down) : i \in 1 .. Len(s.down) /\ t.down[i] = s.down[i]
        /\ t = s \/ (t.end = "conn" /\ s.end \in {"open", "remote"})
        /\ t.down = <<>> \/ s.down # <<>>
    <3>1. /\ t.put = s.put /\ t.end # "open" /\ Len(t.down) \in Nat /\ Len(t.down) <= Len(s.down)
          /\ \A i \in 1 .. Len(t.down) : i \in 1 .. Len(s.down) /\ t.down[i] = s.down[i]
          /\ t = s \/ (t.end = "conn" /\ s.end \in {"open", "remote"})
      BY <1>1, <1>2, CutIs
    <3>2. s.down = <<>> => t.down = <<>>
      <4>1. t.down \in Seq(Messages) /\ (s.down = <<>> => Len(s.down) = 0)
        BY <1>2 DEF Streams
      <4>2. Len(t.down) = 0 => t.down = <<>>
        BY <4>1
      <4> QED BY <3>1, <4>1, <4>2
    <3> QED BY <3>1, <3>2
  <2>2. /\ OnlyData(s.down) => OnlyData(t.down)
        /\ \A n : DoneAfterAll(n, s.down) => DoneAfterAll(n, t.down)
    BY <2>1 DEF OnlyData, DoneAfterAll
  <2>3. /\ Follows(c) /\ OnStream(c)' = OnStream(c) /\ AloneOnPath(c)' = AloneOnPath(c)
        /\ call' = call /\ serv' = serv /\ task' = task /\ path' = path
        /\ remote' = remote /\ installed' = installed /\ conn' = "down"
    BY <1>1 DEF OnStream, AloneOnPath
  <2>4. Attached(c)' /\ FileFollows(c)'
    BY <2>1, <2>3 DEF Follows, Attached, FileFollows, At
  <2>5. PushFollows(c)'
    BY <2>1, <2>3 DEF Follows, PushFollows, At
  <2>6. PullFollows(c)'
    <3>1. CASE call[c].phase = "pull" /\ OnStream(c)
      <4>1. t.put # "acked" => t.down = <<>>
        BY <2>1, <2>3, <3>1 DEF Follows, PullFollows
      <4>2. /\ serv[c].left > 0 => OnlyData(s.down)
            /\ DoneAfterAll(Len(call[c].got), s.down)
        BY <2>3, <3>1 DEF Follows, PullFollows
      <4> HIDE DEF s, t
      <4>3. /\ serv[c].left > 0 => OnlyData(t.down)
            /\ DoneAfterAll(Len(call[c].got), t.down)
        BY <2>2, <4>2
      <4> QED BY <2>1, <2>3, <3>1, <4>1, <4>3 DEF Follows, PullFollows, At, s, t
    <3>2. CASE ~OnStream(c)
      BY <2>1, <2>3, <3>2 DEF Follows, PullFollows, OnStream, At
    <3> QED BY <2>3, <3>1, <3>2 DEF PullFollows
  <2>7. ShellFollows(c)'
    BY <2>1, <2>3 DEF Follows, ShellFollows, At
  <2>8. UploadFollows(c)' /\ InstallFollows(c)' /\ RemovalFollows(c)'
    BY <2>1, <2>3 DEF Follows, UploadFollows, InstallFollows, RemovalFollows, At
  <2> QED BY <2>4, <2>5, <2>6, <2>7, <2>8 DEF Follows
<1> QED BY <1>4, <1>5 DEF Invariant

LEMMA InitIs ==
  ASSUME Init
  PROVE  Invariant
<1>1. TypeOK
  <2>1. task \in [Callers -> {"shell", "push", "pull", "install", "idle"}]
    BY ClientAssumption DEF Init
  <2>2. ASSUME NEW c \in Callers
        PROVE  [pc |-> IF task[c] = "idle" THEN "returned" ELSE "local", phase |-> FirstPhase(task[c]),
                sent |-> 0, got |-> <<>>, copier |-> "none", file |-> "none", result |-> "none"] \in Calls
    <3>1. FirstPhase(task[c]) \in Phases
      BY <2>1 DEF FirstPhase, Phases
    <3>2. <<>> \in Seq(Messages)
      OBVIOUS
    <3> QED BY <3>1, <3>2 DEF Calls, Points, Copiers, Results, LocalFiles
  <2>3. call \in [Callers -> Calls]
    BY <2>2 DEF Init
  <2>4. [put |-> "none", down |-> <<>>, end |-> "none"] \in Streams
    <3>1. <<>> \in Seq(Messages)
      OBVIOUS
    <3> QED BY <3>1 DEF Streams, Puts, Ends
  <2>5. [name |-> "none", state |-> "none", left |-> 0, count |-> 0] \in Services
    BY DEF Services, States
  <2>6. stream \in [Callers -> Streams] /\ serv \in [Callers -> Services]
    BY <2>4, <2>5 DEF Init
  <2>7. /\ path \in [Callers -> Paths] /\ remote \in [Paths -> Files]
        /\ installed \in [Callers -> Callers \cup {"none"}]
        /\ conn \in {"up", "down"} /\ ctxDone \in SUBSET Callers
    BY DEF Init, NoFile, Files
  <2> QED BY <2>1, <2>3, <2>6, <2>7 DEF TypeOK
<1>2. ASSUME NEW c \in Callers
      PROVE  Follows(c)
  <2>1. /\ call[c].pc = IF task[c] = "idle" THEN "returned" ELSE "local"
        /\ call[c].phase = FirstPhase(task[c]) /\ call[c].sent = 0 /\ call[c].got = <<>>
        /\ call[c].copier = "none" /\ call[c].file = "none" /\ call[c].result = "none"
    BY DEF Init
  <2>2. /\ stream[c].put = "none" /\ stream[c].down = <<>> /\ stream[c].end = "none"
        /\ serv[c].name = "none" /\ serv[c].state = "none" /\ serv[c].left = 0 /\ serv[c].count = 0
        /\ remote[path[c]] = NoFile /\ installed[c] = "none" /\ conn = "up"
    BY DEF Init
  <2>3. task[c] \in {"shell", "push", "pull", "install", "idle"} /\ ~OnStream(c)
    BY <1>1, <2>1 DEF TypeOK, OnStream
  <2>4. Attached(c) /\ FileFollows(c) /\ PullFollows(c)
    BY <2>1, <2>2, <2>3 DEF Attached, FileFollows, PullFollows, FirstPhase, At
  <2>5. ShellFollows(c) /\ PushFollows(c) /\ RemovalFollows(c)
    BY <2>1, <2>2, <2>3 DEF ShellFollows, PushFollows, RemovalFollows, FirstPhase, At
  <2>6. UploadFollows(c) /\ InstallFollows(c)
    BY <2>1, <2>2, <2>3 DEF UploadFollows, InstallFollows, FirstPhase
  <2> QED BY <2>4, <2>5, <2>6 DEF Follows
<1> QED BY <1>1, <1>2 DEF Invariant

(* Every caller's call, stream and service stay together as Follows says,  *)
(* whatever the other callers, adbd and the connection do.                 *)
THEOREM Inductive == Spec => []Invariant
<1>1. Init => Invariant
  BY InitIs
<1>2. Invariant /\ [Next]_vars => Invariant'
  <2>1. SUFFICES ASSUME Invariant, [Next]_vars
                 PROVE  Invariant'
    OBVIOUS
  <2>2. CASE \E c \in Callers : CallStep(c) \/ Copy(c) \/ ServiceStep(c)
    BY <2>1, <2>2, CallerKeeps
  <2>3. CASE \E c \in Callers : CtxEnds(c)
    <3>1. ctxDone \in SUBSET Callers
      BY <2>1 DEF Invariant, TypeOK
    <3> QED BY <2>1, <2>3, <3>1, StutterKeeps, ClientAssumption DEF CtxEnds
  <2>4. CASE ConnEnds
    BY <2>1, <2>4, ConnEndsKeeps
  <2>5. CASE UNCHANGED vars
    BY <2>1, <2>5, StutterKeeps DEF vars, given, Invariant, TypeOK
  <2> QED BY <2>1, <2>2, <2>3, <2>4, <2>5 DEF Next
<1> QED BY <1>1, <1>2, PTL DEF Spec

(* A push that returned nil is stored whole, for every length of file and  *)
(* every order of the device's steps and the other calls: all Chunks + 2   *)
(* requests were carried out, and nobody else wrote the path               *)
(* (sync.go:48-59).                                                        *)
THEOREM PushIsStored == Spec => []PushMeansStored
<1>1. Invariant => PushMeansStored
  <2>1. SUFFICES ASSUME Invariant, NEW c \in Callers,
                        task[c] = "push", Returned(c, "ok"), AloneOnPath(c)
                 PROVE  remote[path[c]] = Upload(c, Chunks)
    BY DEF PushMeansStored
  <2>2. call[c].phase = "push" /\ call[c].result = "ok" /\ Follows(c)
    BY <2>1 DEF Invariant, Follows, Attached, Returned
  <2>3. serv[c].name = "push" /\ serv[c].count = Chunks + 2
    BY <2>2 DEF Follows, PushFollows
  <2> QED BY <2>1, <2>2, <2>3 DEF Follows, UploadFollows
<1> QED BY <1>1, Inductive, PTL

(* A pull that returned nil left a file with every chunk; one that failed  *)
(* left none wherever it failed, unless os.Remove failed too, whose error  *)
(* Pull ignores (sync.go:71-98, client.go:79-85).                          *)
THEOREM PullIsWhole == Spec => []PullIsWholeOrRemoved
<1>1. Invariant => PullIsWholeOrRemoved
  <2>1. SUFFICES ASSUME Invariant, NEW c \in Callers, task[c] = "pull"
                 PROVE  /\ Returned(c, "ok") => call[c].file = "there" /\ Len(call[c].got) = Chunks
                        /\ Returned(c, "err") => call[c].file \in {"none", "left"}
                        /\ Returned(c, "closeErr") => Len(call[c].got) = Chunks
    BY DEF PullIsWholeOrRemoved
  <2>2. call[c].phase = "pull" /\ Follows(c)
    BY <2>1 DEF Invariant, Follows, Attached
  <2> QED BY <2>2 DEF Follows, FileFollows, PullFollows, Returned
<1> QED BY <1>1, Inductive, PTL

(* The output that Shell returns with nil is all of the command's output,  *)
(* and nothing writes to the buffer any more (client.go:33-48).            *)
THEOREM ShellIsWhole == Spec => []ShellIsComplete
<1>1. Invariant => ShellIsComplete
  <2>1. SUFFICES ASSUME Invariant, NEW c \in Callers, task[c] = "shell", Returned(c, "ok")
                 PROVE  Len(call[c].got) = serv[c].count /\ call[c].copier = "eof"
    BY DEF ShellIsComplete
  <2>2. call[c].phase = "shell" /\ call[c].result = "ok" /\ Follows(c)
    BY <2>1 DEF Invariant, Follows, Attached, Returned
  <2> QED BY <2>2 DEF Follows, ShellFollows
<1> QED BY <1>1, Inductive, PTL

(* InstallAPK has removed its upload when it returns, while the connection *)
(* is up and adbd accepts rm: also next to calls with the same path        *)
(* (client.go:99-102).                                                     *)
THEOREM UploadGoes == Spec => []UploadIsRemoved
<1>1. Invariant => UploadIsRemoved
  <2>1. SUFFICES ASSUME Invariant, NEW c \in Callers, At(c, "returned"), call[c].phase = "rm",
                        conn = "up", serv[c].state # "refused"
                 PROVE  remote[path[c]].owner # c
    BY DEF UploadIsRemoved
  <2>2. RemovalFollows(c)
    BY <2>1 DEF Invariant, Follows
  <2>3. serv[c].name = "rm" /\ serv[c].state = "gone" /\ serv[c].left = 0
    BY <2>1, <2>2 DEF RemovalFollows
  <2> QED BY <2>2, <2>3 DEF RemovalFollows
<1> QED BY <1>1, Inductive, PTL

(* An install that returned nil installed the file it uploaded, unless     *)
(* another call uses its path (client.go:98, 122-129).                     *)
THEOREM InstallsOwn == Spec => []InstallsItsOwn
<1>1. Invariant => InstallsItsOwn
  <2>1. SUFFICES ASSUME Invariant, NEW c \in Callers, task[c] = "install", Returned(c, "ok"), AloneOnPath(c)
                 PROVE  installed[c] = c
    BY DEF InstallsItsOwn
  <2>2. InstallFollows(c) /\ call[c].result = "ok"
    BY <2>1 DEF Invariant, Follows, Returned
  <2> QED BY <2>1, <2>2 DEF InstallFollows
<1> QED BY <1>1, Inductive, PTL
=============================================================================
