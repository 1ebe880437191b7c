# pureadb in TLA+

`pureadb` (package `adb`) is an ADB client library in Go: it dials an Android
device's adbd, authenticates, opens many streams over the one connection and
builds shell, file transfer, install and port forwarding on them. It also pairs
with a device (SPAKE2 inside TLS), finds devices over mDNS and draws pairing QR
codes. This directory holds TLA+ modules of its concurrent and stateful parts and of its
algorithms, TLC configurations that check them on small instances, and proofs that
TLAPS checks for every instance. All paths below are relative to the root of the
repository.

## Running

    tlc -config MCConnection_one.cfg MCConnection     # any cfg with its MC module
    tlapm AdbConnectionProofs.tla

`PROJECT.json` lists every run with its cfg, the line of the source that each
definition models, the hazards the properties are for, and for each property a
faulty variant of the code under which TLC finds it violated. The faulty variants
stand in the modules next to the definitions they replace, under a comment that
begins with "Faulty:"; no specification uses them.

## Inventory

| Component | State it keeps | Operations | What makes it hard |
|---|---|---|---|
| Packets (`packet.go`) | none; bytes of a `net.Conn` | `writePacket`, `readPacket` | header and payload are two writes; any failed test ends the connection |
| Handshake (`connection.go:43-164`) | `sentSignature`, `sentPublic`, `c.conn` (plain or TLS), `maxPayload` | `Dial`, `DialWithOptions` | the peer orders the packets; two authentication modes; only a deadline interrupts it |
| Connection (`connection.go:166-274`) | `streams`, `nextID`, `done`, `readErr` | `Open`, `Close`, `send`, goroutine `readLoop` | Open, Stream.Close, Connection.Close and readLoop race on `streams`; one reader serves all streams |
| Stream (`stream.go`) | `remoteID`, `opened`, `ack`, `recv`, `done`, `endErr`, `readBuf` | `Read`, `WriteContext`, `Close`; `handleOkay`, `deliver`, `finish` for readLoop | flow control by one token, bounded queue, several ways to end |
| Client: shell (`client.go:27-49`, `conveniences.go:31-47`) | a `bytes.Buffer` shared by two goroutines | `Shell`, `Exec`, `StartShell` | cancellation while the copier writes |
| Client: file transfer (`sync.go`, `client.go:63-88`) | one stream, one local file | `Push*`, `Pull*` | FAIL in the middle of a push, cancellation in the middle of a pull |
| Client: install, uninstall, packages (`client.go:90-149`) | a file on the device | `InstallAPK`, `Uninstall`, `ListPackages` | failure between upload, `pm install` and `rm`; two installs at once |
| Client: forward (`conveniences.go:49-145`) | listener, wait group, cancel function | `ForwardTCP`, `Close` | accept loop, two copiers per connection, half-closed connections, Close that waits |
| Key store (`key.go`, `conveniences.go:15-29`) | key file | `LoadOrCreateKey`, `SaveKey`, signatures | two processes, crash while writing |
| Discovery (`mdns.go`) | per-query maps of names, addresses and sent endpoints | `Discover`, `waitEndpoint` | packets in any order and repeated, stale addresses, cancellation against a closing channel, compression pointers |
| Pairing (`pairing.go`, `pairing_crypto.go`, `pair_code.go`, `highlevel.go`) | sequence numbers of two ciphers, SPAKE2 state | `Pair`, `PairWiFi`, `PairAndConnect*` | message order, timeouts in sequence |
| SPAKE2 (`spake2.go`) | scalars, transcript | generate, process | scalar arithmetic modulo the group order and the cofactor |
| QR (`qr.go`) | session; matrix of modules | `NewQRPairing`, `Wait*`, encoder | error-correcting code and placement rules |
| Curve (`internal/edwards25519`) | none | field elements in five limbs, scalars in four words, points | carries by hand, loosely reduced values, one formula for each case |
| Helpers (`internal/byteorder`, `binary.go`) | none | loads and stores | nothing |

### How they interact

`Client` holds a `Connection` and opens one `Stream` per request. The application's
goroutines call `Open`, `Read`, `WriteContext` and `Close` directly; `readLoop`,
started by `DialWithOptions`, is the only reader of the socket and hands each packet
to its stream: `handleOkay` closes `opened` or leaves a token in `ack`, `deliver` puts
data into `recv` and then sends the OKAY, `finish` ends the stream. All goroutines
write packets through `send`, under `writeMu`. The locks are `c.mu` (table of streams),
`s.mu` (remote id and end error) and `writeMu`; everything else is channels and `Once`.
Discovery gives `Pairing` and `Client` an address; pairing gives adbd the key that the
handshake then uses.

### What makes each part correct

* Packets: concurrent senders never mix their bytes; what arrives is what was sent, whole and in order.
* Handshake: online means online on both sides and authenticated as the options say; the key
  signs at most one token; Dial returns.
* Connection: no stream is ever beyond the reach of readLoop and Close; after Close nothing
  stays open and nobody stays blocked; a lost link is noticed.
* Stream: what was acknowledged is read, in order, once, before the end is reported; a write
  that is counted was consumed; a writer that waits is woken; a closed stream ends its service.
* Shell: the output returned is what the device sent, or an error. Transfer: a file is complete or an
  error is returned. Install: the upload is deleted. Forward: Close returns, bytes arrive in order.
* Key store: a key once used is the key that is loaded next. Discovery: every advertised endpoint is reported
  once. Pairing and SPAKE2: both sides derive the same key exactly when the codes agree. QR: the matrix
  encodes the payload.

## Modules

| Module | Models |
|---|---|
| `AdbWire` | the two FIFO directions of packets under an online connection |
| `AdbStream` | the state of a `Stream` and the methods that touch nothing else |
| `AdbDevice` | adbd as the library relies on it (external) |
| `AdbConnection` | readLoop, `Open`, `WriteContext`, `Read`, `Stream.Close`, `Connection.Close`, composed with the three above |
| `AdbConnectionProps` | the properties of the composition |
| `StreamPipe` | abstract: what a stream promises its reader |
| `AdbConnectionProofs` | proofs about `AdbConnection`, among them that it implements `StreamPipe`, and about `StreamIds` |
| `AdbHandshake` | `DialWithOptions` and `handshake` against adbd and against any peer |
| `AdbHandshakeProofs` | proofs about `AdbHandshake` |
| `PacketFraming` | concurrent `send`s and `readPacket` on one byte stream |
| `PacketFifo` | abstract: the FIFO of whole packets that `AdbWire` assumes |
| `PacketFramingProofs` | proofs about `PacketFraming`, among them that it implements `PacketFifo` |
| `StreamIds` | `nextID`, which wraps, and the table keyed by ids |
| `AdbClient` | `Shell`, `Push`, `Pull`, `InstallAPK` and their kin over streams, against services of adbd (external) |
| `AdbClientProofs` | proofs about `AdbClient` |
| `PortForward` | `ForwardTCP` and `Forward.Close`, with the programs at both ends (external) |
| `KeyStore` | `LoadOrCreateKey` by several processes |
| `Discovery` | one `Discover` and the `waitEndpoint` that reads from it |
| `Pairing` | `Pair` and its peer (external) |
| `Onboarding` | composes the three above as `PairAndConnectCode`, `PairAndConnectQR` and `WaitConnectEndpoint` do |
| `QrCode`, `QrReader` | the encoder of QR codes at its real size; a reader of the standard to check it against |
| `DnsNames` | names and packets of mDNS, byte by byte |
| `FieldElement`, `FieldEncoding` | the field: limbs in a base `B`; bits of encodings and exponents at their real size |
| `ScalarWords`, `EdwardsPoint` | scalars in Montgomery words of `W` values; points over a small curve |
| `Spake2` | both roles of SPAKE2, over `EdwardsPoint` |
| `Algorithms`, `AlgorithmProps` | one step per input and operation of the modules above; what the result must be |
| `ArithmeticProofs` | proofs about the field, its encodings, and scalars |
| `AlgorithmProofs` | proofs about points, SPAKE2, the names of discovery and what `Algorithms` computes with all of these |
| `PortForwardProofs`, `OnboardingProofs` | proofs about the modules they are named for |
| `MC*` | the values of the constants for TLC |

### AdbConnection and the code

A step is what one goroutine does between two points at which another can interfere.
The program counters name those points:

| Variable | Code |
|---|---|
| `streams` | `c.streams`; a stream stands for its id, which `StreamIds` justifies |
| `closePc` | `Connection.Close` inside `closeOnce`: `c.done` closed (`closeSocket`), socket closed (`sweep`), streams finished (`closed`) |
| `rlPc`, `rlPkt` | readLoop between reading a packet, its lookup, what it does to the stream, and the OKAY |
| `op[s]` | the call of `Open`: registered and about to test `c.done` (`check`), about to write OPEN (`write`), in the select (`wait`), in `Stream.Close` after cancellation (`cancel`) |
| `wr[s]`, `left[s]` | `WriteContext`: before send's test, before the write, in the select; chunks left |
| `cl[s][c]` | one call of `Stream.Close`: before send's test, before the write of CLSE, before `removeStream`, before `finish` |
| `hasRemote`, `ack`, `recv`, `ended` | `remoteID # 0`, the token, the queue, who ran `finish` first |
| `got`, `eof` | what `Read` has returned |
| `toDev`, `toHost`, `linkUp` | the wire |
| `dev*` | adbd: at most one unacknowledged WRTE per stream, one OKAY per WRTE it consumes |

`send` is two steps: its test of `c.done` and the write. The lookup of a stream under `c.mu` and
its use after the unlock are two steps. `finish` is one step: the three things it does become visible in an
order in which nobody can tell the partial states from the full one. Critical sections and a single channel
operation are one step. The select of `Open` has three actions and that of `WriteContext`
three cases in two actions; where several are ready any is taken.

Abstractions: the data of a chunk is its number; `Read` takes a whole chunk (a smaller buffer leaves the rest
in `readBuf`, which only the reader touches); error values are reduced to their cause;
each stream has one writer and one reader at a time, as every caller in the
repository has; a write to the socket never blocks. The packet OPEN from a device, which readLoop ignores, is not sent.

`wsent`, `confirmed`, `abandoned`, `devAcked` and `devGot` are history variables for the properties.

### AdbHandshake and the code

`pc` is where `DialWithOptions` is: before its CNXN, in the loop's `readPacket`, in
`tlsConn.HandshakeContext`, or returned with one of five results. The peer is an adbd that
goes online at once, one that asks for AUTH, one that asks for STLS, or `other`, a program that
sends any packet at any time. Each direction holds one packet: the handshake is strictly
request and answer, and a peer that sends more simply sends it at the next
read. `expired` is the deadline of `applyContextDeadline`; cancellation without a deadline reaches
only the TLS handshake (`TLSFails`), as in the code. RSA and TLS are abstracted to whether the
peer knows the key.

### PacketFraming and StreamIds

In `PacketFraming` a packet is one or two pieces (header, payload), each written by its own `Write` while
`writeMu` is held; a failed write leaves the packet cut, and then every later write fails too,
since the connection is broken. `readPacket` fails on a piece it does not expect: wrong magic or
wrong checksum. In `StreamIds` several goroutines advance one wrapping counter; A stream that the device ends is deleted by
readLoop, and its `Close` deletes the same id once more. `late` records that the counter lapped a stream that was not yet closed, which takes 2^32 opens
during the life of one stream: the property holds up to that point and not beyond.

### AdbClient and PortForward

Both stand on a stream as `StreamPipe` describes it: `down` or `recv` holds what the service sent and nobody has read,
`end` says who ended the stream, `put` follows the one chunk that `WriteContext` waits for. A lost connection cuts the replies
anywhere.

| Variable of `AdbClient` | Code |
|---|---|
| `task`, `path` | which call, and its remote path; equal base names give `InstallAPK` equal paths |
| `call[c].pc` | before `os.Open` or `os.Create` (`local`), in `Open`, between two requests or responses, in the select of `Shell`, before `f.Close`, returned |
| `call[c].phase` | `InstallAPK` is a push, then `pm` and the deferred `rm` as calls of `Shell` |
| `call[c].copier`, `got` | the goroutine in `io.Copy(&out, s)`, and the output |
| `call[c].file` | the local file of a pull: none, there, or left by an `os.Remove` that failed |
| `serv`, `remote`, `installed` | adbd's services, the files they write, and (history) whose upload pm installed |

`Exec` is `Shell` with another prefix. `Uninstall` and `Packages`, which look at the output of a `Shell`, are not tasks of their own. A request of the
sync protocol is one step, header and payload: adbd does nothing about half of one.

In `PortForward`, `hand[k]` is the handler of one accepted socket, `up[k]` and `down[k]` its two copiers, each with a step for
`Read`, a step for `Write` and, upwards, a step for the acknowledgement; `done[k]` is the channel of capacity two. When the
upward copier ends it closes the stream and then reports, in two steps. The handler takes the first report and closes both ends. `Accept` may fail although nobody closed the listener, and then the loop ends
(`LoopExits`). `Watch` is the goroutine that closes the listener when `fctx` ends.

### KeyStore, Discovery, Pairing and Onboarding

`Onboarding` runs one process, `Main`, through `LoadOrCreateKey`, `WaitPairingEndpoint`, `Pair`, a first and a second
`WaitConnectEndpoint` and `Connect` (`stage`), with the contexts that bound each stage (`Deadlines`): the caller's, the two minutes
that pairing gets if the caller set no deadline, the 15 and 20 seconds of the two tries. The other processes use the key file. `plan` picks
what `Main` does: only the key, only one wait, the whole with a code, or the whole with a QR code.

* `KeyStore`: the file is absent, cut, or holds a process's key. `os.WriteFile` truncates in one step and writes in the next,
  between which a process may crash or another read. A write that fails leaves a cut file, or the whole key if only the close failed.
* `Discovery`: any set of announced records may arrive as a packet, again and late. The loop's maps are `mdns` and `sent`;
  `chan` is the channel, on which the loop may block. A device may change its
  address or its port: a new port replaces the old one, while addresses are only ever added, as in the code, so that an endpoint at an address it has left is offered as well.
  Each instance has a host of its own, and the order of the addresses is left out.
* `Pairing`: the peer is the device with the code, one with another code, or a stranger that sends any packet,
  also Pair's own. A box opens only under the same key and sequence number.
* `Connects`: the device accepts the key it has stored. Anybody else who listens at the address may be connected to as well: `Dial` checks neither a
  certificate nor a GUID, and takes a bare CNXN (second finding).

### Algorithms

`Algorithms` has one action per operation: it takes an input and stores the result, and `AlgorithmProps` says what the
result must be, by a definition that shares nothing with the code's: a QR reader that follows the standard (`QrReader`), paths through
the bytes of a message (`PathFrom`, a step per label or pointer, where the code nests calls), the records that a packet was made of, integers modulo the prime, the addition law of the curve.
`QrCode` and `DnsNames` compute as the code does, at full size. The numbers of the curve are out of TLC's reach, so their
representation is a parameter: `FieldElement` has limbs in base `B` (2^51) and the prime `B^5 - 19`; `ScalarWords` has words of
`W` values (2^64) and a modulus of the same shape `<<m0, m1, 0, m3>>`. In Go each operation of a
word is exact in 64 or 128 bits; `FieldBounds` proves the bounds that make it so for the field, and `ArithmeticHolds` is about every
base, modulus and `W`, the code's and TLC's among them.
`FieldEncoding` treats numbers as sets of bits and exponents, which needs no arithmetic and so has the real size.
`EdwardsPoint` and `Spake2` take the field as given and follow the formulas of the points, which TLC computes over a prime of seven bits and `SpakeHolds` covers
for every prime; `scalarMultArbitrary` doubles and adds as the code does. The code multiplies the generator the same
way and never by the tables of `scalarmult.go`.

## What is checked

| Run | Module / cfg | Checks | Bounds |
|---|---|---|---|
| `stream` | `MCConnection_one` | `TypeOK`, `NoOrphanStream`, `NothingSurvivesClose`, `AcknowledgedDataIsKept`, `WrittenMeansConsumed`, `NoLostWakeup`, `ClosedStreamEndsService` | one stream, two concurrent closers, room for 1 chunk, 2 chunks each way |
| `two_streams` | `MCConnection_two` | `NoOrphanStream` | two streams, one closer each, 1 chunk from the device |
| `liveness` | `MCConnection_live` | `ShutdownReleasesEveryone`, `PeerLossIsNoticed`, `CallsReturn`, `SentIsRead`, `DeliversLikeAPipe` (refinement of `StreamPipe`) | one stream, room for 1 chunk, 3 chunks in, 1 out |
| `open_end` | `MCConnection_openend` | `OpenEndMeansDrained`, violated: first finding | one stream, 1 chunk in |
| `handshake` | `MCHandshake` | `TypeOK`, `OnlineTogether`, `AuthInOrder`, `ModesDoNotMix`, `DialEnds` | four sizes, two rounds of TLS |
| `requires_stls` | `MCHandshake_stls` | `DefaultRequiresSTLS`, violated: second finding | as above |
| `framing` | `MCPacketFraming` | `NeverMisframed`, `AtomicPackets`: refinement of `PacketFifo` | three senders, two packets each |
| `stream_ids` | `MCStreamIds` | `FoundById` | three openers, ids modulo 4, three turns of the counter, streams ended by either side |
| `client` | `MCClient` | `PushMeansStored`, `PullIsWholeOrRemoved`, `ShellIsComplete`, `UploadIsRemoved`, `InstallsItsOwn`, `CallsEnd` | any one call alone, or an install with a push to its path; files and outputs of 2 chunks, one unread reply per stream |
| `forward` | `MCForward` | `ClosedIsQuiet`, `RequestIsComplete`, `ResponseIsComplete`, `EndsTogether` | one socket with a chunk each way, or two without data that the device ends |
| `onboarding` | `MCOnboarding` | `KeyIsKept`, `OffersWhatItKnows`, `PairingAgrees`, `OnboardingEnds` | two processes, one crash, four sets of announced records, with one device, two, and one that moves, a channel of one |
| `algorithms` | `MCAlgorithms` | `QrDecodes`, `NamesDecode`, `RecordsAreRead`, `ArithmeticIsExact`, `SpakeAgrees` | payloads of 0 to 107 bytes, all messages of up to 5 bytes out of five values, chains of 14 to 19 pointers, four records in every order cut at every byte, `B` = 40, words of 16 values modulo 4189, the curve modulo 101 |

Why the bounds are enough. `RecvCap` is 8 in the code; with 1 the queue is full after one chunk and
deliver blocks on the second, which is the case that matters; a third, in `liveness`, follows a queue that has been full. `MaxWrites` = 2 lets one write be abandoned with its acknowledgement on
the way and the next take it. Two closers let any two steps of `Stream.Close` interleave with each other;
a third would only repeat them. Two streams let one block readLoop while the other opens, is
closed or is swept. A width of 4 for ids leaves three usable ids for three openers.
Two rounds of TLS are one more than any adbd asks for.

In `client` the calls share nothing but the files of the device, so that calls run together only when they write one path; two chunks
let an upload, a download or an output stop half way. In `forward` the sockets share the accept loop, the wait group and
`Close`; the data of one does not reach another. One crash and two processes let every step of writing the key be cut or overtaken. The
records of `onboarding` include a second device and one that changes address and port, either of which can fill a channel of one; the whole onboarding is run with fewer
of them than a wait alone.
The inputs of `algorithms` lie at the limits: payloads around the 106 bytes that fit, labels of 0, 1, 2, 63 and 64 bytes in names of up to three, at most one of them long, chains of 14 to
19 pointers where 16 are followed, every prefix of packets with their records in every order, limbs that are empty, full or over, the numbers
around the prime, every one of the 256 point encodings of the small curve. That curve has 104 points, eight times the 13 of its
prime-order part, so that the masks M and N have the small-order parts that `passwordScalarHack` is for, and both bases are small
enough that each carry occurs.

### Fairness

`HostFairness` says that a goroutine of the library that can take a step eventually does: weak fairness
for readLoop, for each step of `Connection.Close`, and for the steps of each `Open`, `WriteContext` and
`Stream.Close` taken together. The Go scheduler runs every runnable goroutine, and a mutex held for a
bounded critical section is handed on. Nothing is assumed of which ready case a select takes, of calls by the
application, or of contexts ending. `ShutdownReleasesEveryone` needs nothing more.
`ReaderFairness` (the application keeps calling `Read` while data is queued) and `DeviceFairness` (adbd handles
what it receives) are assumptions on the environment. They are not part of the specification but premises of the properties
that need them: `PeerLossIsNoticed` the first, `SentIsRead` and `CallsReturn` both. `PeerLossIsNoticed` does not hold without readers: while readLoop waits in `deliver` for a stream nobody reads, it does
not see that the link is gone. In the handshake the client's goroutine runs and time passes (`ClientFairness`) and, as a premise of the second half of `DialEnds` only,
adbd answers (`PeerFairness`); a peer of kind `other` promises nothing.

The other modules do the same. The goroutines of a call run (`ClientFairness`), those of a forward run, and `Close` once it is called
(`ForwardFairness`); in `Onboarding` they run, time passes, and an operation on a socket fails once the deadline set on it has passed
(`OnboardingFairness`). What the device's services, the program on the host or the peer do is never part of the
specification: `CallsEnd` and `EndsTogether` take it as a premise where they need it, and `OnboardingEnds` needs nothing.

## What is proved

`AdbConnectionProofs`, for every set of streams and closers, every capacity and every bound
(assumptions: `RecvCap` is positive, the bounds are naturals):

* `TypeCorrect`: `Spec => []TypeOK`. In particular `recv` never exceeds its capacity and readLoop never handles a
  packet it does not have. One lemma per actor, each with a step per action.
* `NoOrphans`: `Spec => []NoOrphanStream`, and `CloseIsFinal`: `Spec => []NothingSurvivesClose`.
  Neither is inductive. An Open in the select is covered by the table only because it was so before it
  wrote its OPEN, and the sweep may run between its registration and its test of `c.done`. The
  invariant `Reachable` therefore extends the first to every Open that has registered (`Findable`) and says of the
  second what is true of the table itself: once the sweep is over, whatever is in it belongs to an Open
  that has not passed the test (`OnlyUntested`). The argument is the order of two pairs of events: Open
  registers before it tests `c.done`, and Close closes `c.done` before it sweeps.

* `AcknowledgedIsKept`: `Spec => []AcknowledgedDataIsKept`. An acknowledgement is first a decision of readLoop
  (`Acking`), then an OKAY in `toDev` (`Count`), then counted by adbd (`devAcked`). The invariant `Kept` says that the sum of the
  three, per stream, never exceeds the chunks read or queued: `deliver` adds a chunk and a decision in one step, writing
  the OKAY and handling it move one unit from each form to the next, and losing the link only takes units away. It
  rests on lemmas about how appending to a queue and taking its head change a count (`CountAppend`, `CountTail`).
* `WrittenIsConsumed`: `Spec => []WrittenMeansConsumed`; `WakeupIsComing`: `Spec => []NoLostWakeup`; `CloseEndsService`:
  `Spec => []ClosedStreamEndsService`. One invariant, `Served`, counts for each stream the requests on their way to adbd and the
  answers on their way back. Every chunk written is on the wire, consumed, or was abandoned; every chunk consumed has its OKAY on the wire, in
  readLoop's hands, in the token or counted by a writer (`Balanced`, `Answered`); OPEN and CLSE travel once, in that order,
  and an end that somebody waits for is under way until it is told (`EndIsComing`, `Told`, `Woken`). Most steps touch no packet of a
  given stream, which one lemma covers (`CalmKeepsServed`).
* `StreamsArePipes`: `Spec => DeliversLikeAPipe`, the refinement of `StreamPipe` by every stream. The state of the pipe is spread over
  adbd, the wire, readLoop and the queue, and the invariant `Piping` says what lies where: adbd has one chunk out or one permission to send
  it, never both (`OneAtATime`), which bounds what is queued; the chunks read and queued are numbered from one and the one on the wire is the last
  sent (`InSequence`); nothing of the stream follows its CLSE (`EndsAfterData`); and while readLoop runs and finds the stream, nothing that was sent is missing
  (`Whole`). Each step then maps to a step of the pipe or to none: accepting is adbd's write, `Read` is the pipe's read, `finish` its end.

`AdbClientProofs`, for every set of callers, of paths and of calls, any sizes and any outcome of the device (assumption: `"none"`, which stands
for nobody, is no caller):

* `PushIsStored`: `Spec => []PushMeansStored`; `PullIsWhole`: `Spec => []PullIsWholeOrRemoved`; `ShellIsWhole`: `Spec => []ShellIsComplete`;
  `UploadGoes`: `Spec => []UploadIsRemoved`; `InstallsOwn`: `Spec => []InstallsItsOwn`. One invariant says of each caller how far its call and
  the service at the other end of its stream have come together (`Follows`): what the file on the device holds while a push is at
  a chunk, what of a file is in the local copy, what of an output is in the buffer, and what each phase of an installation leaves to do. A
  step of another caller does not disturb it (`OthersKeep`), except through a file that both write, which is what the premises of
  `PushMeansStored` and `InstallsItsOwn` leave out.

`AdbHandshakeProofs`, for every payload limit, every set of sizes a peer may advertise and every number of TLS rounds:

* `KeyIsUsedOnce`: `Spec => []AuthInOrder`; `ModesStayApart`: `Spec => []ModesDoNotMix`; `DialAgrees`: `Spec => []OnlineTogether`.
  The invariant `Agreed` adds what the client has to know about the other end: with adbd at the peer's side, a CNXN on the
  wire comes from an adbd that is online, an STLS from one that wants TLS, and one TLS handshake ends its
  part (`InStep`); what the flags of the loop say of the AUTH packets already sent (`AuthSoFar`).
* `LimitIsUsable`: `Spec => []TypeOK`. The payload limit of a connection is between one byte and what `readPacket` accepts, whatever
  the peer advertised.

`PacketFramingProofs`, for every set of senders and every bound:

* `FramingTypeCorrect`: `Spec => []TypeOK`.
* `PacketsStayWhole`: `Spec => []NeverMisframed`. The invariant says what the unread bytes look like: nothing in
  them is out of place for a reader in its present state (`WellFormed`), and only the holder of `writeMu` can be
  in the middle of a packet, in which case that packet's header is the last piece out (`HolderWrites`).
* `PacketsAreAtomic`: `Spec => AtomicPackets`, the refinement of `PacketFifo`. The queue of that FIFO is what the unread pieces complete
  (`Completed`): a write of a packet's last piece appends to it (`CompletedAppend`), a read of it takes the head (`CompletedTail`), and all
  other steps leave it. `Completed` is a recursive function; what it computes for any number of pieces is proved by induction
  over the numbers (`SetInduction`).

`ArithmeticProofs`, for every base `B` of the limbs from 19 up, 2^51 among them, and for words of every size `W` and every modulus
`<<m0, m1, 0, m3>>` (assumptions: `M0 * MInverse` is -1 modulo `W`, and a third of a uniform string is at most half the modulus; with 2^51, 2^64 and
the order of the group they say what the code's constants are). The inputs are those that an operation may be given (`InputsAssumption`): elements
whose limbs are below those of `2 * P` (`Full`, 2^52 less a little, as the code expects of limbs between operations), scalars below the modulus.

* `FieldBounds`, for `B` from 2^13 up: with operands that are light, that is with limbs of at most `2 * B - 39`, results are light again, and light elements are
  `Full` (`LightIsFull`). On the way the columns of a product stay below `2^13 * B * B` and their carries below `2^13 * B`, which for `B` = 2^51 are
  2^115 of the 128 bits and 2^64: no word overflows, so that natural numbers are what the code computes with.
* `FieldIsExact`: sums, differences, products and squares are those of the integers modulo `P = B^5 - 19`. A carry out of the top
  limb comes back times 19, which takes a multiple of `P` away (`CarryKeepsTheValue`), and each column of a product collects
  exactly the terms of its power, those beyond the top times 19.
* `ReduceIsCanonical`: `reduce` gives the representation below `P`. Its first ripple of carries, of the value plus 19, tells whether the
  value is at least `P`; the second adds 19 times that carry and drops what leaves the top.
* `ElementsAreExact` puts these together, with a product taken digit by digit as the property does it (`TimesModPIs`).
* `ScalarsAreExact`: sums, differences, products, negation and both conversions of scalars are those of the integers modulo the order, and stay below it.
  A chain of `bits.Add64` is a recursive function; that it runs at all is proved by induction over the words (`RecursionRuns`), that it adds by taking
  its few words apart (`Add64IsExact`, `Sub64IsExact`). One step of Montgomery's adds a row and the multiple of the modulus that clears the lowest word,
  and so divides by `W` modulo the order (`StepDivides`); after four the number is below twice the modulus (`MontgomeryReduces`) and one
  subtraction is enough (`SubtractIsExact`). The rest is arithmetic of congruences (`Same`), in which `Radix`
  may be cancelled since it has an inverse: `M0` has one modulo `W` (`RadixHasInverse`, `Cancelled`).
* `UniformIsReduced`: `SetUniformBytes` gives the scalar of the whole integer. Each third may be anything below `Radix`; in the code the last is the longest,
  with 22 bytes.
* `EncodingsAreExact`: no bit of an encoding but the last is lost or moved. `ChainsAreExact`: the exponents of `Invert` and `Pow22523`.
* `ArithmeticHolds`, in `AlgorithmProofs`: `Spec => []ArithmeticIsExact`. Its inductive invariant adds that the input is one that `Init` gives (`Given`): a step
  computes from it and keeps it.
* `QuietZoneIsKept`, also there and a part of `QrDecodes`: whatever size an image is asked for, the symbol lies inside it with its quiet zone.

`AlgorithmProofs`, about points, for every prime that is 5 modulo 8 and every curve `-x^2 + y^2 = 1 + d * x^2 * y^2` over it whose `d` is no square, Ed25519's
among them. The assumptions: every number but 0 has the inverse that the power `Prime - 2` computes, and the power `(Prime - 1) / 4` of 2 is a square root of -1,
which are Fermat's theorem and Euler's criterion for a prime (`FieldAssumption`); the order is odd and 8 times it fits in the bits of a scalar, and the texts of the
generator and of `M` and `N` are points (`SpakeAssumption`). That the order is a prime, that it is the generator's, or where `M` and `N` lie is not needed.

* `PlusOnCurve`, `PlusAssociates`: the points are a group under the addition law. The law divides by `1 + k` and `1 - k`, where `k` is `d` times the four
  coordinates. They do not vanish on the curve, or `d` would be a square (`Complete`: this takes a root of -1). With the divisors cleared, that a sum is on the curve and that two ways of
  adding three points agree are identities of polynomials, each a multiple of what defines the curve (`NormVanishes`, `LeftsCross`).
* `AddPointsIs`: the formulas through cached and projective forms, in coordinates `x`, `y`, `z`, `t`, add the pairs that points stand for (`Represents`), and leave `z` other than zero.
* `PointBytesIs`, `SetPointBytesIs`, `CodeIs`: what is encoded is the pair and not its `z`; what is decoded is the point of the curve with that `y` and sign, and a text is
  refused only if no point has its `y`. `SqrtRatio` tries one power and turns it by a root of -1: if a root exists it finds it (`SqrtRatioComplete`), and what it calls
  a root is one (`SqrtRatioRoot`). A decoder accepts a `y` at or above the prime as the code does, so texts are more than points; the other way round nothing is lost (`CodeIs`).
* `PointsAreThose` is what `SpakeAgrees` says of points, put together from these.
* `ScalarMultIs`: a double-and-add over all bits of an integer gives its multiple of the point. The invariant of the loop is that the result plus the remaining
  bits times the addend is what it was at the start (`OnTheWay`).
* `PasswordIsScaled`: for every odd order `passwordScalarHack` gives a multiple of 8 that is below 8 times the order and the password's hash modulo
  the order.
* `EndsAgree`: both ends reach a key, and the same one exactly if their hashes are the same. A mask comes off as it was put on (`MaskComesOff`), whatever its order, and
  what is left of a message, times the private number of the other end, is the same for both (`SecretsMeet`).
* `SpakeHolds`: `Spec => []SpakeAgrees`, with the same invariant `Given` as `ArithmeticHolds`.

`AlgorithmProofs`, about the names of discovery, for every sequence of bytes and for labels of any length and number (assumptions: none but that a byte is one, and that
a label has no dot in it, which no string that is split at its dots has):

* `MessagesDecode`: what `decodeDNSName` finds at any offset of any message is the name at the end of the path from there. Each loop over labels goes where
  the path goes (`LoopsAre`, by induction from the end of the message, since a label leads forward), and what `n` calls within one another find is what a path
  with `17 - n` pointers behind it leads to (`CallsAnswer`, by induction over the calls). That the model's bound on the length of a path is never met,
  17 times the length of the message, is part of it: no message keeps a decoder going.
* `NamesSurvive`: an encoder takes exactly the names whose labels have 1 to 63 bytes, a last dot aside, and a decoder gives the name back, with the offset behind it,
  alone and inside a query. Splitting undoes joining (`SplitJoin`), trimming drops the last dot and nothing else (`SplitIsMeant`), and the path through labels that sit
  anywhere in a message gathers them (`EncodedReads`).
* `NamesHold`: `Spec => []NamesDecode`, from the two, with the invariant `Given` again.

`AdbConnectionProofs`, about ids, for every width of the counter, number of openers and bound (assumption: the counter has at least two values):

* `IdsFindTheirStreams`: `IdsSpec => []FoundById`. Every `Add` gives a number of its own (`IdsNumbered`), and while no stream in use has been
  lapped all numbers in use lie within one turn (`WithinOneTurn`): two of them have different ids (`IdsDiffer`), and the second `Add` of an
  opener that was given zero stays within that turn.

`PortForwardProofs`, for every set of sockets, any of them made and any numbers of chunks. The first two theorems rest on what a socket, its
handler, its copier and its stream have to do with each other (`Handled`, `Accounted`):

* `CloseLeavesNothing`: `Spec => []ClosedIsQuiet`. The wait group is the number of handlers that have not left, plus one while the accept
  loop runs (`WaitGroup`), so none can be added once it is zero; a closed listener leaves no socket waiting to be accepted (`Closing`); and what
  a handler that has left had open is closed (`Handled`), because its `wg.Done` is the last of its deferred calls.
* `RequestIsDelivered`: `Spec => []RequestIsComplete`. Every chunk a program sent is unread, in the copier's hands, on the stream or
  consumed (`Accounted`); at the end of the socket the first three are none.
* `ResponseIsDelivered`: `Spec => []ResponseIsComplete`. What a service sent is queued, in the other copier's hands or written, until the
  connection is lost or that copier ends; and it reports first only at the end of a drained stream or because the program is gone, since whoever
  closes the socket on our side has had a report before (`Answering`).

`OnboardingProofs`, for every set of processes, any crashes, any records in the air and any capacity of the channel (assumptions: the main
process is one of them, and names of processes differ from the other values that stand in their places):

* `KeysAreKept`: `Spec => []KeyIsKept`. Unless two processes created the file at once, one that writes it is alone and
  has cut a file that was absent (`OneWriter`), so nobody held a key and no device had stored one. What a device may store is the
  key that the main process holds (`PairsWithItsKey`), which does not change while it pairs.
* `KnownIsOffered`: `Spec => []OffersWhatItKnows`. Between two packets the endpoints left to look at are among those known, and all
  others were sent as they are (`OfferInvariant`): offering one does not undo another since an instance has one endpoint at an
  address (`EndpointsByKey`).
* `PairingIsWithTheDevice`: `Spec => []PairingAgrees`. The box that is on its way to us is the device's first, or else one under the peer's
  own key or our own sent back (`PeersBox`); ours never holds a GUID, and nothing is left of one connection in the next.
  That box comes after the device has stored our key, which is the one that Connect is given. Of the client that Connect returns nothing is proved: `Dial` accepts whoever answers.

Only model-checked: everything about liveness, which is out of the prover's reach under fairness, and two invariants about algorithms. `QrDecodes`
reads a symbol of 1369 modules back through a polynomial over GF(256), on which none of the provers gets anywhere. `RecordsAreRead` compares what a packet
says with the records it was made of, which are given with it: a theorem about every packet would need an encoder of records, and the code has none. What a
recursive definition computes for every input is an induction over data, and the library's induction theorems take an operator, which no prover here can
instantiate. `SetInduction` gets by with sets, since `WFMin` of the library is about sets; that is enough for recursions over a counter, such as carries, calls
within one another and offsets of a message, where a statement about each value is a set of numbers.

## Findings

* `OpenEndMeansDrained`. `Open` waits for `s.opened` and then looks at `s.err()` (`connection.go:251-254`). A service that
  is accepted, writes and ends before Open's goroutine runs again has been finished by then, so Open returns
  `io.EOF` and the output queued in `recv` is dropped, although `Read` would "Drain data already queued before
  reporting EOF." (`stream.go:80`). A short shell command fails that way.
* `DefaultRequiresSTLS`. `connection.go:17` says that LegacyAuth is used "instead of requiring STLS", but without it a CNXN from
  the peer is accepted at once and the connection is online without TLS (`connection.go:94-100`).

Some statements are weaker than one might expect, and the comments on them say why:
`WrittenMeansConsumed` allows one unconsumed chunk per abandoned write (a late OKAY is taken for the next one), and
`ClosedStreamEndsService` is about streams that Open returned (a cancelled Open leaves its service running on the
device until the connection ends). `ResponseIsComplete` is about responses that end before the request's direction does: a
host that half-closes loses the rest (`conveniences.go:122-124`). `UploadIsRemoved` leaves out a push that failed
(`client.go:99`), `InstallsItsOwn` and `PushMeansStored` other calls that write the same path, and `KeyIsKept` two processes that create the
file at once; a cut key file, which every later start fails to parse, does not break it. `PullIsWholeOrRemoved` lets a cut file stay after an error when `os.Remove` fails too
(`client.go:82`). `FoundById` ends where the counter laps a stream in use. `PairingAgrees` speaks of the key that the device stored and not of who answers `Connect`: nothing in `Dial`
makes it the device, and the repository's `README.md:241` says that certificates are deliberately not verified. `CallsEnd` and `EndsTogether` say which calls end without help from the device and which do not: a pull waits for the device
whatever its context says, and `Forward.Close` for every forwarded connection. A device whose address or port changes back is not offered again, since
`sent` still has its old key and fingerprint (`mdns.go:77-82`); `OffersWhatItKnows` says what is offered, not when.

## Not modelled, and why

* RSA keys, certificates, TLS, AES-GCM, HKDF and SHA: calls of the standard library or arithmetic on numbers of
  2048 bits. Their results are symbols: who knows which key.
* `scalarmult.go` and `tables.go` of `edwards25519`, which multiply a point by digits from tables, and the other helpers of that package: nothing in
  the repository calls them, since `spake2.go` has its own `scalarMultArbitrary`.
* `internal/byteorder` and `binary.go`: fixed-width loads and stores.
* The contents of packet headers: magic, checksum and sizes are reduced to what `readPacket` accepts.
* `sanitizeFilename`, `shellQuote`, flags of `pm`, formats of errors and of `Packages`' lines: text.
* Sockets that block when their buffers are full, and so the mutual wait of readLoop and an adbd that stops reading.
* Several goroutines writing one stream: `NoLostWakeup` does not hold then, and nothing in the repository does it.
* Network interfaces and the retransmission of queries: reduced to the packets that arrive.
* The examples, which call the library in a straight line.

## Plan

1. Done: connection, streams, handshake, framing, ids; the client and the forward over a stream; keys, discovery and pairing, composed; the
   algorithms.
2. Done: every safety property of the machines, both refinements, the arithmetic of the curve's field and scalars, its group and SPAKE2 on it, and the names of discovery, for all values of the constants.
3. Proofs still worth writing: the encoder of QR codes, whose error correction is arithmetic of polynomials over GF(256).
