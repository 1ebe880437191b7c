------------------------------ MODULE DnsNames ------------------------------
(***************************************************************************)
(* The DNS messages of discovery (mdns.go:131-324): names are encoded for  *)
(* the query and decoded, with pointers, from what arrives; addPacket      *)
(* keeps the records of a packet and endpoints joins them.  A message and  *)
(* a string are sequences of bytes; offset n of the code is index n + 1.   *)
(* Names are written in lower case, where ToLower is the identity.         *)
(***************************************************************************)
EXTENDS Integers, Sequences, SequencesExt, TLC

MaxDepth == 16
Dot == 46

JoinLabels(labels) ==                           \* strings.Join(labels, ".")
  LET join[k \in 0 .. Len(labels)] ==
        IF k = 0 THEN <<>> ELSE IF k = 1 THEN labels[1] ELSE join[k - 1] \o <<Dot>> \o labels[k]
  IN join[Len(labels)]

SplitName(name) ==                              \* strings.Split(name, ".")
  LET split[k \in 0 .. Len(name)] ==
        IF k = 0 THEN << <<>> >>
        ELSE LET before == split[k - 1]
             IN IF name[k] = Dot THEN Append(before, <<>>)
                ELSE [before EXCEPT ![Len(before)] = Append(@, name[k])]
  IN split[Len(name)]

TrimDot(name) ==
  IF name # <<>> /\ name[Len(name)] = Dot THEN SubSeq(name, 1, Len(name) - 1) ELSE name

Uint16(msg, off) == msg[off + 1] * 256 + msg[off + 2]

----------------------------------------------------------------------------
EncodedLabels(labels) ==
  LET out[k \in 0 .. Len(labels)] ==
        IF k = 0 THEN <<>> ELSE out[k - 1] \o <<Len(labels[k])>> \o labels[k]
  IN out[Len(labels)] \o <<0>>

(* <<>> is the error; an encoded name is never empty.                      *)
encodeDNSName(name) ==
  LET labels == SplitName(TrimDot(name))
  IN IF \E k \in DOMAIN labels : Len(labels[k]) \notin 1 .. 63 THEN <<>> ELSE EncodedLabels(labels)

buildMDNSQuery(id, name) ==
  LET encoded == encodeDNSName(name)
  IN IF encoded = <<>> THEN <<>>
     ELSE id \o <<0, 0, 0, 1, 0, 0, 0, 0, 0, 0>> \o encoded \o <<0, 12, 128, 1>>

----------------------------------------------------------------------------
NotName == [ok |-> FALSE]
IsName(labels, next) == [ok |-> TRUE, name |-> JoinLabels(labels), next |-> next]

(* The byte at an offset; beyond the end, one that nothing starts with.    *)
ByteAt(msg, off) == IF off < Len(msg) THEN msg[off + 1] ELSE 64

(* The loop over labels from each offset: those it takes, and where it     *)
(* stops, at the end of the name, at a pointer or at what is no label.     *)
LabelsFrom(msg) ==
  LET run[off \in 0 .. Len(msg)] ==
        LET b == ByteAt(msg, off)
        IN IF b \in 1 .. 63 /\ off + 1 + b <= Len(msg)
           THEN [labels |-> <<SubSeq(msg, off + 2, off + 1 + b)>> \o run[off + 1 + b].labels,
                 stop |-> run[off + 1 + b].stop]
           ELSE [labels |-> <<>>, stop |-> off]
  IN run

(* The name at each offset.  What its pointer leads to is one more label;  *)
(* the pointer ends the name, and so sets next once.                       *)
NamesWith(msg, tails, pointerSize) ==
  LET run == LabelsFrom(msg)
  IN [start \in 0 .. Len(msg) - 1 |->
        LET labels == run[start].labels
            off == run[start].stop
            b == ByteAt(msg, off)
            ptr == (b % 64) * 256 + ByteAt(msg, off + 1)
            tail == IF ptr < Len(msg) THEN tails[ptr] ELSE NotName
        IN IF b = 0 THEN IsName(labels, off + 1)
           ELSE IF b >= 192 /\ off + 1 < Len(msg) /\ tail.ok
             THEN IsName(labels \o (IF tail.name = <<>> THEN <<>> ELSE <<tail.name>>), off + pointerSize)
           ELSE NotName]

(* decode[n] are the names that n calls within one another find.           *)
DecodeWith(msg, at, pointerSize) ==
  LET decode[n \in 0 .. MaxDepth + 1] ==
        IF n = 0 THEN [start \in 0 .. Len(msg) - 1 |-> NotName]
        ELSE NamesWith(msg, decode[n - 1], pointerSize)
  IN IF at < Len(msg) THEN decode[MaxDepth + 1][at] ELSE NotName

(* Faulty: a pointer is taken to be one byte long.                         *)
decodeShortPointer(msg, off) == DecodeWith(msg, off, 1)

decodeDNSName(msg, off) == DecodeWith(msg, off, 2)

----------------------------------------------------------------------------
NoRecords(service) ==
  [service |-> TrimDot(service), instances |-> {}, srv |-> <<>>, txt |-> <<>>, ips |-> <<>>]

Strings(msg, from, to) ==                       \* the strings of a TXT record
  LET vals[p \in from .. to] ==
        IF p >= to \/ p + 1 + msg[p + 1] > to THEN <<>>
        ELSE <<SubSeq(msg, p + 2, p + 1 + msg[p + 1])>> \o vals[p + 1 + msg[p + 1]]
  IN vals[from]

AddIP(state, name, ip) ==
  LET old == IF name \in DOMAIN state.ips THEN state.ips[name] ELSE <<>>
  IN IF ip \in ToSet(old) THEN state
     ELSE [state EXCEPT !.ips = (name :> Append(old, ip)) @@ @]

(* The record at name, whose fixed part starts at next.                    *)
AddRecord(state, msg, name, next) ==
  LET type == Uint16(msg, next)
      rdlen == Uint16(msg, next + 8)
      rdata == next + 10
      end == rdata + rdlen
      target == decodeDNSName(msg, rdata)
      host == decodeDNSName(msg, rdata + 6)
  IN CASE type = 12 /\ target.ok /\ name = state.service ->
            [state EXCEPT !.instances = @ \cup {TrimDot(target.name)}]
       [] type = 33 /\ rdlen >= 6 /\ host.ok ->
            [state EXCEPT !.srv = (name :> [host |-> TrimDot(host.name), port |-> Uint16(msg, rdata + 4)]) @@ @]
       [] type = 16 -> [state EXCEPT !.txt = (name :> Strings(msg, rdata, end)) @@ @]
       [] (type = 1 /\ rdlen = 4) \/ (type = 28 /\ rdlen = 16) ->
            AddIP(state, name, SubSeq(msg, rdata + 1, end))
       [] OTHER -> state

Cut == -1                                       \* the packet ends too early

addPacketWith(state, msg, records) ==
  LET questions == Uint16(msg, 4)
      skip[i \in 0 .. questions] ==
        IF i = 0 THEN 12
        ELSE LET off == skip[i - 1]
                 q == IF off = Cut THEN NotName ELSE decodeDNSName(msg, off)
             IN IF q.ok /\ q.next + 4 <= Len(msg) THEN q.next + 4 ELSE Cut
      read[i \in 0 .. records] ==
        IF i = 0 THEN [state |-> state, off |-> skip[questions]]
        ELSE LET before == read[i - 1]
                 owner == IF before.off = Cut THEN NotName ELSE decodeDNSName(msg, before.off)
                 end == owner.next + 10 + Uint16(msg, owner.next + 8)
             IN IF owner.ok /\ owner.next + 10 <= Len(msg) /\ end <= Len(msg)
                THEN [state |-> AddRecord(before.state, msg, TrimDot(owner.name), owner.next), off |-> end]
                ELSE [state |-> before.state, off |-> Cut]
  IN IF Len(msg) < 12 THEN state ELSE read[records].state

(* Faulty: only the answers are read, not the two sections after them.     *)
addAnswersTo(state, msg) == addPacketWith(state, msg, Uint16(msg, 6))

addPacketTo(state, msg) ==
  addPacketWith(state, msg, Uint16(msg, 6) + Uint16(msg, 8) + Uint16(msg, 10))

InstanceOf(full, service) ==
  LET suffix == <<Dot>> \o service
  IN IF Len(full) > Len(suffix) THEN SubSeq(full, 1, Len(full) - Len(suffix))
     ELSE IF full = suffix THEN <<>> ELSE full

endpointsOf(state) ==
  UNION {LET srv == state.srv[full]
         IN {[instance |-> InstanceOf(full, state.service), host |-> srv.host, port |-> srv.port, ip |-> ip,
              txt |-> IF full \in DOMAIN state.txt THEN state.txt[full] ELSE <<>>] :
               ip \in IF srv.host \in DOMAIN state.ips THEN ToSet(state.ips[srv.host]) ELSE {}} :
         full \in {f \in state.instances : f \in DOMAIN state.srv}}
=============================================================================
