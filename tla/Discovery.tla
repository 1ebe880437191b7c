------------------------------ MODULE Discovery ------------------------------
(***************************************************************************)
(* One call of Discover (mdns.go:33-90) and the waitEndpoint that reads    *)
(* from it (mdns.go:108-129).  Datagrams are lost, repeated and late: any  *)
(* packet of records that some host announces, or used to announce, may    *)
(* arrive next.  A record is taken as decoded; DnsNames is about that.     *)
(* Each instance is at a host of its own, which may move to another address*)
(* or port; the order of the addresses of a host is left out.              *)
(***************************************************************************)
EXTENDS Naturals, Sequences, Functions

CONSTANT ChanCap        \* capacity of the channel of endpoints: 16

ASSUME DiscoveryAssumption == ChanCap \in Nat \ {0}

VARIABLES
  air,                  \* the records that hosts announce or announced
  mdns,                 \* mdnsState: PTR, SRV, TXT and A records seen; addresses
                        \* are only ever added
  sent,                 \* what was sent for each key
  offers,               \* endpoints of the last packet still to be looked at
  chan,                 \* the channel
  loop                  \* discoverMDNS: "off", "read", "offer", "exited"

discVars == <<air, mdns, sent, offers, chan, loop>>

NoState == [ptr |-> {}, srv |-> <<>>, txt |-> <<>>, a |-> {}]

DiscInit ==
  /\ mdns = NoState /\ sent = <<>> /\ offers = {} /\ chan = <<>> /\ loop = "off"

NoDiscovery ==
  /\ mdns' = NoState /\ sent' = <<>> /\ offers' = {} /\ chan' = <<>> /\ loop' = "off"
  /\ UNCHANGED air

Discover ==
  /\ mdns' = NoState /\ sent' = <<>> /\ offers' = {} /\ chan' = <<>> /\ loop' = "read"
  /\ UNCHANGED air

(* At most one SRV and one TXT record of an instance in a packet.          *)
Packets ==
  {P \in SUBSET air :
     \A x, y \in P : x.type = y.type /\ x.inst = y.inst /\ x.type # "a" => x = y}

(* What the records r of one type in P say, by instance.                   *)
Said(P, type) ==
  [i \in {x.inst : x \in {y \in P : y.type = type}} |->
     (CHOOSE x \in P : x.type = type /\ x.inst = i).value]

Over(new, old) ==
  [i \in DOMAIN new \cup DOMAIN old |-> IF i \in DOMAIN new THEN new[i] ELSE old[i]]

addPacket(P) ==
  [ptr |-> mdns.ptr \cup DOMAIN Said(P, "ptr"),
   srv |-> Over(Said(P, "srv"), mdns.srv),
   txt |-> Over(Said(P, "txt"), mdns.txt),
   a |-> mdns.a \cup {<<x.inst, x.value>> : x \in {y \in P : y.type = "a"}}]

endpoints(state) ==
  {[inst |-> at[1], addr |-> at[2], port |-> state.srv[at[1]],
    txt |-> IF at[1] \in DOMAIN state.txt THEN state.txt[at[1]] ELSE 0] :
     at \in {h \in state.a : h[1] \in state.ptr \cap DOMAIN state.srv}}

(* Faulty: the address is not part of the key.                             *)
InstanceKey(ep) == <<ep.inst>>

Key(ep) == <<ep.inst, ep.addr, ep.port>>
Fingerprint(ep) == ep.txt       \* an instance keeps its host
WasSent(ep) == Key(ep) \in DOMAIN sent /\ sent[Key(ep)] = Fingerprint(ep)

ReadPacket(P) ==
  /\ loop = "read"
  /\ mdns' = addPacket(P)
  /\ offers' = {ep \in endpoints(mdns') : ~WasSent(ep)}
  /\ loop' = IF offers' = {} THEN "read" ELSE "offer"
  /\ UNCHANGED <<air, sent, chan>>

(* One turn of the loop over the endpoints, in the order of a map.         *)
Offer ==
  /\ loop = "offer" /\ Len(chan) < ChanCap
  /\ \E ep \in offers :
       /\ sent' = Over([k \in {Key(ep)} |-> Fingerprint(ep)], sent)
       /\ chan' = Append(chan, ep)
       /\ offers' = offers \ {ep}
       /\ loop' = IF offers' = {} THEN "read" ELSE "offer"
  /\ UNCHANGED <<air, mdns>>

LoopExitsFrom(points) ==
  /\ loop \in points
  /\ loop' = "exited"
  /\ UNCHANGED <<air, mdns, sent, offers, chan>>

(* Faulty: the send on the channel is not in a select with ctx.Done.       *)
LoopExitsAtRead == LoopExitsFrom({"read"})

(* ctx has ended, at the head of the loop or while the channel is full;    *)
(* the channel is closed.                                                  *)
LoopExits == LoopExitsFrom({"read", "offer"})

SocketFails == LoopExitsFrom({"read"})

Receive(ep) ==
  /\ chan # <<>> /\ ep = Head(chan)
  /\ chan' = Tail(chan)
  /\ UNCHANGED <<air, mdns, sent, offers, loop>>

Closed == chan = <<>> /\ loop = "exited"
=============================================================================
