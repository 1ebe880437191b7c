----------------------------- MODULE Onboarding -----------------------------
(***************************************************************************)
(* From a key file to a connected device: LoadOrCreateKey, then            *)
(* PairAndConnectCode or PairAndConnectQR (highlevel.go, pair_code.go,     *)
(* qr.go:107-127) by one process, while other processes load the key.      *)
(* It composes KeyStore, Discovery (three times) and Pairing under the     *)
(* contexts that bound them: the caller's, with or without a deadline, two *)
(* minutes for pairing if it has none, 15 and 20 seconds for the address to*)
(* connect to.  Connect is one step; AdbHandshake is about it.             *)
(***************************************************************************)
EXTENDS KeyStore, Discovery, Pairing

CONSTANTS Main,         \* the process that pairs
          Airs,         \* the sets of records that may be in the air
          Plans         \* what Main does: "key", "wait", "code", "qr"

ASSUME OnboardingAssumption == Main \in Procs /\ "guid" \notin Procs

VARIABLES
  plan, wanted,         \* its plan, and the instances its match accepts
  listens,              \* the address and port the device listens on
  bounded,              \* the caller's context has a deadline
  over,                 \* deadlines passed, and "cancel": the caller cancelled
  stage, result,
  reached               \* the device is at the address that Connect is given

own == <<plan, wanted, listens, bounded>>
vars == <<keyVars, discVars, pairVars, own, over, stage, result, reached>>

Stages == {"key", "waitPair", "pair", "first", "second", "connect", "done"}

Init ==
  /\ KeyInit /\ DiscInit /\ PairInit
  /\ air \in Airs
  /\ plan \in Plans
  /\ wanted \in {{"target"}, {"target", "other"}}
  /\ plan = "qr" => wanted = {"target"}
  /\ listens \in (1 .. 2) \X (1 .. 2)
  /\ bounded \in BOOLEAN
  /\ over = {}
  /\ stage = "key" /\ result = "none" /\ reached = FALSE

(* Deadlines that bound the stage: those of the context it runs under.     *)
Deadlines ==
  CASE stage \in {"waitPair", "pair"} -> IF bounded THEN {"caller"} ELSE {"pairing"}
    [] stage = "first" -> {"first"} \cup (IF bounded THEN {"caller"}
                                          ELSE IF plan = "code" THEN {"pairing"} ELSE {})
    [] stage = "second" /\ plan # "wait" -> {"second"} \cup (IF bounded THEN {"caller"} ELSE {})
    [] OTHER -> IF bounded THEN {"caller"} ELSE {}

DeadlinePassed == over \cap Deadlines # {}
CtxDone == DeadlinePassed \/ "cancel" \in over

Waiting == stage \in {"waitPair", "first", "second"}

Enter(next) ==
  /\ stage' = next
  /\ IF next \in {"waitPair", "first", "second"} THEN Discover ELSE UNCHANGED discVars

Finish(r) == stage' = "done" /\ result' = r

KeyLoaded ==
  /\ stage = "key" /\ kpc[Main] = "rest"
  /\ IF held[Main] = "none" \/ plan = "key"
     THEN Finish(IF held[Main] = "none" THEN "err" ELSE "ok") /\ UNCHANGED discVars
     ELSE Enter(IF plan = "wait" THEN "second" ELSE "waitPair") /\ UNCHANGED result
  /\ UNCHANGED <<keyVars, pairVars, own, over, reached>>

(* Who answers at an endpoint: the device, if it is the device's and not   *)
(* out of date; otherwise another device, another program, or nobody.      *)
Answering(ep) ==
  IF ep.inst = "target" /\ <<ep.addr, ep.port>> = listens THEN {"device"} ELSE {"otherCode", "stranger"}

(* waitEndpoint takes an endpoint from the channel.                        *)
Found(ep) ==
  /\ Waiting /\ Receive(ep)
  /\ IF ep.inst \in wanted
     THEN IF stage = "waitPair"
          THEN stage' = "pair" /\ \E who \in Answering(ep) : StartPair(who)
               /\ UNCHANGED reached
          ELSE /\ stage' = IF plan = "wait" THEN "done" ELSE "connect"
               /\ reached' = ("device" \in Answering(ep))
               /\ UNCHANGED pairVars
     ELSE UNCHANGED <<stage, reached, pairVars>>
  /\ UNCHANGED <<keyVars, own, over, result>>

(* It ends without: ctx has ended, or the channel was closed.  Without the *)
(* first address there is a second try; without the second, an error.      *)
NotFound ==
  /\ Waiting /\ (CtxDone \/ Closed)
  /\ IF stage = "first" THEN Enter("second") /\ UNCHANGED result
     ELSE Finish("err") /\ UNCHANGED discVars
  /\ UNCHANGED <<keyVars, pairVars, own, over, reached>>

Pairs ==
  /\ stage = "pair"
  /\ PairStep(held[Main])
  /\ UNCHANGED <<keyVars, discVars, own, over, stage, result, reached>>

(* An error of the network may come at any time, a deadline must.          *)
PairBreaks ==
  /\ stage = "pair"
  /\ PairFails
  /\ UNCHANGED <<keyVars, discVars, own, over, stage, result, reached>>

Paired ==
  /\ stage = "pair" /\ PairOver
  /\ IF ppc = "ok" THEN Enter("first") /\ UNCHANGED result
     ELSE Finish("err") /\ UNCHANGED discVars
  /\ EndPair
  /\ UNCHANGED <<keyVars, own, over, reached>>

(* Connect.  The device accepts the key it has stored.  Dial checks neither*)
(* a certificate nor a GUID, and a bare CNXN will do: whoever else answers *)
(* can be connected to.  A silent peer is given up at the deadline, if     *)
(* there is one.                                                           *)
Connects ==
  /\ stage = "connect"
  /\ \/ (reached => stored = held[Main]) /\ Finish("ok")
     \/ Finish("err")
  /\ UNCHANGED <<keyVars, discVars, pairVars, own, over, reached>>

MainStep ==
  \/ KeyLoaded \/ (\E ep \in {Head(chan) : i \in DOMAIN chan} : Found(ep))
  \/ NotFound \/ Pairs \/ Paired

----------------------------------------------------------------------------
Keys(p) ==
  /\ p = Main => stage = "key"
  /\ KeyStep(p)
  /\ UNCHANGED <<discVars, pairVars, own, over, stage, result, reached>>

(* A crash of Main loses all but the file and what the device has stored.  *)
Crashes(p) ==
  /\ CrashKey(p)
  /\ IF p = Main
     THEN /\ stage' = "key" /\ result' = "none" /\ over' = {} /\ reached' = FALSE
          /\ NoDiscovery /\ NoPairing
          /\ UNCHANGED own
     ELSE UNCHANGED <<discVars, pairVars, own, over, stage, result, reached>>

others == <<keyVars, pairVars, own, over, stage, result, reached>>

Arrives == (\E P \in Packets : ReadPacket(P)) /\ UNCHANGED others
LoopOffers == Offer /\ UNCHANGED others

(* The contexts of PairAndConnect* are cancelled on return (while it        *)
(* connects, that of the second try has its own deadline); the caller's is  *)
(* not, on which WaitConnectEndpoint runs the discovery.                    *)
LoopStops ==
  /\ CtxDone \/ (plan # "wait" /\ stage \in {"connect", "done"})
  /\ LoopExits
  /\ UNCHANGED others

LoopFails == SocketFails /\ UNCHANGED others

PeerActs ==
  /\ stage = "pair"
  /\ PeerStep
  /\ UNCHANGED <<keyVars, discVars, own, over, stage, result, reached>>

TimeOut(d) ==
  /\ d \in Deadlines \ over /\ stage # "key"
  /\ over' = over \cup {d}
  /\ UNCHANGED <<keyVars, discVars, pairVars, own, stage, result, reached>>

Cancel ==
  /\ "cancel" \notin over /\ stage \notin {"key", "done"}
  /\ over' = over \cup {"cancel"}
  /\ UNCHANGED <<keyVars, discVars, pairVars, own, stage, result, reached>>

Next ==
  \/ MainStep \/ PairBreaks \/ Connects \/ PeerActs \/ Cancel
  \/ Arrives \/ LoopOffers \/ LoopStops \/ LoopFails
  \/ \E p \in Procs : Keys(p) \/ Crashes(p)
  \/ \E d \in {"caller", "pairing", "first", "second"} : TimeOut(d)
  \/ stage = "done" /\ UNCHANGED vars

(* Goroutines run, deadlines pass, and a socket with a deadline that has   *)
(* passed fails.  Peers and the network promise nothing.                   *)
OnboardingFairness ==
  /\ WF_vars(MainStep) /\ WF_vars(LoopStops)
  /\ \A p \in Procs : WF_vars(Keys(p))
  /\ WF_vars(DeadlinePassed /\ (PairBreaks \/ Connects))
  /\ \A d \in {"caller", "pairing", "first", "second"} : WF_vars(TimeOut(d))

Spec == Init /\ [][Next]_vars /\ OnboardingFairness

----------------------------------------------------------------------------
(* The key a process uses, and so the one a device has stored at pairing,  *)
(* is the one the file holds: after a crash or a failed write too, but not *)
(* if two processes created the file at once (conveniences.go:16-28).      *)
KeyIsKept ==
  ~overlap =>
    /\ \A p \in Procs : held[p] # "none" => file = held[p]
    /\ stored # "none" => file = stored

(* When the loop is back at reading, everything the records seen so far    *)
(* amount to has been sent on the channel as it is: each instance at every *)
(* address of its host, at its present port and with its present TXT,      *)
(* whatever the order of the records (mdns.go:75-88).                      *)
OffersWhatItKnows ==
  loop = "read" =>
    \A ep \in endpoints(mdns) : LET at == <<ep.inst, ep.addr, ep.port>> IN
      at \in DOMAIN sent /\ sent[at] = ep.txt

(* Pair succeeds only with the device that showed the code, and reports a  *)
(* wrong code only to one that did not: packets of another kind, in another*)
(* order or sent back do neither (pairing.go:78-133).  When it has         *)
(* succeeded, and until PairAndConnect* have returned, that device has     *)
(* stored the key that Connect is given (highlevel.go:26, 47).  Who answers*)
(* at the address found then is another matter: Connect does not check.    *)
PairingAgrees ==
  /\ ppc = "ok" => peer = "device"
  /\ ppc = "badTag" => peer # "device"
  /\ plan \in {"code", "qr"} /\ (stage \in {"first", "second", "connect"} \/ result = "ok") =>
       stored = held[Main]

(* PairAndConnect* return by their own deadlines whatever the network and  *)
(* the peer do, up to Connect, which is left to the deadline of the caller *)
(* (highlevel.go:26, 47); then no discovery goes on, though its channel    *)
(* may be full and unread (mdns.go:83-87).  WaitConnectEndpoint and its    *)
(* discovery have no end of their own but the caller's deadline.           *)
OnboardingEnds ==
  LET Bounded == bounded \/ plan # "wait" IN
    /\ Bounded /\ stage \notin {"key", "done"} ~> stage \in {"key", "connect", "done"}
    /\ bounded /\ stage = "connect" ~> stage \in {"key", "done"}
    /\ Bounded /\ stage = "done" ~> loop \in {"off", "exited"} \/ stage = "key"
=============================================================================
