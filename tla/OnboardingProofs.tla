-------------------------- MODULE OnboardingProofs --------------------------
(***************************************************************************)
(* Proofs about Onboarding for any number of processes and crashes, any    *)
(* records in the air and any capacity of the channel.                     *)
(***************************************************************************)
EXTENDS Onboarding, TLAPS

(* Every key comes from a process.                                         *)
KeysAreOfProcs ==
  /\ kpc \in [Procs -> {"start", "generate", "write", "rest"}]
  /\ held \in [Procs -> Procs \cup {"none"}]
  /\ stored \in Procs \cup {"none"}

(* As long as no two processes created the file at once, one that is       *)
(* writing it is alone and has cut it.                                     *)
OneWriter ==
  ~overlap => \A p \in Procs : kpc[p] = "write" =>
                /\ file = "cut"
                /\ \A q \in Procs \ {p} : kpc[q] # "write"

(* A pairing goes on only with a key, which is what our PeerInfo carries.  *)
PairsWithItsKey ==
  /\ stage \in {"waitPair", "pair", "first", "second", "connect"} => held[Main] # "none"
  /\ toPeer # NoPacket => stage = "pair"
  /\ toPeer.type = "info" => toPeer.info = held[Main] /\ toPeer.key = OurKey

KeyInvariant == KeysAreOfProcs /\ OneWriter /\ PairsWithItsKey /\ KeyIsKept

----------------------------------------------------------------------------
LEMMA InitKeepsKeys == Init => KeyInvariant
<1> SUFFICES ASSUME Init PROVE KeyInvariant
  OBVIOUS
<1>1. KeysAreOfProcs
  <2>1. kpc \in [Procs -> {"start", "generate", "write", "rest"}]
    BY DEF Init, KeyInit
  <2> QED BY <2>1 DEF Init, KeyInit, PairInit, KeysAreOfProcs
<1>2. OneWriter /\ KeyIsKept
  BY DEF Init, KeyInit, PairInit, OneWriter, KeyIsKept
<1>3. PairsWithItsKey
  BY DEF Init, PairInit, PairsWithItsKey, NoPacket
<1> QED BY <1>1, <1>2, <1>3 DEF KeyInvariant

(* What a step of LoadOrCreateKey by p does to the file and to the keys.   *)
LEMMA KeyStepKeepsKeys ==
  ASSUME KeyInvariant, NEW p \in Procs, Keys(p) \/ Crashes(p)
  PROVE  KeysAreOfProcs' /\ OneWriter' /\ KeyIsKept'
<1>1. stored' = stored
  BY DEF Keys, Crashes, pairVars, NoPairing, PairWith
<1> USE KeyStoreAssumption, <1>1
    DEF KeyInvariant, KeysAreOfProcs, OneWriter, KeyIsKept, KeyGoes
<1>2. CASE LoadKey(p)
  BY <1>2 DEF LoadKey
<1>3. CASE CreateFile(p)
  <2>1. CASE kpc' = [kpc EXCEPT ![p] = "rest"] /\ UNCHANGED <<file, overlap, held>>
    BY <2>1
  <2>2. CASE /\ kpc' = [kpc EXCEPT ![p] = "write"] /\ file' = "cut" /\ UNCHANGED held
             /\ ~overlap' => ~overlap /\ file = "absent" /\ \A q \in Procs \ {p} : kpc[q] # "write"
    <3>1. KeysAreOfProcs'
      BY <2>2
    <3>2. OneWriter'
      BY <2>2
    <3>3. KeyIsKept'
      <4>1. ~overlap' => stored = "none" /\ \A q \in Procs : held[q] = "none"
        BY <2>2
      <4> QED BY <2>2, <4>1
    <3> QED BY <3>1, <3>2, <3>3
  <2> QED BY <1>3, <2>1, <2>2 DEF CreateFile, Creating
<1>4. CASE WriteKey(p)
  BY <1>4 DEF WriteKey
<1>5. CASE WriteKeyFails(p)
  BY <1>5 DEF WriteKeyFails, WriteKeyFailsWith
<1>6. CASE CrashKey(p)
  BY <1>6 DEF CrashKey
<1> QED BY <1>2, <1>3, <1>4, <1>5, <1>6 DEF Keys, Crashes, KeyStep

(* Main's key changes only where no pairing goes on.                       *)
LEMMA KeyStepKeepsPairing ==
  ASSUME KeyInvariant, NEW p \in Procs, Keys(p) \/ Crashes(p)
  PROVE  PairsWithItsKey'
<1> USE OnboardingAssumption DEF KeyInvariant, KeysAreOfProcs, PairsWithItsKey
<1>1. CASE Keys(p)
  <2>1. p # Main => held'[Main] = held[Main]
    BY <1>1 DEF Keys, KeyStep, LoadKey, CreateFile, WriteKey, WriteKeyFails, WriteKeyFailsWith
  <2>2. UNCHANGED <<stage, toPeer, peer>> /\ (p = Main => stage = "key")
    BY <1>1 DEF Keys, pairVars
  <2>3. NoPacket.type # "info"
    BY DEF NoPacket
  <2> QED BY <2>1, <2>2, <2>3 DEF OurKey
<1>2. CASE Crashes(p)
  <2>1. CASE p = Main
    BY <1>2, <2>1 DEF Crashes, NoPairing, PairWith, NoPacket
  <2>2. CASE p # Main
    <3>1. held'[Main] = held[Main]
      BY <1>2, <2>2 DEF Crashes, CrashKey
    <3>2. UNCHANGED <<stage, toPeer, peer>>
      BY <1>2, <2>2 DEF Crashes, pairVars
    <3> QED BY <3>1, <3>2 DEF OurKey
  <2> QED BY <2>1, <2>2
<1> QED BY <1>1, <1>2

LEMMA PairStepKeepsKeys ==
  ASSUME KeyInvariant, Pairs \/ PairBreaks \/ PeerActs
  PROVE  KeyInvariant'
<1>1. UNCHANGED <<keyVars, stage>> /\ stage = "pair"
  BY DEF Pairs, PairBreaks, PeerActs
<1>2. held[Main] \in Procs
  BY <1>1, OnboardingAssumption DEF KeyInvariant, KeysAreOfProcs, PairsWithItsKey
<1> USE <1>1, <1>2 DEF KeyInvariant, PairsWithItsKey, keyVars
<1>3. PairsWithItsKey'
  <2>1. CASE Pairs \/ PairBreaks
    <3>1. CASE DialAndSend
      BY <3>1 DEF DialAndSend, SpakeFrom, NoPacket
    <3>2. CASE ReadSpake(held[Main])
      BY <3>2 DEF ReadSpake, Box, NoPacket, OurKey
    <3>3. CASE ReadInfo \/ PairFails
      BY <3>3 DEF ReadInfo, ReadInfoIf, PairFails, OurKey
    <3> QED BY <2>1, <3>1, <3>2, <3>3 DEF Pairs, PairBreaks, PairStep
  <2>2. CASE PeerActs
    BY <2>2 DEF PeerActs, PeerStep, DeviceAnswers, StrangerSends, OurKey, NoPacket
  <2> QED BY <2>1, <2>2
<1>4. stored' \in {stored, held[Main]}
  BY DEF Pairs, PairBreaks, PeerActs, PairStep, DialAndSend, ReadSpake, ReadInfo, ReadInfoIf,
         PairFails, PeerStep, DeviceAnswers, StrangerSends
<1>5. KeysAreOfProcs' /\ OneWriter' /\ KeyIsKept'
  BY <1>4, OnboardingAssumption, KeyStoreAssumption DEF KeysAreOfProcs, OneWriter, KeyIsKept
<1> QED BY <1>3, <1>5

(* The other steps leave the keys alone and the pairing too, but for its   *)
(* beginning and its end.                                                  *)
OtherSteps ==
  \/ KeyLoaded \/ (\E ep \in {Head(chan) : i \in DOMAIN chan} : Found(ep))
  \/ NotFound \/ Paired \/ Connects \/ Cancel
  \/ Arrives \/ LoopOffers \/ LoopStops \/ LoopFails
  \/ \E d \in {"caller", "pairing", "first", "second"} : TimeOut(d)
  \/ UNCHANGED vars

LEMMA OtherStepsKeepKeys ==
  ASSUME KeyInvariant, OtherSteps
  PROVE  KeyInvariant'
<1>1. UNCHANGED <<keyVars, stored>>
  BY DEF OtherSteps, KeyLoaded, Found, NotFound, Paired, Connects, Cancel, Arrives, LoopOffers,
         LoopStops, LoopFails, TimeOut, others, pairVars, vars, StartPair, EndPair, PairWith
<1>2. KeysAreOfProcs' /\ OneWriter' /\ KeyIsKept'
  BY <1>1 DEF KeyInvariant, KeysAreOfProcs, OneWriter, KeyIsKept, keyVars
<1>3. PairsWithItsKey'
  <2> USE <1>1 DEF KeyInvariant, PairsWithItsKey, keyVars, NoPacket
  <2>1. CASE KeyLoaded
    BY <2>1 DEF KeyLoaded, Finish, Enter, pairVars, OurKey
  <2>2. ASSUME NEW ep, Found(ep) PROVE PairsWithItsKey'
    BY <2>2 DEF Found, Waiting, pairVars, OurKey, StartPair, PairWith
  <2>3. CASE NotFound
    BY <2>3 DEF NotFound, Waiting, Enter, Finish, pairVars, OurKey
  <2>4. CASE Paired
    BY <2>4 DEF Paired, Enter, Finish, EndPair, PairWith
  <2>5. CASE Connects
    BY <2>5 DEF Connects, Finish, pairVars, OurKey
  <2>6. CASE UNCHANGED <<stage, toPeer, peer>>
    BY <2>6 DEF OurKey
  <2>7. Cancel \/ Arrives \/ LoopOffers \/ LoopStops \/ LoopFails \/ UNCHANGED vars
          \/ (\E d \in {"caller", "pairing", "first", "second"} : TimeOut(d))
          => UNCHANGED <<stage, toPeer, peer>>
    BY DEF Cancel, Arrives, LoopOffers, LoopStops, LoopFails, TimeOut, others, vars, pairVars
  <2> QED BY <2>1, <2>2, <2>3, <2>4, <2>5, <2>6, <2>7 DEF OtherSteps
<1> QED BY <1>2, <1>3 DEF KeyInvariant

(* Next, by who takes the step.                                            *)
LEMMA NextSplits ==
  [Next]_vars => \/ \E p \in Procs : Keys(p) \/ Crashes(p)
                 \/ Pairs \/ PairBreaks \/ PeerActs
                 \/ OtherSteps
BY DEF Next, MainStep, OtherSteps

LEMMA AlwaysKeyInvariant == Spec => []KeyInvariant
<1>1. KeyInvariant /\ [Next]_vars => KeyInvariant'
  BY NextSplits, KeyStepKeepsKeys, KeyStepKeepsPairing, PairStepKeepsKeys, OtherStepsKeepKeys
     DEF KeyInvariant
<1> QED BY InitKeepsKeys, <1>1, PTL DEF Spec

(* Whatever processes crash or fail, unless two created the file at once:  *)
(* the key in use, and the one a device stored at pairing, is the one the  *)
(* file holds (conveniences.go:16-28).                                     *)
THEOREM KeysAreKept == Spec => []KeyIsKept
BY AlwaysKeyInvariant, PTL DEF KeyInvariant

----------------------------------------------------------------------------
(* What is not left to be looked at has been sent as it is.                *)
OfferInvariant ==
  /\ offers \subseteq endpoints(mdns)
  /\ loop = "read" => offers = {}
  /\ loop \in {"read", "offer"} => \A ep \in endpoints(mdns) \ offers : WasSent(ep)

(* An instance has one endpoint at a time at an address.                   *)
LEMMA EndpointsByKey ==
  ASSUME NEW state, NEW e \in endpoints(state), NEW f \in endpoints(state), Key(e) = Key(f)
  PROVE  e = f
BY DEF endpoints, Key

LEMMA NothingKnown == endpoints(NoState) = {}
BY DEF endpoints, NoState

LEMMA OfferKeepsOffers ==
  ASSUME OfferInvariant, Offer
  PROVE  OfferInvariant'
<1>1. PICK ep \in offers :
        /\ sent' = Over([k \in {Key(ep)} |-> Fingerprint(ep)], sent)
        /\ offers' = offers \ {ep}
        /\ loop' = IF offers' = {} THEN "read" ELSE "offer"
  BY DEF Offer
<1>2. loop = "offer" /\ mdns' = mdns
  BY DEF Offer
<1>3. WasSent(ep)'
  BY <1>1 DEF WasSent, Over, Key, Fingerprint
<1>4. ASSUME NEW e \in endpoints(mdns) \ offers
      PROVE  WasSent(e)'
  <2>1. WasSent(e) /\ Key(e) # Key(ep)
    BY <1>1, <1>2, <1>4, EndpointsByKey DEF OfferInvariant
  <2> QED BY <1>1, <2>1 DEF WasSent, Over, Key, Fingerprint
<1> QED BY <1>1, <1>2, <1>3, <1>4 DEF OfferInvariant, endpoints

LEMMA ReadKeepsOffers ==
  ASSUME NEW P, ReadPacket(P)
  PROVE  OfferInvariant'
<1>1. /\ offers' = {ep \in endpoints(mdns)' : ~WasSent(ep)}
      /\ loop' = IF offers' = {} THEN "read" ELSE "offer"
      /\ sent' = sent
  BY DEF ReadPacket, endpoints
<1>2. \A ep : WasSent(ep)' <=> WasSent(ep)
  BY <1>1 DEF WasSent, Key, Fingerprint
<1> QED BY <1>1, <1>2 DEF OfferInvariant

LEMMA StartKeepsOffers ==
  ASSUME Discover \/ NoDiscovery
  PROVE  OfferInvariant'
<1>1. mdns' = NoState /\ offers' = {}
  BY DEF Discover, NoDiscovery
<1>2. endpoints(mdns)' = {}
  BY <1>1, NothingKnown DEF endpoints
<1> QED BY <1>1, <1>2 DEF OfferInvariant

LEMMA OthersKeepOffers ==
  ASSUME OfferInvariant, UNCHANGED <<mdns, sent, offers>>, loop' \in {loop, "exited"}
  PROVE  OfferInvariant'
BY DEF OfferInvariant, endpoints, WasSent, Key, Fingerprint

LEMMA NextKeepsOffers ==
  ASSUME OfferInvariant, [Next]_vars
  PROVE  OfferInvariant'
<1> USE DEF discVars
<1>1. CASE \E P \in Packets : ReadPacket(P)
  BY <1>1, ReadKeepsOffers
<1>2. CASE Offer
  BY <1>2, OfferKeepsOffers
<1>3. CASE Discover \/ NoDiscovery
  BY <1>3, StartKeepsOffers
<1>4. CASE UNCHANGED <<mdns, sent, offers>> /\ loop' \in {loop, "exited"}
  BY <1>4, OthersKeepOffers
<1>5. CASE KeyLoaded \/ NotFound \/ Paired
  BY <1>3, <1>4, <1>5 DEF KeyLoaded, NotFound, Paired, Enter
<1>6. CASE \E p \in Procs : Keys(p) \/ Crashes(p)
  BY <1>3, <1>4, <1>6 DEF Keys, Crashes
<1>7. CASE (\E ep : Found(ep)) \/ LoopStops \/ LoopFails
  BY <1>4, <1>7 DEF Found, Receive, LoopStops, LoopFails, LoopExits, SocketFails, LoopExitsFrom
<1>8. CASE \/ Pairs \/ PairBreaks \/ PeerActs \/ Connects \/ Cancel \/ UNCHANGED vars
           \/ \E d \in {"caller", "pairing", "first", "second"} : TimeOut(d)
  BY <1>4, <1>8 DEF Pairs, PairBreaks, PeerActs, Connects, Cancel, TimeOut, vars
<1>9. CASE Arrives \/ LoopOffers
  BY <1>1, <1>2, <1>9 DEF Arrives, LoopOffers
<1> QED BY <1>5, <1>6, <1>7, <1>8, <1>9 DEF Next, MainStep

(* When the loop reads again, every endpoint it can make from the records   *)
(* has been sent with its present port and TXT (mdns.go:75-88).            *)
THEOREM KnownIsOffered == Spec => []OffersWhatItKnows
<1>1. Init => OfferInvariant
  BY NothingKnown DEF Init, DiscInit, OfferInvariant
<1>2. OfferInvariant /\ [Next]_vars => OfferInvariant'
  BY NextKeepsOffers
<1>3. OfferInvariant => OffersWhatItKnows
  BY DEF OfferInvariant, OffersWhatItKnows, WasSent, Key, Fingerprint
<1> QED BY <1>1, <1>2, <1>3, PTL DEF Spec

----------------------------------------------------------------------------
(* What the peer's PeerInfo can be: the device's first box, sent once it   *)
(* has stored our key, or, from any other peer, a box under its own key or *)
(* our box sent back.  Each end counts from zero.                          *)
PeersBox ==
  IF peer = "device" THEN toUs.key = "common" /\ toUs.seq = 0 /\ stored = held[Main]
                     ELSE toUs.key = "theirs" \/ toUs.info = held[Main]

PairInvariant ==
  /\ seqs \in [enc : Nat, dec : Nat, devEnc : Nat, devDec : Nat]
  /\ ppc \in {"dial", "spake", "info"} => seqs.dec = 0
  /\ ppc \in {"dial", "spake"} => seqs.enc = 0
  /\ dpc # "ended" => seqs.devEnc = 0 /\ seqs.devDec = 0
  /\ toPeer.type = "info" => toPeer.seq = 0
  /\ toUs # NoPacket => stage = "pair"
  /\ toUs.type = "info" => PeersBox
  /\ ppc = "ok" => peer = "device"
  /\ ppc = "ok" /\ stage = "pair" => stored = held[Main]
  /\ ppc = "badTag" => peer # "device"

(* A result is the last thing there is, and what follows a pairing uses the*)
(* key that the device has stored.                                         *)
ResultInvariant ==
  /\ result # "none" => stage = "done"
  /\ plan \in {"code", "qr"} /\ (stage \in {"first", "second", "connect"} \/ result = "ok") =>
       stored = held[Main]

LEMMA DeviceCounts ==
  ASSUME NEW c \in [enc : Nat, dec : Nat, devEnc : Nat, devDec : Nat],
         NEW d, d = [c EXCEPT !.devEnc = @ + 1, !.devDec = @ + 1]
  PROVE  /\ d \in [enc : Nat, dec : Nat, devEnc : Nat, devDec : Nat]
         /\ d.dec = c.dec /\ d.enc = c.enc
<1>1. c = [enc |-> c.enc, dec |-> c.dec, devEnc |-> c.devEnc, devDec |-> c.devDec]
  OBVIOUS
<1>2. d = [enc |-> c.enc, dec |-> c.dec, devEnc |-> c.devEnc + 1, devDec |-> c.devDec + 1]
  BY <1>1, Zenon
<1> QED BY <1>2

LEMMA PairStepKeepsPairing ==
  ASSUME KeyInvariant, PairInvariant, Pairs \/ PairBreaks \/ PeerActs
  PROVE  PairInvariant'
<1>1. UNCHANGED <<keyVars, stage, peer>> /\ stage = "pair"
  BY DEF Pairs, PairBreaks, PeerActs, PairStep, DialAndSend, ReadSpake, ReadInfo, ReadInfoIf,
         PairFails, PeerStep, DeviceAnswers, StrangerSends
<1>2. held[Main] # "guid"
  BY <1>1, OnboardingAssumption DEF KeyInvariant, KeysAreOfProcs, PairsWithItsKey
<1> USE <1>1 DEF PairInvariant, PeersBox, keyVars
<1>3. CASE DialAndSend \/ PairFails
  BY <1>3 DEF DialAndSend, PairFails, SpakeFrom
<1>4. CASE ReadSpake(held[Main])
  <2>1. CASE toUs.type = "spake"
    <3>1. /\ seqs.enc = 0 /\ seqs' = [seqs EXCEPT !.enc = @ + 1]
          /\ toPeer' = Box(OurKey, seqs.enc, held[Main]) /\ toUs' = NoPacket /\ ppc' = "info"
      BY <1>4, <2>1 DEF ReadSpake
    <3>2. /\ seqs' \in [enc : Nat, dec : Nat, devEnc : Nat, devDec : Nat]
          /\ seqs'.dec = seqs.dec /\ seqs'.devEnc = seqs.devEnc /\ seqs'.devDec = seqs.devDec
      BY <3>1
    <3>3. toPeer'.seq = 0 /\ toUs'.type # "info"
      BY <3>1 DEF Box, NoPacket
    <3> QED BY <1>4, <3>1, <3>2, <3>3 DEF ReadSpake
  <2>2. CASE toUs.type # "spake"
    BY <1>4, <2>2 DEF ReadSpake, NoPacket
  <2> QED BY <2>1, <2>2
<1>5. CASE ReadInfo
  BY <1>2, <1>5 DEF ReadInfo, ReadInfoIf, NoPacket, OurKey
<1>6. CASE DeviceAnswers
  <2>1. CASE dpc = "spake"
    BY <1>6, <2>1 DEF DeviceAnswers, SpakeFrom, NoPacket
  <2>2. CASE dpc = "info"
    <3>1. toUs' = Box(PeerKey, 0, "guid") /\ dpc' = "ended" /\ ppc' = ppc
      BY <1>6, <2>2 DEF DeviceAnswers
    <3>2. seqs' \in [enc : Nat, dec : Nat, devEnc : Nat, devDec : Nat] /\ seqs'.dec = seqs.dec
          /\ seqs'.enc = seqs.enc
      <4>1. seqs' = [seqs EXCEPT !.devEnc = @ + 1, !.devDec = @ + 1]
        BY <1>6, <2>2 DEF DeviceAnswers
      <4> QED BY <4>1, DeviceCounts
    <3>3. toUs'.key = PeerKey /\ toUs'.seq = 0
      BY <3>1 DEF Box
    <3>4. peer = "device" => stored' = held[Main]
      <4>1. peer = "device" => toPeer.key = PeerKey /\ toPeer.seq = seqs.devDec /\ toPeer.info = held[Main]
        BY <1>6, <2>2 DEF DeviceAnswers, KeyInvariant, PairsWithItsKey, OurKey, PeerKey
      <4> QED BY <1>6, <2>2, <4>1 DEF DeviceAnswers
    <3>5. toPeer' = NoPacket
      BY <1>6 DEF DeviceAnswers
    <3> QED BY <3>1, <3>2, <3>3, <3>4, <3>5 DEF PeerKey, NoPacket
  <2> QED BY <1>6, <2>1, <2>2 DEF DeviceAnswers
<1>7. CASE StrangerSends
  BY <1>7 DEF StrangerSends, SpakeFrom, Box, KeyInvariant, PairsWithItsKey
<1> QED BY <1>3, <1>4, <1>5, <1>6, <1>7 DEF Pairs, PairBreaks, PeerActs, PairStep, PeerStep

(* A pairing begins and ends with nothing on its way.                      *)
LEMMA FreshPairing ==
  ASSUME NEW who, NEW pc, NEW dev, PairWith(who, pc, dev), PairInvariant,
         pc \notin {"ok", "badTag"} \/ (who = peer /\ pc = ppc /\ stage' # "pair")
  PROVE  PairInvariant'
BY DEF PairWith, PairInvariant, NoSeqs, NoPacket

LEMMA OthersKeepPairing ==
  ASSUME PairInvariant, UNCHANGED pairVars, held'[Main] = held[Main],
         toUs # NoPacket => stage' = stage, stage' = "pair" => stage = "pair"
  PROVE  PairInvariant'
BY DEF PairInvariant, pairVars, PeersBox, NoPacket

LEMMA NextKeepsPairing ==
  ASSUME KeyInvariant, PairInvariant, [Next]_vars
  PROVE  PairInvariant'
<1>1. CASE Pairs \/ PairBreaks \/ PeerActs
  BY <1>1, PairStepKeepsPairing
<1>2. ASSUME NEW p \in Procs, Keys(p) PROVE PairInvariant'
  <2>1. UNCHANGED <<pairVars, stage>> /\ (p = Main => stage = "key")
    BY <1>2 DEF Keys
  <2>2. p # Main => held'[Main] = held[Main]
    BY <1>2, OnboardingAssumption DEF Keys, KeyStep, LoadKey, CreateFile, WriteKey,
          WriteKeyFails, WriteKeyFailsWith, KeyInvariant, KeysAreOfProcs
  <2>3. CASE p = Main
    <3>1. toUs = NoPacket /\ toUs' = NoPacket
      BY <2>1, <2>3 DEF PairInvariant, pairVars
    <3>2. stage' # "pair"
      BY <2>1, <2>3
    <3> QED BY <2>1, <3>1, <3>2 DEF PairInvariant, pairVars, NoPacket
  <2> QED BY <2>1, <2>2, <2>3, OthersKeepPairing
<1>3. ASSUME NEW p \in Procs, Crashes(p) PROVE PairInvariant'
  <2>1. CASE p = Main
    BY <1>3, <2>1, FreshPairing DEF Crashes, NoPairing
  <2>2. CASE p # Main
    <3>1. held'[Main] = held[Main] /\ UNCHANGED <<pairVars, stage>>
      BY <1>3, <2>2, OnboardingAssumption DEF Crashes, CrashKey, KeyInvariant, KeysAreOfProcs
    <3> QED BY <3>1, OthersKeepPairing
  <2> QED BY <2>1, <2>2
<1>4. CASE KeyLoaded \/ NotFound \/ Connects
  <2>1. UNCHANGED <<pairVars, keyVars>> /\ stage # "pair"
    BY <1>4 DEF KeyLoaded, NotFound, Connects, Waiting
  <2>2. stage' # "pair"
    BY <1>4 DEF KeyLoaded, NotFound, Connects, Enter, Finish
  <2> QED BY <2>1, <2>2, OthersKeepPairing DEF PairInvariant, keyVars
<1>5. ASSUME NEW ep, Found(ep) PROVE PairInvariant'
  <2>1. UNCHANGED keyVars /\ stage # "pair"
    BY <1>5 DEF Found, Waiting
  <2>2. \/ UNCHANGED pairVars /\ stage' # "pair"
        \/ \E who \in Answering(ep) : StartPair(who)
    BY <1>5, <2>1 DEF Found, Waiting
  <2>3. CASE UNCHANGED pairVars /\ stage' # "pair"
    BY <2>1, <2>3, OthersKeepPairing DEF PairInvariant, keyVars
  <2>4. CASE \E who \in Answering(ep) : StartPair(who)
    BY <2>4, FreshPairing DEF StartPair
  <2> QED BY <2>2, <2>3, <2>4
<1>6. CASE Paired
  <2>1. stage' # "pair"
    BY <1>6 DEF Paired, Enter, Finish
  <2> QED BY <1>6, <2>1, FreshPairing DEF Paired, EndPair
<1>7. CASE UNCHANGED <<keyVars, pairVars, stage>>
  BY <1>7, OthersKeepPairing DEF keyVars
<1>8. CASE \/ Cancel \/ Arrives \/ LoopOffers \/ LoopStops \/ LoopFails \/ UNCHANGED vars
           \/ \E d \in {"caller", "pairing", "first", "second"} : TimeOut(d)
  BY <1>7, <1>8 DEF Cancel, Arrives, LoopOffers, LoopStops, LoopFails, TimeOut, others, vars
<1> QED BY <1>1, <1>2, <1>3, <1>4, <1>5, <1>6, <1>8 DEF Next, MainStep

LEMMA NextKeepsResult ==
  ASSUME KeyInvariant, PairInvariant, ResultInvariant, [Next]_vars
  PROVE  ResultInvariant'
<1> USE DEF ResultInvariant
<1>1. plan' = plan
  BY DEF Next, MainStep, KeyLoaded, Found, NotFound, Pairs, Paired, PairBreaks, Connects, PeerActs,
         Cancel, Arrives, LoopOffers, LoopStops, LoopFails, Keys, Crashes, TimeOut, others, own, vars
<1>2. CASE KeyLoaded
  BY <1>1, <1>2 DEF KeyLoaded, Finish, Enter
<1>3. CASE Connects
  BY <1>1, <1>3 DEF Connects, Finish, pairVars, keyVars
<1>4. CASE NotFound
  BY <1>1, <1>4 DEF NotFound, Waiting, Enter, Finish, pairVars, keyVars
<1>5. ASSUME NEW ep, Found(ep) PROVE ResultInvariant'
  <2>1. stored' = stored /\ held' = held
    BY <1>5 DEF Found, StartPair, PairWith, pairVars, keyVars
  <2> QED BY <1>1, <1>5, <2>1 DEF Found, Waiting
<1>6. CASE Pairs \/ PairBreaks \/ PeerActs
  BY <1>1, <1>6 DEF Pairs, PairBreaks, PeerActs
<1>7. ASSUME NEW p \in Procs, Keys(p) \/ Crashes(p) PROVE ResultInvariant'
  <2>1. CASE p = Main
    BY <1>1, <1>7, <2>1 DEF Keys, Crashes
  <2>2. CASE p # Main
    <3>1. held'[Main] = held[Main]
      BY <1>7, <2>2, OnboardingAssumption DEF Keys, Crashes, KeyStep, LoadKey, CreateFile, WriteKey,
            WriteKeyFails, WriteKeyFailsWith, CrashKey, KeyInvariant, KeysAreOfProcs
    <3> QED BY <1>1, <1>7, <2>2, <3>1 DEF Keys, Crashes, pairVars
  <2> QED BY <2>1, <2>2
<1>8. CASE UNCHANGED <<keyVars, pairVars, stage, result, reached>>
  BY <1>1, <1>8 DEF keyVars, pairVars
<1>9. CASE \/ Cancel \/ Arrives \/ LoopOffers \/ LoopStops \/ LoopFails \/ UNCHANGED vars
           \/ \E d \in {"caller", "pairing", "first", "second"} : TimeOut(d)
  BY <1>8, <1>9 DEF Cancel, Arrives, LoopOffers, LoopStops, LoopFails, TimeOut, others, vars
<1>10. CASE Paired
  <2>1. stored' = stored /\ held' = held /\ stage = "pair"
    BY <1>10 DEF Paired, EndPair, PairWith, keyVars
  <2>2. ppc = "ok" => stored = held[Main]
    BY <2>1 DEF PairInvariant
  <2> QED BY <1>1, <1>10, <2>1, <2>2 DEF Paired, Enter, Finish
<1> QED BY <1>2, <1>3, <1>4, <1>5, <1>6, <1>7, <1>9, <1>10 DEF Next, MainStep

(* Pair succeeds only with the device that showed the code and reports a   *)
(* wrong code only to another; once it has succeeded that device has stored*)
(* the key that PairAndConnect* use (pairing.go:78-133, highlevel.go:26,   *)
(* 47).  Nothing is said of who answers Connect.                           *)
THEOREM PairingIsWithTheDevice == Spec => []PairingAgrees
<1>1. Init => PairInvariant /\ ResultInvariant
  BY DEF Init, PairInit, PairInvariant, ResultInvariant, NoSeqs, NoPacket
<1>2. KeyInvariant /\ PairInvariant /\ ResultInvariant /\ [Next]_vars
        => PairInvariant' /\ ResultInvariant'
  BY NextKeepsPairing, NextKeepsResult
<1>3. PairInvariant /\ ResultInvariant => PairingAgrees
  BY DEF PairInvariant, ResultInvariant, PairingAgrees
<1> QED BY <1>1, <1>2, <1>3, AlwaysKeyInvariant, PTL DEF Spec
=============================================================================
