----------------------------- MODULE AdbDevice -----------------------------
(***************************************************************************)
(* adbd, the other end of the connection, as far as connection.go and      *)
(* stream.go rely on it; it is not part of the repository.  For each       *)
(* stream it accepts or refuses the OPEN, has at most one WRTE of its own  *)
(* unacknowledged, answers each WRTE it consumes with one OKAY, may close  *)
(* at any time, and ignores packets for a service that is not open.        *)
(***************************************************************************)
EXTENDS AdbWire

CONSTANT MaxDevWrites   \* bound: WRTE packets adbd sends on one stream

ASSUME MaxDevWritesAssumption == MaxDevWrites \in Nat

VARIABLES
  dev,                  \* state of the service behind each stream
  devReady,             \* adbd may send the next WRTE
  devSent,              \* WRTE packets adbd has sent
  devAcked,             \* how many of them the host has acknowledged
  devGot                \* WRTE packets adbd has consumed

devVars == <<dev, devReady, devSent, devAcked, devGot>>

DeviceTypeOK ==
  /\ dev \in [Streams -> {"none", "open", "closed"}]
  /\ devReady \in [Streams -> BOOLEAN]
  /\ devSent \in [Streams -> Nat]
  /\ devAcked \in [Streams -> Nat]
  /\ devGot \in [Streams -> Nat]

DeviceInit ==
  /\ dev = [s \in Streams |-> "none"]
  /\ devReady = [s \in Streams |-> FALSE]
  /\ devSent = [s \in Streams |-> 0]
  /\ devAcked = [s \in Streams |-> 0]
  /\ devGot = [s \in Streams |-> 0]

Receives(c, s) ==
  /\ linkUp
  /\ toDev # <<>>
  /\ Head(toDev).command = c
  /\ Head(toDev).stream = s
  /\ toDev' = Tail(toDev)
  /\ UNCHANGED linkUp

Replies(c, s) == toHost' = Append(toHost, Packet(c, s, 0))

DevAccepts(s) ==
  /\ Receives("OPEN", s)
  /\ Replies("OKAY", s)
  /\ dev' = [dev EXCEPT ![s] = "open"]
  /\ devReady' = [devReady EXCEPT ![s] = TRUE]
  /\ UNCHANGED <<devSent, devAcked, devGot>>

DevRefuses(s) ==
  /\ Receives("OPEN", s)
  /\ Replies("CLSE", s)
  /\ dev' = [dev EXCEPT ![s] = "closed"]
  /\ UNCHANGED <<devReady, devSent, devAcked, devGot>>

DevConsumes(s) ==
  /\ Receives("WRTE", s)
  /\ dev[s] = "open"
  /\ Replies("OKAY", s)
  /\ devGot' = [devGot EXCEPT ![s] = @ + 1]
  /\ UNCHANGED <<dev, devReady, devSent, devAcked>>

DevHandlesOkay(s) ==
  /\ Receives("OKAY", s)
  /\ devReady' = [devReady EXCEPT ![s] = dev[s] = "open"]
  /\ devAcked' = [devAcked EXCEPT ![s] = @ + 1]
  /\ UNCHANGED <<toHost, dev, devSent, devGot>>

(* adbd answers the CLSE of an open service with a CLSE of its own; older  *)
(* versions do not.                                                        *)
DevHandlesClse(s) ==
  /\ Receives("CLSE", s)
  /\ \/ dev[s] = "open" /\ Replies("CLSE", s)
     \/ UNCHANGED toHost
  /\ dev' = [dev EXCEPT ![s] = "closed"]
  /\ devReady' = [devReady EXCEPT ![s] = FALSE]
  /\ UNCHANGED <<devSent, devAcked, devGot>>

DevIgnoresWrte(s) ==
  /\ Receives("WRTE", s)
  /\ dev[s] # "open"
  /\ UNCHANGED <<toHost, devVars>>

DevHandles(s) ==
  \/ DevAccepts(s) \/ DevRefuses(s) \/ DevConsumes(s)
  \/ DevHandlesOkay(s) \/ DevHandlesClse(s) \/ DevIgnoresWrte(s)

DevWrites(s) ==
  /\ linkUp
  /\ dev[s] = "open"
  /\ devReady[s]
  /\ devSent[s] < MaxDevWrites
  /\ toHost' = Append(toHost, Packet("WRTE", s, devSent[s] + 1))
  /\ devReady' = [devReady EXCEPT ![s] = FALSE]
  /\ devSent' = [devSent EXCEPT ![s] = @ + 1]
  /\ UNCHANGED <<toDev, linkUp, dev, devAcked, devGot>>

DevCloses(s) ==
  /\ linkUp
  /\ dev[s] = "open"
  /\ Replies("CLSE", s)
  /\ dev' = [dev EXCEPT ![s] = "closed"]
  /\ devReady' = [devReady EXCEPT ![s] = FALSE]
  /\ UNCHANGED <<toDev, linkUp, devSent, devAcked, devGot>>
=============================================================================
