----------------------------- MODULE StreamIds -----------------------------
(***************************************************************************)
(* Local ids (connection.go:234-241, 261-265): a counter of fixed width    *)
(* that many Opens advance at once, skipping zero, and the map c.streams   *)
(* keyed by the ids.  AdbConnection takes a stream and its id for the same *)
(* thing; this module says when that is right.                             *)
(***************************************************************************)
EXTENDS Integers

CONSTANTS
  Openers,              \* goroutines that open and close streams, in turn
  Width,                \* the counter runs modulo Width: 2^32
  MaxAdds               \* bound: calls of nextID.Add

ASSUME IdAssumption ==
  /\ Width \in Nat \ {0, 1}
  /\ MaxAdds \in Nat

VARIABLES
  adds,                 \* calls of nextID.Add so far; nextID is adds % Width
  pc,                   \* what each opener does
  number,               \* the count of adds that gave it its id
  table,                \* c.streams: the opener whose stream an id finds
  late                  \* history: an Add lapped a stream still in use

idsVars == <<adds, pc, number, table, late>>

Pcs == {"idle", "again", "register", "live", "ended"}
Id(n) == n % Width
None == [opener |-> "none"]

(* The openers whose last Add still matters: also when the stream has ended*)
(* its Close deletes by id.                                                *)
InUse == {o \in Openers : pc[o] # "idle"}

IdsTypeOK ==
  /\ adds \in 0 .. MaxAdds
  /\ pc \in [Openers -> Pcs]
  /\ number \in [Openers -> 0 .. MaxAdds]
  /\ table \in [0 .. Width - 1 -> Openers \cup {None}]
  /\ late \in BOOLEAN

IdsInit ==
  /\ adds = 0
  /\ pc = [o \in Openers |-> "idle"]
  /\ number = [o \in Openers |-> 0]
  /\ table = [id \in 0 .. Width - 1 |-> None]
  /\ late = FALSE

AddsTo(o, totals) ==
  /\ adds < MaxAdds
  /\ adds' \in totals
  /\ number' = [number EXCEPT ![o] = adds + 1]
  /\ late' = (late \/ \E p \in InUse : adds + 1 - number[p] >= Width)
  /\ UNCHANGED table

(* Faulty: a plain increment, of which one of two concurrent ones is lost. *)
AddsNotAtomic(o) == AddsTo(o, {adds, adds + 1})

(* nextID.Add(1) *)
Adds(o) == AddsTo(o, {adds + 1})

NextId(o) ==
  /\ pc[o] = "idle"
  /\ Adds(o)
  /\ pc' = [pc EXCEPT ![o] = IF Id(adds + 1) = 0 THEN "again" ELSE "register"]

(* Whatever the second Add gives is kept.                                  *)
SkipZero(o) ==
  /\ pc[o] = "again"
  /\ Adds(o)
  /\ pc' = [pc EXCEPT ![o] = "register"]

Register(o) ==
  /\ pc[o] = "register"
  /\ pc' = [pc EXCEPT ![o] = "live"]
  /\ table' = [table EXCEPT ![Id(number[o])] = o]
  /\ UNCHANGED <<adds, number, late>>

Deletes(o, next) ==
  /\ pc' = [pc EXCEPT ![o] = next]
  /\ table' = [table EXCEPT ![Id(number[o])] = None]
  /\ UNCHANGED <<adds, number, late>>

(* readLoop deletes the stream at a CLSE of the device.                    *)
PeerCloses(o) == pc[o] = "live" /\ Deletes(o, "ended")

(* removeStream, in Close of a stream or a failed Open, deletes whatever   *)
(* the id finds: nothing or another stream's, if readLoop was here before. *)
Remove(o) == pc[o] \in {"live", "ended"} /\ Deletes(o, "idle")

(* Open returns the error of a stream that has ended and does not close it.*)
Drop(o) ==
  /\ pc[o] = "ended"
  /\ pc' = [pc EXCEPT ![o] = "idle"]
  /\ UNCHANGED <<adds, number, table, late>>

IdsNext ==
  \/ \E o \in Openers : NextId(o) \/ SkipZero(o) \/ Register(o) \/ PeerCloses(o) \/ Remove(o) \/ Drop(o)
  \/ adds = MaxAdds /\ UNCHANGED idsVars

IdsSpec == IdsInit /\ [][IdsNext]_idsVars

----------------------------------------------------------------------------
(* As long as no stream until its Close, and no Open between its two Adds, *)
(* outlives a whole turn of the counter, no stream has the id zero         *)
(* (connection.go:235-237), and c.streams finds each live stream under its *)
(* id and nothing else: registering a stream, or removing it once or twice,*)
(* never hits another one, however many times the ids have come round      *)
(* (connection.go:213, 240, 263).                                          *)
FoundById ==
  ~late =>
    /\ \A o \in Openers : pc[o] \in {"register", "live"} => Id(number[o]) # 0
    /\ \A o \in Openers : pc[o] = "live" => table[Id(number[o])] = o
    /\ \A id \in DOMAIN table :
         table[id] # None =>
           /\ pc[table[id]] = "live"
           /\ Id(number[table[id]]) = id
=============================================================================
