------------------------ MODULE PacketFramingProofs ------------------------
(***************************************************************************)
(* Proofs about PacketFraming for every set of senders and every bound.    *)
(***************************************************************************)
EXTENDS PacketFraming, WellFoundedInduction, TLAPS

LEMMA AppendFacts ==
  ASSUME NEW S, NEW q \in Seq(S), NEW x \in S
  PROVE  /\ Append(q, x) \in Seq(S)
         /\ Len(q) \in Nat
         /\ Len(Append(q, x)) = Len(q) + 1
         /\ \A i \in 1 .. Len(q) : Append(q, x)[i] = q[i]
         /\ Append(q, x)[Len(q) + 1] = x
OBVIOUS

LEMMA TailFacts ==
  ASSUME NEW S, NEW q \in Seq(S), q # <<>>
  PROVE  /\ Tail(q) \in Seq(S)
         /\ Head(q) \in S
         /\ Head(q) = q[1]
         /\ Len(q) \in Nat \ {0}
         /\ Len(Tail(q)) = Len(q) - 1
         /\ \A i \in 1 .. Len(q) - 1 : Tail(q)[i] = q[i + 1]
OBVIOUS

LEMMA EmptyFacts ==
  ASSUME NEW S
  PROVE  <<>> \in Seq(S) /\ Len(<<>>) = 0
OBVIOUS

LEMMA NoneIsNoPacket == None \notin Packets
BY DEF None, Packets

LEMMA PieceIsPiece ==
  ASSUME NEW p \in Packets, NEW part \in {"header", "payload"}
  PROVE  /\ Piece(p, part) \in Pieces
         /\ Piece(p, part).packet = p
         /\ Piece(p, part).part = part
BY DEF Piece, Pieces

LEMMA PieceIsItsParts ==
  ASSUME NEW x \in Pieces
  PROVE  /\ x.packet \in Packets
         /\ x.part \in {"header", "payload"}
         /\ x = Piece(x.packet, x.part)
BY DEF Piece, Pieces

----------------------------------------------------------------------------
(* A sender inside send has a packet, and one inside writePacket holds     *)
(* writeMu.                                                                *)
Sending ==
  \A g \in Senders :
    /\ pc[g] # "idle" => pkt[g] \in Packets
    /\ pc[g] = "payload" => pkt[g].data
    /\ pc[g] \in {"header", "payload", "unlock"} => writeMu = g

(* The packet whose payload a reader that has read the first i - 1 pieces  *)
(* waits for.                                                              *)
Due(i) ==
  IF i = 1 THEN pending
           ELSE IF IsLast(wire[i - 1]) THEN None ELSE wire[i - 1].packet

Fits(x, p) == IF p = None THEN x.part = "header" ELSE x = Piece(p, "payload")

(* Every unread piece is the one the reader will expect when it comes to   *)
(* it.                                                                     *)
WellFormed == \A i \in 1 .. Len(wire) : Fits(wire[i], Due(i))

(* What is due after the last piece is what a sender is about to write.    *)
HolderWrites ==
  up => /\ \A g \in Senders : pc[g] = "payload" => Due(Len(wire) + 1) = pkt[g]
        /\ Due(Len(wire) + 1) # None => \E g \in Senders : pc[g] = "payload"

Cut == ~up => wire = <<>>

Framed == Sending /\ WellFormed /\ HolderWrites /\ Cut /\ ~failed

----------------------------------------------------------------------------
(* Types *)

LEMMA SendersKeepType ==
  ASSUME TypeOK, NEW g \in Senders,
         Call(g) \/ Lock(g) \/ Unlock(g)
  PROVE  TypeOK'
<1> USE DEF TypeOK, readerVars
<1>1. CASE Call(g)
  <2> DEFINE p(d) == [from |-> g, number |-> sends[g] + 1, data |-> d]
  <2>1. sends[g] + 1 \in 1 .. MaxSends /\ sends[g] + 1 \in 0 .. MaxSends
    BY <1>1, MaxSendsAssumption DEF Call
  <2>2. \A d \in BOOLEAN : p(d) \in Packets
    BY <2>1 DEF Packets
  <2>3. \E d \in BOOLEAN : pkt' = [pkt EXCEPT ![g] = p(d)]
    BY <1>1 DEF Call
  <2>4. pkt' \in [Senders -> Packets \cup {None}]
    BY <2>2, <2>3
  <2>5. sends' \in [Senders -> 0 .. MaxSends]
    BY <1>1, <2>1 DEF Call
  <2> QED
    BY <1>1, <2>4, <2>5 DEF Call
<1>2. CASE Lock(g)
  BY <1>2 DEF Lock, LockWhen
<1>3. CASE Unlock(g)
  BY <1>3 DEF Unlock
<1> QED
  BY <1>1, <1>2, <1>3

LEMMA WritersKeepType ==
  ASSUME TypeOK, Sending, NEW g \in Senders, WriteHeader(g) \/ WritePayload(g)
  PROVE  TypeOK'
<1> USE DEF TypeOK, readerVars
<1>1. ASSUME NEW part \in {"header", "payload"}, NEW next \in {"payload", "unlock"},
             Writes(g, part, next)
      PROVE  TypeOK'
  <2>1. Piece(pkt[g], part) \in Pieces
    BY <1>1, PieceIsPiece DEF Writes, Sending
  <2>2. Append(wire, Piece(pkt[g], part)) \in Seq(Pieces)
    BY <2>1, AppendFacts
  <2> QED
    BY <1>1, <2>2 DEF Writes
<1> QED
  BY <1>1 DEF WriteHeader, WritePayload

LEMMA ReaderKeepsType ==
  ASSUME TypeOK, ReadHeader \/ ReadPayload \/ Break
  PROVE  TypeOK'
<1> USE DEF TypeOK, readerVars, senderVars
<1>1. CASE ReadHeader
  <2>1. /\ Tail(wire) \in Seq(Pieces)
        /\ Head(wire).packet \in Packets
    BY <1>1, TailFacts, PieceIsItsParts DEF ReadHeader
  <2>2. Append(read, Head(wire).packet) \in Seq(Packets)
    BY <2>1, AppendFacts
  <2> QED
    BY <1>1, <2>1, <2>2 DEF ReadHeader
<1>2. CASE ReadPayload
  <2>1. Tail(wire) \in Seq(Pieces)
    BY <1>2, TailFacts DEF ReadPayload
  <2>2. pending \in Packets => Append(read, pending) \in Seq(Packets)
    BY AppendFacts
  <2> QED
    BY <1>2, <2>1, <2>2 DEF ReadPayload
<1>3. CASE Break
  BY <1>3, EmptyFacts DEF Break
<1> QED
  BY <1>1, <1>2, <1>3

----------------------------------------------------------------------------
(* Framing *)

LEMMA InitFramed == Init => TypeOK /\ Framed
<1> SUFFICES ASSUME Init PROVE TypeOK /\ Framed
  OBVIOUS
<1>1. wire = <<>> /\ Len(wire) = 0 /\ pending = None
  BY EmptyFacts DEF Init
<1>2. TypeOK
  <2>1. <<>> \in Seq(Pieces) /\ <<>> \in Seq(Packets)
    BY EmptyFacts
  <2> QED
    <3>1. wire \in Seq(Pieces) /\ read \in Seq(Packets)
      BY <2>1 DEF Init
    <3>2. /\ sends \in [Senders -> 0 .. MaxSends]
          /\ pkt \in [Senders -> Packets \cup {None}]
      BY MaxSendsAssumption DEF Init
    <3> QED
      BY <3>1, <3>2 DEF Init, TypeOK
<1>3. Sending
  BY DEF Init, Sending
<1>4. WellFormed /\ HolderWrites /\ Cut /\ ~failed
  BY <1>1 DEF Init, WellFormed, HolderWrites, Cut, Due
<1> QED
  BY <1>2, <1>3, <1>4 DEF Framed

(* Steps that touch neither the wire nor the reader. *)
LEMMA SendersKeepFramed ==
  ASSUME TypeOK, Framed, NEW g \in Senders, Call(g) \/ Lock(g) \/ Unlock(g)
  PROVE  Framed'
<1>1. UNCHANGED <<up, wire, pending, failed>>
  BY DEF Call, Lock, LockWhen, Unlock, readerVars
<1>2. /\ WellFormed' /\ Cut' /\ ~failed'
      /\ \A i : Due(i)' = Due(i)
  BY <1>1 DEF Framed, WellFormed, Fits, Cut, Due, IsLast
<1>3. /\ pc \in [Senders -> {"idle", "lock", "header", "payload", "unlock"}]
      /\ pkt \in [Senders -> Packets \cup {None}]
      /\ sends \in [Senders -> 0 .. MaxSends]
  BY DEF TypeOK
<1>4. \A h \in Senders : /\ (pc[h] = "payload")' <=> pc[h] = "payload"
                         /\ pc[h] = "payload" => pkt'[h] = pkt[h]
  BY <1>3 DEF Call, Lock, LockWhen, Unlock
<1>5. HolderWrites'
  BY <1>1, <1>2, <1>4 DEF Framed, HolderWrites
<1>6. Sending'
  <2>1. CASE Call(g)
    <3>1. pkt'[g] \in Packets
      <4>1. sends[g] + 1 \in 1 .. MaxSends
        BY <2>1, <1>3, MaxSendsAssumption DEF Call
      <4> QED
        BY <2>1, <1>3, <4>1 DEF Call, Packets
    <3> QED
      BY <2>1, <3>1, <1>3 DEF Call, Framed, Sending
  <2>2. CASE Lock(g)
    BY <2>2, <1>3, NoneAssumption DEF Lock, LockWhen, Framed, Sending
  <2>3. CASE Unlock(g)
    BY <2>3, <1>3 DEF Unlock, Framed, Sending
  <2> QED
    BY <2>1, <2>2, <2>3
<1> QED
  BY <1>2, <1>5, <1>6 DEF Framed

(* A write after which the link turns out to be gone. *)
LEMMA FailedWriteKeepsFramed ==
  ASSUME TypeOK, Framed, NEW g \in Senders, ~up,
         pc[g] \in {"header", "payload"},
         pc' = [pc EXCEPT ![g] = "unlock"],
         UNCHANGED <<wire, up, writeMu, pkt, sends, readerVars>>
  PROVE  Framed'
<1>1. WellFormed' /\ Cut' /\ ~failed' /\ HolderWrites'
  BY DEF Framed, WellFormed, Fits, Cut, HolderWrites, Due, IsLast, readerVars
<1>2. Sending'
  BY DEF Framed, Sending, TypeOK
<1> QED
  BY <1>1, <1>2 DEF Framed

(* A piece that fits what is due at the end keeps the wire well formed,    *)
(* and decides what is due after it.                                       *)
LEMMA AppendKeepsWellFormed ==
  ASSUME TypeOK, WellFormed, NEW x \in Pieces, Fits(x, Due(Len(wire) + 1)),
         wire' = Append(wire, x), UNCHANGED pending
  PROVE  /\ WellFormed'
         /\ Due(Len(wire) + 1)' = IF IsLast(x) THEN None ELSE x.packet
<1>1. /\ Len(wire) \in Nat
      /\ Len(wire') = Len(wire) + 1
      /\ \A i \in 1 .. Len(wire) : wire'[i] = wire[i]
      /\ wire'[Len(wire) + 1] = x
  BY AppendFacts DEF TypeOK
<1>2. \A i \in 1 .. Len(wire) + 1 : Due(i)' = Due(i)
  BY <1>1 DEF Due, IsLast
<1>3. WellFormed'
  BY <1>1, <1>2 DEF WellFormed, Fits
<1>4. Due(Len(wire) + 1)' = IF IsLast(x) THEN None ELSE x.packet
  BY <1>1 DEF Due, IsLast
<1> QED
  BY <1>3, <1>4

LEMMA HeaderKeepsFramed ==
  ASSUME TypeOK, Framed, NEW g \in Senders, WriteHeader(g), up
  PROVE  Framed'
<1> DEFINE x == Piece(pkt[g], "header")
           next == IF pkt[g].data THEN "payload" ELSE "unlock"
<1>t. /\ pc \in [Senders -> {"idle", "lock", "header", "payload", "unlock"}]
      /\ pkt \in [Senders -> Packets \cup {None}]
  BY DEF TypeOK
<1>1. /\ pc[g] = "header" /\ wire' = Append(wire, x)
      /\ pc' = [pc EXCEPT ![g] = next]
      /\ UNCHANGED <<up, writeMu, pkt, pending, failed>>
  BY DEF WriteHeader, Writes, readerVars
<1>2. pkt[g] \in Packets /\ writeMu = g
  BY <1>1 DEF Framed, Sending
<1>3. x \in Pieces /\ x.packet = pkt[g] /\ x.part = "header"
  BY <1>2, PieceIsPiece
<1>4. \A h \in Senders : pc[h] # "payload"
  BY <1>1, <1>2 DEF Framed, Sending
<1>5. Fits(x, Due(Len(wire) + 1))
  BY <1>3, <1>4 DEF Framed, HolderWrites, Fits
<1> HIDE DEF x
<1>6. /\ WellFormed'
      /\ Due(Len(wire) + 1)' = IF IsLast(x) THEN None ELSE x.packet
  BY <1>1, <1>3, <1>5, AppendKeepsWellFormed DEF Framed
<1>7. IsLast(x) <=> ~pkt[g].data
  BY <1>3 DEF IsLast
<1>8. HolderWrites'
  BY <1>t, <1>1, <1>3, <1>4, <1>6, <1>7 DEF HolderWrites
<1>9. Sending'
  BY <1>t, <1>1, <1>2 DEF Framed, Sending
<1> QED
  BY <1>1, <1>6, <1>8, <1>9 DEF Framed, Cut

LEMMA PayloadKeepsFramed ==
  ASSUME TypeOK, Framed, NEW g \in Senders, WritePayload(g), up
  PROVE  Framed'
<1> DEFINE x == Piece(pkt[g], "payload")
<1>t. /\ pc \in [Senders -> {"idle", "lock", "header", "payload", "unlock"}]
      /\ pkt \in [Senders -> Packets \cup {None}]
  BY DEF TypeOK
<1>1. /\ pc[g] = "payload" /\ wire' = Append(wire, x)
      /\ pc' = [pc EXCEPT ![g] = "unlock"]
      /\ UNCHANGED <<up, writeMu, pkt, pending, failed>>
  BY DEF WritePayload, Writes, readerVars
<1>2. pkt[g] \in Packets /\ writeMu = g
  BY <1>1 DEF Framed, Sending
<1>3. x \in Pieces /\ x.packet = pkt[g] /\ x.part = "payload"
  BY <1>2, PieceIsPiece
<1>4. \A h \in Senders : pc[h] = "payload" => h = g
  BY <1>2 DEF Framed, Sending
<1>5. Fits(x, Due(Len(wire) + 1))
  BY <1>1, <1>2, NoneIsNoPacket DEF Framed, HolderWrites, Fits
<1> HIDE DEF x
<1>6. WellFormed' /\ Due(Len(wire) + 1)' = None
  BY <1>1, <1>3, <1>5, AppendKeepsWellFormed DEF Framed, IsLast
<1>7. HolderWrites'
  BY <1>t, <1>1, <1>4, <1>6 DEF HolderWrites
<1>8. Sending'
  BY <1>t, <1>1, <1>2 DEF Framed, Sending
<1> QED
  BY <1>1, <1>6, <1>7, <1>8 DEF Framed, Cut

LEMMA WritersKeepFramed ==
  ASSUME TypeOK, Framed, NEW g \in Senders, WriteHeader(g) \/ WritePayload(g)
  PROVE  Framed'
<1>1. CASE up
  BY <1>1, HeaderKeepsFramed, PayloadKeepsFramed
<1>2. CASE ~up
  BY <1>2, FailedWriteKeepsFramed DEF WriteHeader, WritePayload, Writes
<1> QED
  BY <1>1, <1>2

(* Reading the first piece: every other one moves up by one place, and     *)
(* what is due before it stays the same.                                   *)
LEMMA TakeKeepsFramed ==
  ASSUME TypeOK, Framed, wire # <<>>, wire' = Tail(wire),
         pending' = Due(2), UNCHANGED <<up, senderVars, failed>>
  PROVE  Framed'
<1>1. /\ Len(wire) \in Nat \ {0}
      /\ Len(wire') = Len(wire) - 1
      /\ \A i \in 1 .. Len(wire) - 1 : wire'[i] = wire[i + 1]
  BY TailFacts DEF TypeOK
<1>2. \A i \in 1 .. Len(wire) : Due(i)' = Due(i + 1)
  BY <1>1 DEF Due, IsLast
<1>3. WellFormed'
  BY <1>1, <1>2 DEF Framed, WellFormed, Fits
<1>4. Due(Len(wire) + 1)' = Due(Len(wire) + 1)
  BY <1>1, <1>2
<1>5. HolderWrites'
  BY <1>4 DEF Framed, HolderWrites, senderVars
<1>6. Cut
  BY DEF Framed
<1>7. Sending' /\ Cut'
  BY <1>6 DEF Framed, Sending, Cut, senderVars
<1> QED
  BY <1>3, <1>5, <1>7 DEF Framed

LEMMA ReaderKeepsFramed ==
  ASSUME TypeOK, Framed, ReadHeader \/ ReadPayload
  PROVE  Framed'
<1>1. /\ wire # <<>> /\ Head(wire) = wire[1] /\ wire[1] \in Pieces
      /\ Len(wire) \in Nat \ {0}
  BY TailFacts DEF ReadHeader, ReadPayload, TypeOK
<1>2. Fits(wire[1], pending)
  <2>1. Fits(wire[1], Due(1))
    BY <1>1 DEF Framed, WellFormed
  <2> QED
    BY <2>1 DEF Due
<1>3. Due(2) = IF IsLast(wire[1]) THEN None ELSE wire[1].packet
  BY DEF Due
<1>4. CASE ReadHeader
  <2>1. wire[1].part = "header"
    BY <1>2, <1>4 DEF ReadHeader, Fits
  <2>2. pending' = Due(2) /\ UNCHANGED failed
    BY <1>1, <1>3, <1>4, <2>1 DEF ReadHeader, IsLast
  <2> QED
    BY <1>4, <2>2, TakeKeepsFramed DEF ReadHeader
<1>5. CASE ReadPayload
  <2>1. wire[1] = Piece(pending, "payload") /\ pending \in Packets
    BY <1>2, <1>5 DEF ReadPayload, Fits, TypeOK
  <2>2. pending' = Due(2) /\ UNCHANGED failed
    BY <1>1, <1>3, <1>5, <2>1, PieceIsPiece DEF ReadPayload, IsLast
  <2> QED
    BY <1>5, <2>2, TakeKeepsFramed DEF ReadPayload
<1> QED
  BY <1>4, <1>5

LEMMA BreakKeepsFramed ==
  ASSUME TypeOK, Framed, Break
  PROVE  Framed'
BY EmptyFacts
   DEF Break, Framed, Sending, WellFormed, HolderWrites, Cut, senderVars, readerVars

LEMMA NextKeepsFramed == TypeOK /\ Framed /\ [Next]_vars => TypeOK' /\ Framed'
<1> SUFFICES ASSUME TypeOK, Framed, [Next]_vars
             PROVE  TypeOK' /\ Framed'
  OBVIOUS
<1>1. CASE UNCHANGED vars
  BY <1>1 DEF vars, senderVars, readerVars, TypeOK, Framed, Sending, WellFormed,
              Fits, HolderWrites, Cut, Due, IsLast
<1>2. CASE Next
  <2>1. TypeOK'
    BY <1>1, <1>2, SendersKeepType, WritersKeepType, ReaderKeepsType
       DEF Next, Idle, Framed
  <2>2. Framed'
    BY <1>1, <1>2, SendersKeepFramed, WritersKeepFramed, ReaderKeepsFramed,
       BreakKeepsFramed
       DEF Next, Idle
  <2> QED
    BY <2>1, <2>2
<1> QED
  BY <1>1, <1>2

LEMMA AlwaysFramed == Spec => [](TypeOK /\ Framed)
<1>1. Init => TypeOK /\ Framed
  BY InitFramed
<1>2. TypeOK /\ Framed /\ [Next]_vars => (TypeOK /\ Framed)'
  BY NextKeepsFramed
<1> QED
  BY <1>1, <1>2, PTL DEF Spec

(* The variables keep their types; in particular readPacket returns and    *)
(* waits for packets that some sender sent.                                *)
THEOREM FramingTypeCorrect == Spec => []TypeOK
BY AlwaysFramed, PTL

(* However many goroutines call send, and wherever the connection breaks,  *)
(* readPacket never meets a piece of the wrong packet (packet.go:66, 79).  *)
THEOREM PacketsStayWhole == Spec => []NeverMisframed
<1>1. Framed => NeverMisframed
  BY DEF Framed, NeverMisframed
<1> QED
  BY <1>1, AlwaysFramed, PTL

----------------------------------------------------------------------------
(* The packets completed by a sequence of pieces.  Induction over the      *)
(* numbers, for sets: a set with 0 and the successor of each of its        *)
(* numbers has no least number outside.                                    *)
LEMMA SetInduction ==
  ASSUME NEW S, 0 \in S, \A n \in Nat : n \in S => n + 1 \in S
  PROVE  Nat \subseteq S
<1> DEFINE R == OpToRel(<, Nat)
           T == Nat \ S
<1>1. \A m, n \in Nat : m < n => <<m, n>> \in R
  BY DEF OpToRel
<1>2. IsWellFoundedOn(R, Nat)
  BY NatLessThanWellFounded
<1> HIDE DEF R
<1>3. ASSUME T # {} PROVE FALSE
  <2>1. PICK n \in T : \A m \in T : ~(<<m, n>> \in R)
    <3>1. T \subseteq Nat
      OBVIOUS
    <3> HIDE DEF T
    <3> QED BY <1>2, <1>3, <3>1, WFMin
  <2>2. n # 0 /\ n - 1 \in Nat
    OBVIOUS
  <2>3. n - 1 \notin T
    <3>1. n \in Nat /\ n - 1 < n
      OBVIOUS
    <3>2. <<n - 1, n>> \in R
      BY <1>1, <2>2, <3>1
    <3> HIDE DEF T
    <3> QED BY <2>1, <3>2
  <2> QED BY <2>2, <2>3
<1> QED BY <1>3

(* The packets completed by each prefix of w, and by a prefix of up to N   *)
(* pieces.                                                                 *)
After(f, w, n) ==
  IF n = 0 THEN <<>>
  ELSE IF IsLast(w[n]) THEN Append(f[n - 1], w[n].packet) ELSE f[n - 1]
Counts(f, w, N) == f = [n \in 0 .. N |-> After(f, w, n)]

LEMMA PrefixesExist ==
  ASSUME NEW w, NEW N \in Nat
  PROVE  \E f : Counts(f, w, N)
<1> DEFINE S == {n \in Nat : \E f : Counts(f, w, n)}
<1>1. 0 \in S
  <2> DEFINE f == [n \in 0 .. 0 |-> <<>>]
  <2>1. \A n \in 0 .. 0 : After(f, w, n) = <<>>
    BY DEF After
  <2>2. Counts(f, w, 0)
    BY <2>1 DEF Counts
  <2> QED BY <2>2
<1>2. ASSUME NEW n \in Nat, n \in S PROVE n + 1 \in S
  <2>1. PICK f : Counts(f, w, n)
    BY <1>2
  <2> DEFINE x == After(f, w, n + 1)
             g == [m \in 0 .. n + 1 |-> IF m = n + 1 THEN x ELSE f[m]]
  <2>2. \A m \in 0 .. n : g[m] = f[m] /\ f[m] = After(f, w, m)
    <3>1. \A m \in 0 .. n : m \in 0 .. n + 1 /\ m # n + 1
      OBVIOUS
    <3> HIDE DEF x
    <3> QED BY <2>1, <3>1 DEF Counts
  <2>3. g[n + 1] = x
    OBVIOUS
  <2> HIDE DEF g
  <2>4. \A m \in 0 .. n + 1 : After(g, w, m) = After(f, w, m)
    <3> TAKE m \in 0 .. n + 1
    <3>1. m # 0 => m - 1 \in 0 .. n
      OBVIOUS
    <3> QED BY <2>2, <3>1 DEF After
  <2>5. \A m \in 0 .. n + 1 : g[m] = After(g, w, m)
    <3> TAKE m \in 0 .. n + 1
    <3>1. m = n + 1 \/ m \in 0 .. n
      OBVIOUS
    <3> QED BY <2>2, <2>3, <2>4, <3>1
  <2>6. Counts(g, w, n + 1)
    <3>1. g = [m \in 0 .. n + 1 |-> g[m]]
      BY DEF g
    <3> QED BY <2>5, <3>1 DEF Counts
  <2> QED BY <2>6
<1> HIDE DEF S
<1>3. Nat \subseteq S
  BY <1>1, <1>2, SetInduction
<1> QED BY <1>3 DEF S

LEMMA CompletedCounts ==
  ASSUME NEW w, Len(w) \in Nat
  PROVE  \E f : Counts(f, w, Len(w)) /\ Completed(w) = f[Len(w)]
<1> DEFINE F == CHOOSE f : Counts(f, w, Len(w))
<1>1. Counts(F, w, Len(w))
  BY PrefixesExist
<1>2. Completed(w) = F[Len(w)]
  BY DEF Completed, Counts, After
<1> QED BY <1>1, <1>2

LEMMA CountsFacts ==
  ASSUME NEW w, NEW N \in Nat, NEW f, Counts(f, w, N)
  PROVE  /\ f[0] = <<>>
         /\ \A n \in Nat : n + 1 <= N =>
              f[n + 1] = IF IsLast(w[n + 1]) THEN Append(f[n], w[n + 1].packet) ELSE f[n]
<1>1. \A n \in 0 .. N : f[n] = After(f, w, n)
  BY DEF Counts
<1>2. f[0] = <<>>
  <2>1. 0 \in 0 .. N
    OBVIOUS
  <2> QED BY <1>1, <2>1 DEF After
<1>3. ASSUME NEW n \in Nat, n + 1 <= N
      PROVE  f[n + 1] = IF IsLast(w[n + 1]) THEN Append(f[n], w[n + 1].packet) ELSE f[n]
  <2>1. n + 1 \in 0 .. N /\ n + 1 # 0 /\ (n + 1) - 1 = n
    BY <1>3
  <2> QED BY <1>1, <2>1 DEF After
<1> QED BY <1>2, <1>3

(* Prefixes of the same pieces complete the same packets.                  *)
LEMMA SamePrefixes ==
  ASSUME NEW w, NEW v, NEW N \in Nat, NEW M \in Nat, N <= M,
         NEW f, Counts(f, w, N), NEW g, Counts(g, v, M), \A i \in 1 .. N : w[i] = v[i]
  PROVE  \A n \in 0 .. N : f[n] = g[n]
<1> DEFINE S == {n \in Nat : n <= N => f[n] = g[n]}
<1>1. 0 \in S
  BY CountsFacts
<1>2. ASSUME NEW n \in Nat, n \in S PROVE n + 1 \in S
  <2>1. SUFFICES ASSUME n + 1 <= N PROVE f[n + 1] = g[n + 1]
    OBVIOUS
  <2>2. f[n] = g[n] /\ w[n + 1] = v[n + 1] /\ n + 1 <= M
    BY <1>2, <2>1
  <2>3. /\ f[n + 1] = IF IsLast(w[n + 1]) THEN Append(f[n], w[n + 1].packet) ELSE f[n]
        /\ g[n + 1] = IF IsLast(v[n + 1]) THEN Append(g[n], v[n + 1].packet) ELSE g[n]
    BY <2>1, <2>2, CountsFacts
  <2> QED BY <2>2, <2>3
<1> HIDE DEF S
<1>3. Nat \subseteq S
  BY <1>1, <1>2, SetInduction
<1> QED BY <1>3 DEF S

LEMMA CompletedEmpty == Completed(<<>>) = <<>>
<1>1. Len(<<>>) = 0
  OBVIOUS
<1>2. PICK f : Counts(f, <<>>, 0) /\ Completed(<<>>) = f[0]
  BY <1>1, CompletedCounts
<1> QED BY <1>2 DEF Counts, After

LEMMA CompletedAppend ==
  ASSUME NEW w \in Seq(Pieces), NEW x \in Pieces
  PROVE  Completed(Append(w, x)) =
           IF IsLast(x) THEN Append(Completed(w), x.packet) ELSE Completed(w)
<1> DEFINE v == Append(w, x)
           N == Len(w)
<1>1. /\ N \in Nat /\ Len(v) = N + 1 /\ v[N + 1] = x
      /\ \A i \in 1 .. N : w[i] = v[i]
  BY AppendFacts
<1> HIDE DEF v, N
<1>2. PICK f : Counts(f, w, N) /\ Completed(w) = f[N]
  BY <1>1, CompletedCounts DEF N
<1>3. PICK g : Counts(g, v, N + 1) /\ Completed(v) = g[N + 1]
  BY <1>1, CompletedCounts
<1>4. g[N] = f[N]
  BY <1>1, <1>2, <1>3, SamePrefixes
<1>5. g[N + 1] = IF IsLast(v[N + 1]) THEN Append(g[N], v[N + 1].packet) ELSE g[N]
  BY <1>1, <1>3, CountsFacts
<1> QED BY <1>1, <1>2, <1>3, <1>4, <1>5 DEF v

LEMMA CompletedType ==
  ASSUME NEW w \in Seq(Pieces)
  PROVE  Completed(w) \in Seq(Packets)
<1> DEFINE N == Len(w)
<1>1. N \in Nat /\ \A i \in 1 .. N : w[i] \in Pieces
  OBVIOUS
<1>2. PICK f : Counts(f, w, N) /\ Completed(w) = f[N]
  BY <1>1, CompletedCounts
<1> HIDE DEF N
<1> DEFINE S == {n \in Nat : n <= N => f[n] \in Seq(Packets)}
<1>3. f[0] = <<>>
  BY <1>1, <1>2, CountsFacts
<1>4. 0 \in S
  <2>1. <<>> \in Seq(Packets)
    BY EmptyFacts
  <2> QED BY <1>3, <2>1
<1>5. ASSUME NEW n \in Nat, n \in S PROVE n + 1 \in S
  <2>1. SUFFICES ASSUME n + 1 <= N PROVE f[n + 1] \in Seq(Packets)
    OBVIOUS
  <2>2. f[n] \in Seq(Packets) /\ w[n + 1] \in Pieces
    BY <1>1, <1>5, <2>1
  <2>3. Append(f[n], w[n + 1].packet) \in Seq(Packets)
    BY <2>2, PieceIsItsParts, AppendFacts
  <2>4. f[n + 1] = IF IsLast(w[n + 1]) THEN Append(f[n], w[n + 1].packet) ELSE f[n]
    BY <1>1, <1>2, <2>1, CountsFacts
  <2> QED BY <2>2, <2>3, <2>4
<1> HIDE DEF S
<1>6. Nat \subseteq S
  BY <1>4, <1>5, SetInduction
<1> QED BY <1>1, <1>2, <1>6 DEF S

(* Appending to a sequence that is not empty leaves its head.              *)
LEMMA AppendAfterHead ==
  ASSUME NEW S, NEW q \in Seq(S), q # <<>>, NEW x \in S
  PROVE  /\ Append(q, x) # <<>> /\ Head(Append(q, x)) = Head(q)
         /\ Tail(Append(q, x)) = Append(Tail(q), x)
OBVIOUS

LEMMA AppendToNothing ==
  ASSUME NEW x
  PROVE  /\ Append(<<>>, x) # <<>> /\ Head(Append(<<>>, x)) = x
         /\ Tail(Append(<<>>, x)) = <<>>
OBVIOUS

(* The first piece gone: it takes its packet with it if it completes one.  *)
LEMMA CompletedTail ==
  ASSUME NEW w \in Seq(Pieces), w # <<>>
  PROVE  IF IsLast(w[1])
           THEN /\ Completed(w) # <<>> /\ Head(Completed(w)) = w[1].packet
                /\ Tail(Completed(w)) = Completed(Tail(w))
           ELSE Completed(w) = Completed(Tail(w))
<1> DEFINE v == Tail(w)
           N == Len(v)
<1>1. /\ N \in Nat /\ Len(w) = N + 1 /\ v \in Seq(Pieces)
      /\ \A i \in 1 .. N : v[i] = w[i + 1]
      /\ \A i \in 1 .. N + 1 : w[i] \in Pieces
  BY TailFacts
<1> HIDE DEF v, N
<1>2. PICK f : Counts(f, w, N + 1) /\ Completed(w) = f[N + 1]
  BY <1>1, CompletedCounts
<1>3. PICK g : Counts(g, v, N) /\ Completed(v) = g[N]
  BY <1>1, CompletedCounts DEF N
<1>4. /\ f[0] = <<>> /\ g[0] = <<>>
      /\ \A n \in Nat : n + 1 <= N + 1 =>
           f[n + 1] = IF IsLast(w[n + 1]) THEN Append(f[n], w[n + 1].packet) ELSE f[n]
      /\ \A n \in Nat : n + 1 <= N =>
           g[n + 1] = IF IsLast(v[n + 1]) THEN Append(g[n], v[n + 1].packet) ELSE g[n]
  <2>1. N + 1 \in Nat
    BY <1>1
  <2> QED BY <1>1, <1>2, <1>3, <2>1, CountsFacts
<1> DEFINE Moved(n) ==
             IF IsLast(w[1])
               THEN /\ f[n + 1] # <<>> /\ f[n + 1] \in Seq(Packets)
                    /\ Head(f[n + 1]) = w[1].packet /\ Tail(f[n + 1]) = g[n]
               ELSE f[n + 1] = g[n]
           S == {n \in Nat : n <= N => Moved(n)}
<1>5. Moved(0)
  <2>1. f[0 + 1] = IF IsLast(w[0 + 1]) THEN Append(f[0], w[0 + 1].packet) ELSE f[0]
    <3>1. 0 \in Nat /\ 0 + 1 <= N + 1
      BY <1>1
    <3> QED BY <1>4, <3>1
  <2>2. w[0 + 1] = w[1] /\ w[1].packet \in Packets
    <3>1. 1 \in 1 .. N + 1 /\ 0 + 1 = 1
      BY <1>1
    <3> QED BY <1>1, <3>1, PieceIsItsParts
  <2>3. /\ Append(<<>>, w[1].packet) \in Seq(Packets) /\ Append(<<>>, w[1].packet) # <<>>
        /\ Head(Append(<<>>, w[1].packet)) = w[1].packet
        /\ Tail(Append(<<>>, w[1].packet)) = <<>>
    BY <2>2, EmptyFacts, AppendFacts, AppendToNothing
  <2> QED BY <1>4, <2>1, <2>2, <2>3
<1>6. ASSUME NEW n \in Nat, n + 1 <= N, Moved(n) PROVE Moved(n + 1)
  <2> DEFINE x == w[n + 2]
  <2>1. x \in Pieces /\ x.packet \in Packets /\ v[n + 1] = x
    BY <1>1, <1>6, PieceIsItsParts
  <2>2. f[n + 2] = IF IsLast(x) THEN Append(f[n + 1], x.packet) ELSE f[n + 1]
    <3>1. n + 1 \in Nat /\ (n + 1) + 1 <= N + 1 /\ (n + 1) + 1 = n + 2
      BY <1>1, <1>6
    <3>2. f[(n + 1) + 1] = IF IsLast(w[(n + 1) + 1])
                             THEN Append(f[n + 1], w[(n + 1) + 1].packet) ELSE f[n + 1]
      BY <1>4, <3>1
    <3> QED BY <3>1, <3>2
  <2>3. g[n + 1] = IF IsLast(x) THEN Append(g[n], x.packet) ELSE g[n]
    BY <1>4, <1>6, <2>1
  <2> HIDE DEF x
  <2>4. (n + 1) + 1 = n + 2
    OBVIOUS
  <2>5. CASE IsLast(w[1])
    <3>1. /\ f[n + 1] # <<>> /\ f[n + 1] \in Seq(Packets)
          /\ Head(f[n + 1]) = w[1].packet /\ Tail(f[n + 1]) = g[n]
      BY <1>6, <2>5
    <3>2. /\ f[n + 2] # <<>> /\ f[n + 2] \in Seq(Packets)
          /\ Head(f[n + 2]) = w[1].packet /\ Tail(f[n + 2]) = g[n + 1]
      <4>1. CASE IsLast(x)
        <5>1. /\ Append(f[n + 1], x.packet) # <<>> /\ Append(f[n + 1], x.packet) \in Seq(Packets)
              /\ Head(Append(f[n + 1], x.packet)) = Head(f[n + 1])
              /\ Tail(Append(f[n + 1], x.packet)) = Append(Tail(f[n + 1]), x.packet)
          BY <2>1, <3>1, AppendAfterHead, AppendFacts
        <5> QED BY <2>2, <2>3, <3>1, <4>1, <5>1
      <4>2. CASE ~IsLast(x)
        BY <2>2, <2>3, <3>1, <4>2
      <4> QED BY <4>1, <4>2
    <3> QED BY <2>4, <2>5, <3>2
  <2>6. CASE ~IsLast(w[1])
    BY <1>6, <2>2, <2>3, <2>4, <2>6
  <2> QED BY <2>5, <2>6
<1>7. 0 \in S
  BY <1>5
<1>8. ASSUME NEW n \in Nat, n \in S PROVE n + 1 \in S
  <2> HIDE DEF Moved
  <2>1. n + 1 <= N => n <= N
    BY <1>1
  <2> QED BY <1>6, <1>8, <2>1
<1> HIDE DEF S
<1>9. Nat \subseteq S
  BY <1>7, <1>8, SetInduction
<1>10. Moved(N)
  <2> HIDE DEF Moved
  <2> QED BY <1>1, <1>9 DEF S
<1> QED BY <1>2, <1>3, <1>10 DEF v

----------------------------------------------------------------------------
(* Every step is one of the FIFO of whole packets, or none.                *)
LEMMA WriteIsSend ==
  ASSUME TypeOK, Framed, NEW g \in Senders, WriteHeader(g) \/ WritePayload(g)
  PROVE  [Fifo!Next]_(Fifo!vars)
<1>1. UNCHANGED <<up, read>>
  BY DEF WriteHeader, WritePayload, Writes, readerVars
<1>2. CASE UNCHANGED wire
  BY <1>1, <1>2 DEF Fifo!vars, Whole
<1>3. ASSUME NEW part \in {"header", "payload"}, pc[g] = part, up,
             wire' = Append(wire, Piece(pkt[g], part))
      PROVE  [Fifo!Next]_(Fifo!vars)
  <2> DEFINE x == Piece(pkt[g], part)
  <2>1. pkt[g] \in Packets /\ wire \in Seq(Pieces)
    BY <1>3 DEF Framed, Sending, TypeOK
  <2>2. x \in Pieces /\ x.packet = pkt[g]
    BY <2>1, PieceIsPiece
  <2> HIDE DEF x
  <2>3. Completed(wire') = IF IsLast(x) THEN Append(Completed(wire), pkt[g]) ELSE Completed(wire)
    BY <1>3, <2>1, <2>2, CompletedAppend DEF x
  <2>4. CASE IsLast(x)
    <3>1. Fifo!Send(pkt[g])
      BY <1>1, <1>3, <2>3, <2>4 DEF Fifo!Send, Whole
    <3> QED BY <2>1, <3>1 DEF Fifo!Next
  <2>5. CASE ~IsLast(x)
    BY <1>1, <2>3, <2>5 DEF Fifo!vars, Whole
  <2> QED BY <2>4, <2>5
<1> QED BY <1>2, <1>3 DEF WriteHeader, WritePayload, Writes

LEMMA ReadIsReceive ==
  ASSUME TypeOK, Framed, ReadHeader \/ ReadPayload
  PROVE  [Fifo!Next]_(Fifo!vars)
<1>1. /\ wire \in Seq(Pieces) /\ wire # <<>> /\ wire' = Tail(wire)
      /\ Head(wire) = wire[1] /\ wire[1] \in Pieces /\ Len(wire) \in Nat \ {0} /\ UNCHANGED up
  BY TailFacts DEF ReadHeader, ReadPayload, TypeOK
<1>2. Fits(wire[1], pending)
  <2>1. Fits(wire[1], Due(1))
    BY <1>1 DEF Framed, WellFormed
  <2> QED BY <2>1 DEF Due
<1>3. CASE IsLast(wire[1])
  <2>1. read' = Append(read, wire[1].packet)
    <3>1. CASE ReadHeader
      BY <1>1, <1>2, <1>3, <3>1 DEF ReadHeader, Fits, IsLast
    <3>2. CASE ReadPayload
      <4>1. pending \in Packets /\ wire[1] = Piece(pending, "payload")
        BY <1>2, <3>2 DEF ReadPayload, TypeOK, Fits
      <4> QED BY <1>1, <3>2, <4>1, PieceIsPiece DEF ReadPayload
    <3> QED BY <3>1, <3>2
  <2>2. /\ Completed(wire) # <<>> /\ Head(Completed(wire)) = wire[1].packet
        /\ Tail(Completed(wire)) = Completed(wire')
    BY <1>1, <1>3, CompletedTail
  <2>3. Fifo!Receive
    BY <1>1, <2>1, <2>2 DEF Fifo!Receive, Whole
  <2> QED BY <2>3 DEF Fifo!Next
<1>4. CASE ~IsLast(wire[1])
  <2>1. UNCHANGED read
    <3>1. CASE ReadHeader
      BY <1>1, <1>2, <1>4, <3>1 DEF ReadHeader, Fits, IsLast
    <3>2. CASE ReadPayload
      <4>1. pending \in Packets /\ wire[1] = Piece(pending, "payload")
        BY <1>2, <3>2 DEF ReadPayload, TypeOK, Fits
      <4> QED BY <1>4, <4>1, PieceIsPiece DEF IsLast
    <3> QED BY <3>1, <3>2
  <2>2. Completed(wire') = Completed(wire)
    BY <1>1, <1>4, CompletedTail
  <2> QED BY <1>1, <2>1, <2>2 DEF Fifo!vars, Whole
<1> QED BY <1>3, <1>4

LEMMA NextIsFifo ==
  ASSUME TypeOK, Framed, [Next]_vars
  PROVE  [Fifo!Next]_(Fifo!vars)
<1>1. CASE UNCHANGED <<wire, read, up>>
  BY <1>1 DEF Fifo!vars, Whole
<1>2. CASE UNCHANGED vars \/ Idle \/ \E g \in Senders : Call(g) \/ Lock(g) \/ Unlock(g)
  BY <1>1, <1>2 DEF vars, readerVars, Idle, Call, Lock, LockWhen, Unlock
<1>3. CASE Break
  <2>1. wire' = <<>> /\ up /\ up' = FALSE /\ UNCHANGED read
    BY <1>3 DEF Break, readerVars
  <2>2. Whole' = <<>>
    BY <2>1, CompletedEmpty DEF Whole
  <2> QED BY <2>1, <2>2 DEF Fifo!Next, Fifo!Break
<1> QED BY <1>2, <1>3, WriteIsSend, ReadIsReceive DEF Next

(* Packets written by concurrent calls of send, a piece at a time, travel  *)
(* as if each were written in one step (connection.go:222-231,             *)
(* packet.go:34-84): what AdbWire and all that is built on it assume.      *)
THEOREM PacketsAreAtomic == Spec => AtomicPackets
<1>1. Init => Fifo!Init
  BY CompletedEmpty DEF Init, Fifo!Init, Whole
<1>2. TypeOK /\ Framed /\ [Next]_vars => [Fifo!Next]_(Fifo!vars)
  BY NextIsFifo
<1> QED BY <1>1, <1>2, AlwaysFramed, PTL DEF Spec, AtomicPackets, Fifo!Spec
=============================================================================
