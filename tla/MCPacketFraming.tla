-------------------------- MODULE MCPacketFraming --------------------------
(* The values TLC gives to the constants of PacketFraming.                 *)
EXTENDS PacketFraming, TLC

CONSTANTS g1, g2, g3

ThreeSenders == {g1, g2, g3}
SenderSymmetry == Permutations(ThreeSenders)
=============================================================================
