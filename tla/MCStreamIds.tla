---------------------------- MODULE MCStreamIds ----------------------------
(* The values TLC gives to the constants of StreamIds.                     *)
EXTENDS StreamIds, TLC

CONSTANTS o1, o2, o3

ThreeOpeners == {o1, o2, o3}
OpenerSymmetry == Permutations(ThreeOpeners)
=============================================================================
