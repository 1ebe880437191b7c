----------------------------- MODULE MCForward -----------------------------
(* The values TLC gives to the constants of PortForward.                   *)
EXTENDS PortForward

CONSTANTS k1, k2, k3

ThreeSockets == {k1, k2, k3}

(* One connection with traffic both ways, or two that the device ends      *)
(* without any.                                                            *)
OneOrTwo == {{k1}, {k2, k3}}
Requests == [k \in ThreeSockets |-> IF k = k1 THEN 1 ELSE 0]
Responses == [k \in ThreeSockets |-> IF k = k1 THEN 1 ELSE 0]
HowTheyEnd ==
  [k \in ThreeSockets |->
     IF k = k1 THEN {"half", "closed"} ELSE {}]
=============================================================================
