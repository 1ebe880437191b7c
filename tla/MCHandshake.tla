---------------------------- MODULE MCHandshake ----------------------------
(* The values TLC gives to the constants of AdbHandshake.                  *)
EXTENDS AdbHandshake

OneMiB == 1048576

(* Zero, the smallest, the largest and one too many.                       *)
AdvertisedSizes == {0, 1, OneMiB, OneMiB + 1}
=============================================================================
