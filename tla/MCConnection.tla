---------------------------- MODULE MCConnection ----------------------------
(* The values TLC gives to the constants of AdbConnection.                 *)
EXTENDS AdbConnectionProps, TLC

CONSTANTS s1, s2, c1, c2

OneStream == {s1}
TwoStreams == {s1, s2}
OneCloser == {c1}
TwoClosers == {c1, c2}
StreamSymmetry == Permutations(TwoStreams)
CloserSymmetry == Permutations(TwoClosers)
=============================================================================
