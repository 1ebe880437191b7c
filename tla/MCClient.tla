------------------------------ MODULE MCClient ------------------------------
(* The values TLC gives to the constants of AdbClient.                     *)
EXTENDS AdbClient

CONSTANTS a, b, p

TwoCallers == {a, b}
OneCaller == {a}
OnePath == {p}
AllTasks == {"shell", "push", "pull", "install", "idle"}

(* Calls meet only in the files of the device: each kind of call runs by   *)
(* itself, and an install together with another upload to its path.        *)
MCInit ==
  /\ Init
  /\ task[b] = "idle" \/ (task[a] = "install" /\ task[b] = "push")

MCSpec == MCInit /\ [][Next]_vars /\ ClientFairness
=============================================================================
