------------------------------ MODULE KeyStore ------------------------------
(***************************************************************************)
(* LoadOrCreateKey (conveniences.go:15-29): processes that share one key   *)
(* file and may crash.  os.ReadFile and ParsePrivateKeyPEM are one step;   *)
(* os.WriteFile truncates the file before it writes.                       *)
(***************************************************************************)
EXTENDS Naturals

CONSTANTS
  Procs,                \* processes; the key one generates is named for it
  MaxCrashes            \* bound: crashes, and so restarts

ASSUME KeyStoreAssumption ==
  /\ MaxCrashes \in Nat
  /\ Procs \cap {"absent", "cut", "none"} = {}

VARIABLES
  file,                 \* "absent", "cut", or the key it holds
  kpc,                  \* each process: "start", "generate", "write", "rest"
  held,                 \* the key LoadOrCreateKey returned, or "none"
  crashes,              \* crashes so far
  overlap               \* history: two processes created the file at once

keyVars == <<file, kpc, held, crashes, overlap>>

KeyInit ==
  /\ file = "absent"
  /\ kpc \in [Procs -> {"start", "rest"}]      \* "rest": one that asks for no key
  /\ held = [p \in Procs |-> "none"]
  /\ crashes = 0
  /\ overlap = FALSE

Creating(p) == kpc[p] \in {"generate", "write"}
KeyGoes(p, pc) == kpc' = [kpc EXCEPT ![p] = pc]

LoadKey(p) ==
  /\ kpc[p] = "start"
  /\ \/ file = "absent" /\ KeyGoes(p, "generate") /\ UNCHANGED held
     \/ file \in Procs /\ KeyGoes(p, "rest") /\ held' = [held EXCEPT ![p] = file]
     \/ KeyGoes(p, "rest") /\ UNCHANGED held     \* not readable, or not a PEM block
  /\ UNCHANGED <<file, crashes, overlap>>

(* GenerateKey, then the opening of the file for writing; either may fail. *)
CreateFile(p) ==
  /\ kpc[p] = "generate"
  /\ \/ /\ KeyGoes(p, "write")
        /\ file' = "cut"
        /\ overlap' = (overlap \/ file # "absent" \/ \E q \in Procs \ {p} : Creating(q))
     \/ KeyGoes(p, "rest") /\ UNCHANGED <<file, overlap>>
  /\ UNCHANGED <<held, crashes>>

WriteKey(p) ==
  /\ kpc[p] = "write"
  /\ KeyGoes(p, "rest")
  /\ file' = p
  /\ held' = [held EXCEPT ![p] = p]
  /\ UNCHANGED <<crashes, overlap>>

WriteKeyFailsWith(p, key) ==
  /\ kpc[p] = "write"
  /\ KeyGoes(p, "rest")
  /\ file' \in {"cut", p}
  /\ held' = [held EXCEPT ![p] = key]
  /\ UNCHANGED <<crashes, overlap>>

(* Faulty: the error of os.WriteFile is ignored.                           *)
WriteKeyFailsQuietly(p) == WriteKeyFailsWith(p, p)

(* The disk is full, or Close fails after all was written: the error is    *)
(* returned, the file stays as it is.                                      *)
WriteKeyFails(p) == WriteKeyFailsWith(p, "none")

CrashKey(p) ==
  /\ crashes < MaxCrashes
  /\ kpc[p] # "rest" \/ held[p] # "none"
  /\ crashes' = crashes + 1
  /\ KeyGoes(p, "start")
  /\ held' = [held EXCEPT ![p] = "none"]
  /\ UNCHANGED <<file, overlap>>

KeyStep(p) == LoadKey(p) \/ CreateFile(p) \/ WriteKey(p) \/ WriteKeyFails(p)
=============================================================================
