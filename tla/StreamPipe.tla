----------------------------- MODULE StreamPipe -----------------------------
(***************************************************************************)
(* What a Stream promises to its reader, with no packets, queues or        *)
(* goroutines: the chunks the device sends arrive in order, none missing   *)
(* and none twice; at most Capacity of them are on their way; and when the *)
(* device ended the stream, Read reports the end only after the last       *)
(* chunk.  When this side ended it, chunks may be lost, though never from  *)
(* the middle, and Read may still return one after it reported the end.    *)
(***************************************************************************)
EXTENDS Naturals, Sequences

CONSTANTS Streams, Capacity, Causes

VARIABLES
  sent,                 \* chunks the device has sent
  got,                  \* chunks Read has returned
  ended,                \* who ended the stream, "no" while it is open
  eof                   \* Read has reported the end

vars == <<sent, got, ended, eof>>

Init ==
  /\ sent = [s \in Streams |-> 0]
  /\ got = [s \in Streams |-> <<>>]
  /\ ended = [s \in Streams |-> "no"]
  /\ eof = [s \in Streams |-> FALSE]

Put(s) ==
  /\ ended[s] # "remote"
  /\ sent[s] - Len(got[s]) < Capacity
  /\ sent' = [sent EXCEPT ![s] = @ + 1]
  /\ UNCHANGED <<got, ended, eof>>

Take(s) ==
  /\ Len(got[s]) < sent[s]
  /\ eof[s] => ended[s] # "remote"
  /\ got' = [got EXCEPT ![s] = Append(@, Len(@) + 1)]
  /\ UNCHANGED <<sent, ended, eof>>

(* One stream ends, or the connection with several of them.                *)
End(S, cause) ==
  /\ \A s \in S : ended[s] = "no"
  /\ ended' = [s \in Streams |-> IF s \in S THEN cause ELSE ended[s]]
  /\ UNCHANGED <<sent, got, eof>>

Report(s) ==
  /\ ended[s] # "no"
  /\ ended[s] = "remote" => Len(got[s]) = sent[s]
  /\ eof' = [eof EXCEPT ![s] = TRUE]
  /\ UNCHANGED <<sent, got, ended>>

Next ==
  \/ \E s \in Streams : Put(s) \/ Take(s) \/ Report(s)
  \/ \E S \in SUBSET Streams, cause \in Causes : End(S, cause)

Spec == Init /\ [][Next]_vars
=============================================================================
