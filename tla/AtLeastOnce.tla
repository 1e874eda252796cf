---------------------------- MODULE AtLeastOnce ----------------------------
(***************************************************************************)
(* What a controller that resends a batch until it is answered is          *)
(* promised: by the time batch k is acknowledged all of its commands have  *)
(* run, in their order, since batch k - 1 was.  Commands of a batch        *)
(* acknowledged earlier may run again at any time: nothing removes         *)
(* duplicates, and an abandoned session finishes what it began.            *)
(***************************************************************************)
EXTENDS Sequences, Integers

CONSTANT Batches   \* the batches, in the order the controller sends them

VARIABLES
  acked,   \* the number of batches acknowledged
  since    \* the commands run since the last acknowledgement

(* The commands of s occur in t, in their order.                           *)
Embeds(s, t) ==
  \E p \in [1..Len(s) -> 1..Len(t)] :
     /\ \A i, j \in 1..Len(s) : i < j => p[i] < p[j]
     /\ \A i \in 1..Len(s) : t[p[i]] = s[i]

Init == acked = 0 /\ since = <<>>

Run ==
  \E k \in 1..Len(Batches) : \E i \in 1..Len(Batches[k]) :
    /\ k <= acked + 1
    /\ since' = Append(since, Batches[k][i])
    /\ UNCHANGED acked

Acknowledge ==
  /\ acked < Len(Batches)
  /\ Embeds(Batches[acked + 1], since)
  /\ acked' = acked + 1
  /\ since' = <<>>

Next == Run \/ Acknowledge

Spec == Init /\ [][Next]_<<acked, since>>
=============================================================================
