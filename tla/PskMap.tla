------------------------------- MODULE PskMap -------------------------------
(***************************************************************************)
(* What the PSK store promises its callers: a map from SSIDs to entries,  *)
(* an entry being a PSK, no PSK, or a line whose key cannot be read.      *)
(* A successful save of an SSID's PSK sets that entry, a successful drop  *)
(* clears it, and nothing else ever changes an entry.  last is the last   *)
(* call that reported success.                                            *)
(***************************************************************************)
CONSTANTS Ssids, Psks, NoPsk, Unreadable

VARIABLES store, last

Init ==
  /\ store \in [Ssids -> Psks \cup {NoPsk, Unreadable}]
  /\ last = <<"none">>

Save(s, k) ==
  /\ last' = <<"save", s, k>>
  /\ store' = [store EXCEPT ![s] = k]

Drop(s) ==
  /\ last' = <<"drop", s>>
  /\ store' = [store EXCEPT ![s] = NoPsk]

Next == \E s \in Ssids : Drop(s) \/ \E k \in Psks : Save(s, k)

Spec == Init /\ [][Next]_<<store, last>>
=============================================================================
