---------------------------- MODULE MCSafePublish ----------------------------
(***************************************************************************)
(* Instances of SafePublish for TLC: two phonebooks of the same size and a *)
(* longer one, whose copy can be cut short above and below 50 bytes.       *)
(***************************************************************************)
EXTENDS SafePublish

CONSTANTS fetcher, updater, d1, d2, d3

Threads == {fetcher, updater}
Phonebooks == {d1, d2, d3}
Size == [d \in Phonebooks |-> IF d = d3 THEN 3 ELSE 2]
=============================================================================
