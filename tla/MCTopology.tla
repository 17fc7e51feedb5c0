------------------------------ MODULE MCTopology ------------------------------
(***************************************************************************)
(* An instance of Topology for TLC: this router, two more behind it, a     *)
(* phone that two of them list, and a foreign router that is filtered out. *)
(***************************************************************************)
EXTENDS Topology

CONSTANTS l, r, s, p, f

MCHosts == {l, r, s, p, f}
MCPhones == {p}
MCCrawlable == {l, r, s, p}
MCNeighbours == {<<l, r>>, <<l, f>>, <<r, l>>, <<r, s>>, <<r, p>>}
=============================================================================
