------------------------------- MODULE MCThreads ------------------------------
(***************************************************************************)
(* An instance of Threads for TLC, with two threads that only sleep.       *)
(***************************************************************************)
EXTENDS Threads

CONSTANTS s, b
MCSleepers == {s, b}
=============================================================================
