---------------------------- MODULE MCActiveCalls ----------------------------
(***************************************************************************)
(* Instances of ActiveCalls for TLC: two slots, files enough for the two   *)
(* names and the two open streams, and time enough for a session to grow   *)
(* old and another one to follow it.                                       *)
(***************************************************************************)
EXTENDS ActiveCalls, TLC

CONSTANTS c1, c2, f1, f2, f3, f4

OneCall == {c1}
TwoCalls == {c1, c2}
FourFiles == {f1, f2, f3, f4}

\* Files are interchangeable.
FilesAlike == Permutations(FourFiles)
=============================================================================
