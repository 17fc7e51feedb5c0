------------------------------ MODULE MCHealth -------------------------------
(***************************************************************************)
(* Instances of Health for TLC: the reporter and one or two other threads. *)
(* A tick stands for half an hour: a thread is unresponsive after one of   *)
(* them, and the scheduled report comes every two.                         *)
(***************************************************************************)
EXTENDS Health

CONSTANTS reporter, safety, crawler

Two == {reporter, safety}
Three == {reporter, safety, crawler}

\* The crawler sleeps for an hour between two crawls.
Laps == [t \in Threads |-> IF t = crawler THEN 3 ELSE 1]

Levels == {0, 30}
Sizes == {20}

\* The default of the program sends nothing to the collector.
AllOn == [local |-> TRUE, collector |-> TRUE, off |-> {}]
Some == {AllOn, [AllOn EXCEPT !.collector = FALSE]}

\* The safety thread stands for one whose function is turned off.
OneOff == {AllOn, [AllOn EXCEPT !.off = {safety}]}
==============================================================================
