----------------------------- MODULE MCSoftphone -----------------------------
(***************************************************************************)
(* Instances of Softphone for TLC: two calls, of which the second one can  *)
(* meet what is left of the first, and timeouts in the order of the code's *)
(* (1 s of polling, 5 s for a response, 10 s of waiting or of ringing, 30  *)
(* s for a call).                                                          *)
(***************************************************************************)
EXTENDS Softphone

\* A phone counted as online has been reached (ping_bulk_test.c:95 "Phones that responded to SIP
\* OPTIONS or INVITE").  TLC finds it violated while the threads stay apart: any error is taken
\* for an answer of the phone, the proxy's own 404 and 503 too.
OnlineWasReached ==
    course = "apart" /\ verdict = "online" => line[tester.call] \in {"ringing", "up", "over"}

\* A phone that rings or is in a call when its test is over has been told to stop ("As soon as
\* `RINGING` or `ESTABLISHED` is observed, the tester cancels or hangs up", the document on the
\* UAC, line 28).  TLC finds it violated while the threads stay apart: a phone that picks up
\* between the look at the state and the CANCEL, or rings with 183, is left alone.
ObservedIsEnded ==
    course = "apart" /\ verdict = "online" /\ requests = <<>> /\ tester.pc = "between"
        => line[tester.call] \notin {"ringing", "up"}
=============================================================================
