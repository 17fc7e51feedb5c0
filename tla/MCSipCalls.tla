----------------------------- MODULE MCSipCalls ------------------------------
(***************************************************************************)
(* Instances of SipCalls for TLC.  c1 is placed from h1 to the phone of    *)
(* h2, c2 the other way round, so the phone of each host is in both calls. *)
(***************************************************************************)
EXTENDS SipCalls

CONSTANTS c1, c2, h1, h2

OneCall == {c1}
TwoCalls == {c1, c2}
Hosts == {h1, h2}
Ports5060 == {5060}
Ports5060and5062 == {5060, 5062}

Placed(c) == IF c = c1 THEN h1 ELSE h2

\* Softphones that send from another port than 5060.
OtherPort == [c \in CallIds |-> [ip |-> Placed(c), port |-> 5062]]

\* Desk phones that send from the port they listen on.
SamePort == [c \in CallIds |-> [ip |-> Placed(c), port |-> 5060]]

Called == [c \in CallIds |-> IF c = c1 THEN h2 ELSE h1]
=============================================================================
