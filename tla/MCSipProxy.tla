----------------------------- MODULE MCSipProxy ------------------------------
(***************************************************************************)
(* Instances of SipProxy for TLC: two slots, so that a second call or a    *)
(* second session of the same call fits and a third INVITE is refused.     *)
(***************************************************************************)
EXTENDS SipProxy

CONSTANTS c1, c2, h1

TwoCalls == {c1, c2}
OneHost == {h1}

\* Requests go to port 5060; a phone may send from another one.
TwoPorts == {5060, 5062}
==============================================================================
