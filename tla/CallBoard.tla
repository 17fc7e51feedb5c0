------------------------------ MODULE CallBoard ------------------------------
(***************************************************************************)
(* What the file of active calls promises to those who read it, the CGI of *)
(* the dashboard: a call appears when its INVITE is forwarded, rings, is   *)
(* established, and disappears.  No call is ever seen terminating, and no  *)
(* place of the list passes from one call to another without being empty   *)
(* in between.  SipProxy implements it: its export is the board.           *)
(***************************************************************************)

CONSTANTS
    CallIds,    \* calls that may be listed
    Slots,      \* places of the list
    NotListed   \* an empty place

VARIABLE board

Shows(s, call, state) == [board EXCEPT ![s] = [call |-> call, state |-> state]]

Init == board = [s \in Slots |-> NotListed]

\* A call is listed as soon as its INVITE is forwarded.
Appear(s, call) ==
    /\ board[s] = NotListed
    /\ board' = Shows(s, call, "INVITE_SENT")

\* The callee rings or answers; the entry keeps its call.
Progress(s, state) ==
    /\ board[s] # NotListed
    /\ board' = Shows(s, board[s].call, state)

\* A call ends, or the cleanup gives it up.
Vanish(s) ==
    /\ board[s] # NotListed
    /\ board' = [board EXCEPT ![s] = NotListed]

Next ==
    \/ \E s \in Slots, call \in CallIds : Appear(s, call)
    \/ \E s \in Slots, state \in {"RINGING", "ESTABLISHED"} : Progress(s, state)
    \/ \E s \in Slots : Vanish(s)

Spec == Init /\ [][Next]_board
=============================================================================
