----------------------------- MODULE Publication -----------------------------
(***************************************************************************)
(* What readers of the public phonebook may rely on, whoever publishes it  *)
(* and whatever goes wrong: while the program runs, the file is replaced   *)
(* by the version being published or put back to the version it had when   *)
(* that publication began, and nothing in between is ever seen; it is      *)
(* missing only after a restart.  Phones and the web page read the file    *)
(* without any lock, so this is all that protects them.                    *)
(***************************************************************************)
CONSTANTS
    Data,     \* contents a phonebook can have
    Nothing   \* there is no public phonebook

VARIABLES
    shown,    \* what a reader finds: a version, or Nothing
    offered,  \* the version of the last publication
    replaced, \* what was shown when it began
    running   \* whether the program runs

vars == <<shown, offered, replaced, running>>

Init ==
    /\ shown = Nothing /\ offered = Nothing /\ replaced = Nothing
    /\ running = TRUE

\* A publication begins.
Prepare ==
    /\ running
    /\ offered' \in Data
    /\ replaced' = shown
    /\ UNCHANGED <<shown, running>>

Replace ==
    /\ running
    /\ shown' = offered
    /\ UNCHANGED <<offered, replaced, running>>

Retract ==
    /\ running /\ replaced # Nothing
    /\ shown' = replaced
    /\ UNCHANGED <<offered, replaced, running>>

Stop ==
    /\ running' = FALSE
    /\ UNCHANGED <<shown, offered, replaced>>

\* The program deletes the file when it starts.
Restart ==
    /\ ~running /\ running' = TRUE
    /\ shown' = Nothing
    /\ UNCHANGED <<offered, replaced>>

Next == Prepare \/ Replace \/ Retract \/ Stop \/ Restart

Spec == Init /\ [][Next]_vars
=============================================================================
