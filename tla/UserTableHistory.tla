-------------------------- MODULE UserTableHistory ---------------------------
(***************************************************************************)
(* The table of users with a history of whether an odd id has been used:   *)
(* an empty one, or one that does not fit.  It is apart from UserTable     *)
(* because BulkTest composes the table without it.                         *)
(***************************************************************************)
EXTENDS UserTable

VARIABLE odd

Odd(id) == id = NoId \/ Stored[id] # id

UsesOdd ==
    \/ lastReg # NoRequest /\ Odd(lastReg.id)
    \/ \E id \in handled : Odd(id)

HistoryInit == Init /\ odd = FALSE
HistoryNext == Next /\ odd' = (odd \/ UsesOdd')
HistorySpec == HistoryInit /\ [][HistoryNext]_<<vars, odd>>

-----------------------------------------------------------------------------
(* A property of tables in which every id so far fits and is not empty *)

\* The registrar is right: the two counters count the slots in use exactly, no id is in
\* the table twice, and right after a REGISTER the table says what the REGISTER asked for,
\* unless the table is full or the REGISTER has no Expires header.  A load that begins
\* later clears the registered users, so nothing is said of how long they stay.
FittingRegistrar == odd \/ (CountersExact /\ UniqueIds /\ AnswerHonoured)
=============================================================================
