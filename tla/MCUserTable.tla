----------------------------- MODULE MCUserTable -----------------------------
(***************************************************************************)
(* Instances of UserTable for TLC: three slots, so that two ids and one    *)
(* more fill the table; ids that fit, one that is truncated to another id, *)
(* and the empty id.                                                       *)
(***************************************************************************)
EXTENDS UserTableHistory

Empty == ""

\* "long" stands for an id of ten characters or more whose first nine are "a".
AllIds == {Empty, "a", "b", "c", "d", "long"}
Truncated == [i \in AllIds |-> IF i = "long" THEN "a" ELSE i]

\* Any REGISTER, and phonebooks that are empty, repeat an id, lack one in a row,
\* or have a row more than the table has slots.
AnyRegIds == {Empty, "a", "b", "c", "long"}
AnyBooks == {<<>>, <<"b", "d", "b">>, <<"c", "d", "a", "b">>, <<"b", Empty, "c">>}

\* Short phonebooks and single ids, for the counterexamples.
OneBook == {<<"a">>}
OneId == {"a"}
LongIds == {"long"}
=============================================================================
