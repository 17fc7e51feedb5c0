----------------------------- MODULE MCBulkTest ------------------------------
(***************************************************************************)
(* Instances of BulkTest for TLC: two users and two results, and a third   *)
(* phone, so that slots change hands and the table of results fills up.    *)
(* The shared memory is new, or an earlier process has left one result.    *)
(***************************************************************************)
EXTENDS BulkTest

Empty == ""
ThreeIds == {Empty, "a", "b", "c"}
Whole == [id \in ThreeIds |-> id]
OneRegId == {"c"}
TwoBooks == {<<"a", "c">>, <<"b">>}

\* All three tests; and OPTIONS alone, where the host name may be out of reach.
AllTests == [ping |-> TRUE, options |-> TRUE, call |-> TRUE, hostname |-> TRUE]
OptionsOnly == [ping |-> FALSE, options |-> TRUE, call |-> FALSE, hostname |-> FALSE]

Unwritten == [phone |-> Empty, valid |-> FALSE, stamp |-> 0, of |-> {}, cut |-> FALSE]
OfA == [phone |-> "a", valid |-> TRUE, stamp |-> 0, of |-> {"a"}, cut |-> FALSE]
NewMemory == [results |-> <<Unwritten, Unwritten>>, header |-> 0]
OneLeft == [results |-> <<Unwritten, OfA>>, header |-> 1]
NewOrLeft == {NewMemory, OneLeft}

SomeConfigs == {AllTests, OptionsOnly}
FullConfig == {AllTests}
NoHostnames == {OptionsOnly}
=============================================================================
