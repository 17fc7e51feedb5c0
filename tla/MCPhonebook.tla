----------------------------- MODULE MCPhonebook -----------------------------
(***************************************************************************)
(* Instances of Phonebook for TLC: three releases, one of which can be cut *)
(* to a part that still has a row.                                         *)
(*                                                                         *)
(* A content is a sequence of bytes, and its hash is the one of the code:  *)
(* every byte shifts the checksum by one bit, in an unsigned long, so that *)
(* the checksum depends on the last Width bytes alone.  Width is 64 or 32  *)
(* in the code and 3 here; a byte is 0 or 1 here.  The third release edits *)
(* the second one above its last 3 bytes, and so has the same checksum.    *)
(***************************************************************************)
EXTENDS Phonebook

SX == INSTANCE SequencesExt

Width == 3

Checksum(content) ==
    SX!FoldLeft(LAMBDA sum, byte : (2 * sum + byte) % 2^Width, 0, content)

empty == <<>>
part == <<1, 0, 1>>
first == <<1, 1, 1, 1>>
second == <<1, 0, 1, 0>>
third == <<0, 0, 1, 0>>

Contents == {empty, part, first, second, third}
Cuts == [d \in Contents |-> IF d = second THEN {empty, part} ELSE {empty}]
WithRows == Contents \ {empty}
Checksums == [d \in Contents |-> Checksum(d)]
Sums == 0..(2^Width - 1)

\* An edit that the checksum sees, then one that it does not see.
History == <<first, second, third>>
\* Only edits that it sees.
SeenHistory == <<first, second>>
=============================================================================
