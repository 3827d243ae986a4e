---------------------------- MODULE MCJournals ----------------------------
(* A small instance of Journals for TLC.                                   *)
EXTENDS Journals

\* Users 1 and 2 trade, and user 10, whose number begins like user 1's.
SomeParties == {<<1, 2>>, <<2, 10>>}

=============================================================================
