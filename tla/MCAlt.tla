-------------------------------- MODULE MCAlt --------------------------------
(* Small instance of Alt: one fixed entry and one recipient that may change. *)
EXTENDS Alt, TLC

TwoEntries == [old |-> <<"fee", "old">>, new |-> <<"fee", "new">>]

Symmetry == Permutations(Runs)
=============================================================================
