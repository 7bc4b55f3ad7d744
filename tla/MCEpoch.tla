------------------------------- MODULE MCEpoch -------------------------------
(* Epoch with small sets of runs, coins, epochs and lamports. *)
EXTENDS Epoch, TLC

CONSTANT c1

OneCoin == <<c1>>

\* Runs are interchangeable.
Symmetry == Permutations(Workers)
=============================================================================
