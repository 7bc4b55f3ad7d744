------------------------------ MODULE MCLaunch ------------------------------
(* Launch with small sets of calls, blocks and faults. *)
EXTENDS Launch, TLC

\* Calls of /launch/confirm are interchangeable in the safety runs.
Symmetry == Permutations(Handlers)
=============================================================================
