------------------------------ MODULE MCPrepare ------------------------------
(* Prepare with small sets of calls and keys. *)
EXTENDS Prepare, TLC

\* Calls are interchangeable, and so are request keys.
Symmetry == Permutations(Calls) \union Permutations(Keys)
=============================================================================
