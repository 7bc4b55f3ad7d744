---------------------------- MODULE MCRepository ----------------------------
(* Repository with small sets of ids and values. *)
EXTENDS Repository, TLC

\* Nothing but equality is asked of an id, a key, a mint, a module or a wallet.
Symmetry ==
  Permutations(Ids) \cup Permutations(Keys) \cup Permutations(Mints) \cup Permutations(Modules)
  \cup Permutations(Wallets)
=============================================================================
