-------------------------------- MODULE Lists --------------------------------
(***************************************************************************)
(* Array.prototype.filter.  It is a fold because SelectSeq, which computes *)
(* the same, has no definition that a proof could use.                     *)
(***************************************************************************)
EXTENDS SequencesExt

Filter(seq, Keep(_)) ==
  FoldLeft(LAMBDA kept, x : IF Keep(x) THEN Append(kept, x) ELSE kept, <<>>, seq)
=============================================================================
