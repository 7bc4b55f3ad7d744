------------------------------- MODULE MCSolana -------------------------------
(***************************************************************************)
(* Small fields of the code's shape: 109 is 2^7 - 19, with one byte for a  *)
(* digest.  The digits at the edges of both bases, and an invalid          *)
(* character.                                                              *)
(***************************************************************************)
EXTENDS Solana

\* 13 has the d of the code's own formula, -121665/121666.
SmallCurves == { [p |-> 13, d |-> 11, size |-> 1], [p |-> 29, d |-> 2, size |-> 1],
                 [p |-> 109, d |-> 2, size |-> 1] }

EdgeBytes == {0, 1, 57, 58, 255}
EdgeChars == {-1, 0, 1, 57}

=============================================================================
