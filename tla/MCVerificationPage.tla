------------------------- MODULE MCVerificationPage -------------------------
(* Instances of VerificationPage for TLC.                                  *)
EXTENDS VerificationPage, TLC

RowSymmetry == Permutations(Rows)
=============================================================================
