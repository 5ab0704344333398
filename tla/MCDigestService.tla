--------------------------- MODULE MCDigestService ---------------------------
(* Instances of DigestService for TLC.  The run checks liveness, so it     *)
(* takes no symmetry.                                                      *)
EXTENDS AnchoringRefinement, TLC
=============================================================================
