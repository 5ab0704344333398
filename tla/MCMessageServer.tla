--------------------------- MODULE MCMessageServer ---------------------------
(***************************************************************************)
(* Small instances of the message handlers for TLC.  Users are numbers,    *)
(* because the code orders their ids; message ids, conversation ids and    *)
(* requests are interchangeable.                                           *)
(***************************************************************************)
EXTENDS MessageRefinement, TLC

IdAndRequestSymmetry ==
  Permutations(MsgIds) \cup Permutations(ConvIds) \cup Permutations(Handlers)
=============================================================================
