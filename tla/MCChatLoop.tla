----------------------------- MODULE MCChatLoop -----------------------------
(* Finite instances of ChatLoop.                                           *)
EXTENDS ChatLoop, TLC

ChatSymmetry == Permutations(OwnIds) \cup Permutations(PeerIds)
=============================================================================
