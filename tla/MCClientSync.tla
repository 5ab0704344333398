---------------------------- MODULE MCClientSync ----------------------------
(***************************************************************************)
(* Small instances of the C++ client's synchronisation for TLC.            *)
(***************************************************************************)
EXTENDS ReplicaRefinement, TLC

ClientSymmetry == Permutations(MsgIds) \cup Permutations(Clients)
=============================================================================
