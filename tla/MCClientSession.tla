-------------------------- MODULE MCClientSession --------------------------
(* Finite instances of ClientSession.                                      *)
EXTENDS ClientSession, TLC

SessionSymmetry ==
  Permutations(Processes) \cup Permutations(Keys) \cup Permutations(Passwords)
    \cup Permutations(Names)
=============================================================================
