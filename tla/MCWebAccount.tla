---------------------------- MODULE MCWebAccount ----------------------------
(* Finite instances of WebAccount.                                         *)
EXTENDS WebAccount, TLC

WebSymmetry ==
  Permutations(Browsers) \cup Permutations(Keys) \cup Permutations(Passwords)
    \cup Permutations(Names) \cup Permutations(Tasks)
=============================================================================
