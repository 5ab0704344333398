----------------------------- MODULE MCWebChat -----------------------------
(* Instances of WebChat for TLC.  Accounts, peers, texts and handlers are  *)
(* interchangeable.                                                        *)
EXTENDS WebChat, TLC

Symmetry ==
  Permutations(Accounts) \cup Permutations(Peers) \cup Permutations(Texts)
    \cup Permutations(Tasks)
=============================================================================
