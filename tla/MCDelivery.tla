---------------------------- MODULE MCDelivery ----------------------------
(* Finite instances of Delivery, and with it of Trust.                     *)
EXTENDS Delivery, TLC

DeliverySymmetry ==
  Permutations(Peers) \cup Permutations(Keys) \cup Permutations(MsgIds)
    \cup Permutations(Ephemerals)
=============================================================================
