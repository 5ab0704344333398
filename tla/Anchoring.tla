------------------------------ MODULE Anchoring ------------------------------
(***************************************************************************)
(* What the anchoring pipeline promises, with no tables, retries or        *)
(* transaction hashes: an item that was handed in waits; batches of items  *)
(* that were handed in are put on a chain that forgets nothing; and an     *)
(* item stops waiting only together with all of a batch that is there,     *)
(* which from then on is its evidence, until another batch replaces it.    *)
(***************************************************************************)
CONSTANT Items

VARIABLES
  waiting,   (* handed in, and no evidence yet                             *)
  chain,     (* the batches on the chain                                   *)
  evidence   (* the batch that proves an item; {} if none does yet         *)

anchorVars == <<waiting, chain, evidence>>

Proved == { i \in Items : evidence[i] # {} }

Init ==
  /\ waiting = {}
  /\ chain = {}
  /\ evidence = [i \in Items |-> {}]

HandIn(i) ==
  /\ i \notin waiting \cup Proved
  /\ waiting' = waiting \cup {i}
  /\ UNCHANGED <<chain, evidence>>

Anchor(batch) ==
  /\ batch # {}
  /\ batch \subseteq waiting \cup Proved
  /\ chain' = chain \cup {batch}
  /\ UNCHANGED <<waiting, evidence>>

Prove(batch) ==
  /\ batch \in chain
  /\ waiting' = waiting \ batch
  /\ evidence' = [i \in Items |-> IF i \in batch THEN batch ELSE evidence[i]]
  /\ UNCHANGED chain

Next ==
  \/ \E i \in Items : HandIn(i)
  \/ \E batch \in SUBSET Items : Anchor(batch)
  \/ \E batch \in chain : Prove(batch)

Spec == Init /\ [][Next]_anchorVars
=============================================================================
