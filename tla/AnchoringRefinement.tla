------------------------- MODULE AnchoringRefinement -------------------------
(***************************************************************************)
(* The digest service implements Anchoring: rows of digest_queue are the   *)
(* items, the transactions in a block the chain, and the evidence for a    *)
(* row is what GET /blockchain/digest leads to from its batch_id.          *)
(***************************************************************************)
EXTENDS DigestService

Chain == { txHash[t].members : t \in mined }

(* From the stamp to its record, from there to the transaction it names    *)
(* and the rows whose hash that has recorded.                              *)
RecordsAt(b) == { rec \in records : rec.batch_id = b /\ rec.tx_hash \in mined }

Evidence == [r \in Rows |-> UNION { txHash[rec.tx_hash].members : rec \in RecordsAt(batch_id[r]) }]

A == INSTANCE Anchoring WITH
       Items <- Rows, waiting <- Unbatched, chain <- Chain, evidence <- Evidence

(***************************************************************************)
(* Whatever overlaps, fails after its effect, is tried again or crashes:   *)
(* only queued rows get on chain, a row leaves the queue only by a stamp   *)
(* that leads to a mined transaction over it, and together with all the    *)
(* rows of that transaction that are still queued; it never goes back, and *)
(* its evidence is at any time one whole batch of the chain.               *)
(***************************************************************************)
ImplementsAnchoring == A!Spec
=============================================================================
