-------------------------- MODULE VerificationPage --------------------------
(***************************************************************************)
(* The public verification page beside the anchoring pipeline.  A check of *)
(* one message makes three requests, and the pipeline moves on between     *)
(* them: the digest record of the message, the other digests of its batch, *)
(* and the batch hash that the chain holds for a transaction.  No one      *)
(* tampers with the database here, so a FAIL is a false alarm.             *)
(***************************************************************************)
EXTENDS DigestService

CONSTANT NoRow    (* the page has no message id                            *)

ASSUME NoRowAssumption == NoRow \notin Rows

VARIABLE page

pageVars == <<page, vars>>

Blank == [pc |-> "blank", row |-> NoRow, pasted |-> NoRow, batch |-> NoBatch,
          tx |-> NoTx, recomputed |-> EmptyHash, verdict |-> "none"]

PageInit == Init /\ page = Blank

(* GET /blockchain/digest/:message_id -- 404 until the row is stamped; the *)
(* LEFT JOIN finds the records of its batch.                               *)
OnRecord(r) == batch_id[r] # NoBatch
RecordsOf(b) == { rec \in records : rec.batch_id = b }

(* The user pastes the id of message r, a ciphertext, which is the one of  *)
(* message c, and possibly the hash of a transaction to query.             *)
FetchDigest(r, c, userTx) ==
  /\ page.pc = "blank"
  /\ OnRecord(r)
  /\ \E rec \in RecordsOf(batch_id[r]) :
       page' = [page EXCEPT !.pc = "batch", !.row = r, !.pasted = c,
                            !.batch = batch_id[r],
                            !.tx = IF userTx = NoTx THEN rec.tx_hash ELSE userTx]

(* An error message is shown instead of a verdict.                         *)
Error == page' = [page EXCEPT !.pc = "shown", !.verdict = "error"]

(* GET /blockchain/batch/:batch_id and the hash over what it returns.      *)
FetchBatch ==
  /\ page.pc = "batch"
  /\ \/ /\ Members(page.batch) = {}
        /\ Error
     \/ \E order \in FlushOrders(Members(page.batch)) :
          /\ Members(page.batch) # {}
          /\ page' = [page EXCEPT !.pc = "tx",
                        !.recomputed = BatchHash(Members(page.batch), order)]

DigestMatch == page.pasted = page.row

VerdictByChain ==            (* mutant: the pasted ciphertext is not compared *)
  IF page.recomputed = txHash[page.tx] THEN "PASS" ELSE "FAIL"
Verdict ==
  IF DigestMatch /\ page.recomputed = txHash[page.tx] THEN "PASS" ELSE "FAIL"

(* GET /blockchain/tx/:tx_hash -- the batch hash of a transaction's event. *)
FetchTx ==
  /\ page.pc = "tx"
  /\ \/ page.tx \notin mined /\ Error
     \/ page.tx \in mined /\ page' = [page EXCEPT !.pc = "shown", !.verdict = Verdict]

(* The next check starts from an empty result.                             *)
Clear == page.pc = "shown" /\ page' = Blank

PageStep ==
  /\ \/ \E r, c \in Rows, userTx \in Txs \cup {NoTx} : FetchDigest(r, c, userTx)
     \/ FetchBatch
     \/ FetchTx
     \/ Clear
  /\ UNCHANGED vars

PageNext == (Next /\ UNCHANGED page) \/ PageStep

PageSpec == PageInit /\ [][PageNext]_pageVars

-----------------------------------------------------------------------------
PageTypeOK ==
  /\ TypeOK
  /\ page \in [pc : {"blank", "batch", "tx", "shown"},
               row : Rows \cup {NoRow}, pasted : Rows \cup {NoRow},
               batch : BatchIds \cup {NoBatch}, tx : Txs \cup {NoTx},
               recomputed : Hashes,
               verdict : {"none", "error", "PASS", "FAIL"}]

(***************************************************************************)
(* PASS proves what the page says it does: the pasted ciphertext is one of *)
(* those that the queried transaction put on chain, although the page does *)
(* not look for the message among the digests of the batch.                *)
(***************************************************************************)
PassIsSound ==
  page.verdict = "PASS" =>
    /\ page.tx \in mined
    /\ page.pasted = page.row
    /\ page.pasted \in txHash[page.tx].members

(***************************************************************************)
(* A caller can recompute the hash of a batch and verify it on chain: with *)
(* the message's own ciphertext and the transaction of its record, the     *)
(* page never shows FAIL.                                                  *)
(***************************************************************************)
NoFalseAlarm ==
  (* the record's own transaction, and not one of the user's choosing *)
  LET ownTx == \E rec \in RecordsOf(page.batch) : rec.tx_hash = page.tx
  IN  page.verdict = "FAIL" /\ ownTx => ~DigestMatch
=============================================================================
