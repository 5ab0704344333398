------------------------- MODULE DigestServiceProofs -------------------------
(***************************************************************************)
(* What is proved of the pipeline for every set of rows, timestamps,       *)
(* transactions and batch ids and every bound on retries and failures:     *)
(* its types, StampedIsAnchored and the refinement of Anchoring whatever   *)
(* runs concurrently, VerificationPasses when one flush runs at a time and *)
(* no two rows share a timestamp.  Then the page that reads what the       *)
(* service writes: what PASS proves, when FAIL is true, and what the only  *)
(* cause of a false one is.                                                *)
(***************************************************************************)
EXTENDS VerificationPage, AnchoringRefinement, TLAPS

(* What is known of a batch hash once it was computed.                     *)
WellFormedBy(key, hash) ==
  /\ hash.members # {}
  /\ hash.members \subseteq { r \in Rows : key[r] # 0 }
  /\ hash.order \in OrdersBy(key, hash.members)
WellFormed(hash) == WellFormedBy(queued_at, hash)

(* How far a flusher has got determines what is already durable for it.    *)
FlusherOK(f) ==
  /\ flush[f].pc # "idle" => WellFormed(flush[f].hash)
  /\ flush[f].pc \in {"wait", "insert", "stamp"} =>
        /\ flush[f].tx \in Txs
        /\ txHash[flush[f].tx] = flush[f].hash
  /\ flush[f].pc \in {"insert", "stamp"} => flush[f].tx \in mined
  /\ flush[f].pc = "stamp" =>
        [batch_id |-> flush[f].batch, batch_hash |-> flush[f].hash,
         tx_hash |-> flush[f].tx] \in records

FlusherInv == \A f \in Flushers : FlusherOK(f)

(* A record describes the mined transaction it names, and no other record  *)
(* has its id.                                                             *)
RecordInv ==
  /\ \A t \in mined : txHash[t] # EmptyHash
  /\ \A rec \in records :
       /\ rec.tx_hash \in mined
       /\ rec.batch_hash = txHash[rec.tx_hash]
       /\ WellFormed(rec.batch_hash)
  /\ \A rec1, rec2 \in records : rec1.batch_id = rec2.batch_id => rec1 = rec2

AnchorInv == TypeOK /\ FlusherInv /\ RecordInv /\ StampedIsAnchored

(* No two rows are queued at the same time.                                *)
NoTies ==
  \A x, y \in Queued : queued_at[x] = queued_at[y] => x = y

(* A batch that still has a row has all the rows its hash covers.          *)
BatchesWhole ==
  \A rec \in records :
    Members(rec.batch_id) = {} \/ Members(rec.batch_id) = rec.batch_hash.members

(* The rows a flush in progress has selected share one batch, or none: an  *)
(* earlier attempt whose answer was lost stamped them all.                 *)
SelectionWhole ==
  \A f \in Flushers : \A r \in flush[f].hash.members :
    \/ Members(batch_id[r]) = flush[f].hash.members
    \/ /\ batch_id[r] = NoBatch
       /\ \A s \in flush[f].hash.members : batch_id[s] = NoBatch

WholeInv == AnchorInv /\ NoTies /\ BatchesWhole /\ SelectionWhole

-----------------------------------------------------------------------------
USE TimesAssumption, BoundsAssumption, NoneAssumption, TiesAssumption

LEMMA EmptyHashType == EmptyHash \in Hashes
  BY DEF EmptyHash, BatchHash, Hashes

LEMMA IdleType == Idle \in FlusherState
  BY EmptyHashType DEF Idle, FlusherState

(* The fresh transaction of Broadcast is one.                              *)
LEMMA FreshTx ==
  ASSUME TypeOK, UnusedTxs # {}
  PROVE  NextTx \in Txs /\ txHash[NextTx] = EmptyHash
  BY DEF UnusedTxs, NextTx

(* The fresh id of RecordBatch is in no record.                            *)
LEMMA FreshBatchId ==
  ASSUME UnusedBatchIds # {}
  PROVE  NextBatchId \in BatchIds /\ \A rec \in records : rec.batch_id # NextBatchId
  BY DEF UnusedBatchIds, NextBatchId

(* A failed attempt leaves its flusher idle or about to submit again the   *)
(* rows it had selected, and touches no other flusher.                     *)
LEMMA AttemptFailsEffect ==
  ASSUME TypeOK, NEW f \in Flushers, AttemptFails(f)
  PROVE  /\ flush' \in [Flushers -> FlusherState]
         /\ \A g \in Flushers :
              \/ flush'[g] = flush[g]
              \/ flush'[g] = Idle
              \/ /\ g = f
                 /\ flush'[g].pc = "submit"
                 /\ flush'[g].hash = flush[g].hash
  <1>1. CASE f \in Daemons /\ flush[f].attempt < MaxAttempts
    <2> DEFINE next == [pc |-> "submit", hash |-> flush[f].hash,
                        attempt |-> flush[f].attempt + 1,
                        tx |-> NoTx, batch |-> NoBatch]
    <2>1. flush' = [flush EXCEPT ![f] = next]
      BY <1>1 DEF AttemptFails
    <2>2. next \in FlusherState
      BY <1>1 DEF TypeOK, FlusherState
    <2>3. next.pc = "submit" /\ next.hash = flush[f].hash
      OBVIOUS
    <2> HIDE DEF next
    <2> QED
      BY <2>1, <2>2, <2>3 DEF TypeOK
  <1>2. CASE ~(f \in Daemons /\ flush[f].attempt < MaxAttempts)
    <2>1. flush' = [flush EXCEPT ![f] = Idle]
      BY <1>2 DEF AttemptFails
    <2> QED
      BY <2>1, IdleType DEF TypeOK
  <1> QED
    BY <1>1, <1>2

(* Ending the index.js process.                                            *)
LEMMA DaemonsStoppedEffect ==
  ASSUME TypeOK, flush' = DaemonsStopped
  PROVE  /\ flush' \in [Flushers -> FlusherState]
         /\ \A g \in Flushers : flush'[g] = flush[g] \/ flush'[g] = Idle
  BY IdleType DEF TypeOK, DaemonsStopped

(* The count of failures stays within its bound.                           *)
LEMMA FaultType ==
  ASSUME TypeOK, NEW kind, Fault(kind)
  PROVE  faults' \in 0 .. MaxFaults
  BY DEF TypeOK, Fault

(* The new record is one.                                                  *)
LEMMA RecordType ==
  ASSUME TypeOK, FlusherInv, NEW f \in Flushers, flush[f].pc = "insert", RecordBatch(f)
  PROVE  records' \in SUBSET [batch_id : BatchIds, batch_hash : Hashes, tx_hash : Txs]
  <1>1. flush[f].tx \in Txs /\ flush[f].hash \in Hashes
    BY DEF FlusherInv, FlusherOK, TypeOK, FlusherState
  <1>2. NextBatchId \in BatchIds
    BY FreshBatchId DEF RecordBatch
  <1> QED
    BY <1>1, <1>2 DEF RecordBatch, TypeOK

-----------------------------------------------------------------------------
(* Type correctness.                                                       *)
LEMMA TypeInit == Init => TypeOK
  BY EmptyHashType, IdleType DEF Init, TypeOK, Flushers

LEMMA TypeStep == TypeOK /\ FlusherInv /\ [Next]_vars => TypeOK'
  <1> SUFFICES ASSUME TypeOK, FlusherInv, [Next]_vars PROVE TypeOK'
    OBVIOUS
  <1>1. ASSUME NEW r \in Rows, NEW t \in Times, Enqueue(r, t) PROVE TypeOK'
    BY <1>1 DEF TypeOK, Enqueue
  <1>2. ASSUME NEW f \in Flushers, SelectUnbatched(f) PROVE TypeOK'
    <2>1. PICK order \in FlushOrders(Unbatched) :
            flush' = [flush EXCEPT ![f] =
                        [pc |-> "submit", hash |-> BatchHash(Unbatched, order),
                         attempt |-> 1, tx |-> NoTx, batch |-> NoBatch]]
      BY <1>2 DEF SelectUnbatched
    <2>2. BatchHash(Unbatched, order) \in Hashes
      <3>1. Unbatched \subseteq Rows
        BY DEF Unbatched, Queued
      <3>2. order \subseteq Unbatched \X Unbatched
        BY DEF FlushOrders, OrdersBy
      <3> QED
        BY <3>1, <3>2 DEF BatchHash, Hashes
    <2> QED
      BY <1>2, <2>1, <2>2 DEF SelectUnbatched, TypeOK, FlusherState
  <1>3. ASSUME NEW f \in Flushers, SelectFails(f) PROVE TypeOK'
    <2>1. flush' \in [Flushers -> FlusherState] /\ faults' \in 0 .. MaxFaults
      BY <1>3, DaemonsStoppedEffect, FaultType DEF SelectFails
    <2> QED
      BY <1>3, <2>1 DEF SelectFails, TypeOK
  <1>4. ASSUME NEW f \in Flushers, Submit(f) PROVE TypeOK'
    <2>1. NextTx \in Txs /\ flush[f].hash \in Hashes
      BY <1>4, FreshTx DEF Submit, Broadcast, TypeOK, FlusherState
    <2> QED
      BY <1>4, <2>1 DEF Submit, Broadcast, TypeOK, FlusherState
  <1>5. ASSUME NEW f \in Flushers, SubmitFails(f) PROVE TypeOK'
    <2>1. txHash' \in [Txs -> Hashes]
      <3>1. CASE Broadcast(flush[f].hash)
        <4>1. flush[f].hash \in Hashes
          BY DEF TypeOK, FlusherState
        <4> QED
          BY <3>1, <4>1 DEF Broadcast, TypeOK
      <3>2. CASE UNCHANGED txHash
        BY <3>2 DEF TypeOK
      <3> QED
        BY <1>5, <3>1, <3>2 DEF SubmitFails
    <2>2. flush' \in [Flushers -> FlusherState] /\ faults' \in 0 .. MaxFaults
      BY <1>5, AttemptFailsEffect, FaultType DEF SubmitFails
    <2> QED
      BY <1>5, <2>1, <2>2 DEF SubmitFails, TypeOK
  <1>6. ASSUME NEW f \in Flushers, Confirm(f) PROVE TypeOK'
    BY <1>6 DEF Confirm, TypeOK, FlusherState
  <1>7. ASSUME NEW f \in Flushers, WaitFails(f) PROVE TypeOK'
    <2>1. flush' \in [Flushers -> FlusherState] /\ faults' \in 0 .. MaxFaults
      BY <1>7, AttemptFailsEffect, FaultType DEF WaitFails
    <2> QED
      BY <1>7, <2>1 DEF WaitFails, TypeOK
  <1>8. ASSUME NEW f \in Flushers, InsertRecord(f) PROVE TypeOK'
    <2>1. records' \in SUBSET [batch_id : BatchIds, batch_hash : Hashes, tx_hash : Txs]
      BY <1>8, RecordType DEF InsertRecord
    <2>2. flush' \in [Flushers -> FlusherState]
      <3>1. NextBatchId \in BatchIds
        BY <1>8, FreshBatchId DEF InsertRecord, RecordBatch
      <3> QED
        BY <1>8, <3>1 DEF InsertRecord, TypeOK, FlusherState, Flushers
    <2> QED
      BY <1>8, <2>1, <2>2 DEF InsertRecord, TypeOK
  <1>9. ASSUME NEW f \in Flushers, InsertFails(f) PROVE TypeOK'
    <2>1. records' \in SUBSET [batch_id : BatchIds, batch_hash : Hashes, tx_hash : Txs]
      BY <1>9, RecordType DEF InsertFails, TypeOK
    <2>2. flush' \in [Flushers -> FlusherState] /\ faults' \in 0 .. MaxFaults
      BY <1>9, AttemptFailsEffect, FaultType DEF InsertFails
    <2> QED
      BY <1>9, <2>1, <2>2 DEF InsertFails, TypeOK
  <1>10. ASSUME NEW f \in Flushers, Stamp(f) PROVE TypeOK'
    BY <1>10, IdleType DEF Stamp, StampRows, TypeOK, FlusherState
  <1>11. ASSUME NEW f \in Flushers, StampFails(f) PROVE TypeOK'
    <2>1. batch_id' \in [Rows -> BatchIds \cup {NoBatch}]
      BY <1>11 DEF StampFails, StampRows, TypeOK, FlusherState
    <2>2. flush' \in [Flushers -> FlusherState] /\ faults' \in 0 .. MaxFaults
      BY <1>11, AttemptFailsEffect, FaultType DEF StampFails
    <2> QED
      BY <1>11, <2>1, <2>2 DEF StampFails, TypeOK
  <1>12. ASSUME NEW f \in Flushers, CrashScript(f) PROVE TypeOK'
    BY <1>12, IdleType DEF CrashScript, Fault, TypeOK
  <1>13. ASSUME NEW t \in Txs, Mine(t) PROVE TypeOK'
    BY <1>13 DEF Mine, TypeOK
  <1>14. CASE CrashDaemon
    <2>1. flush' \in [Flushers -> FlusherState] /\ faults' \in 0 .. MaxFaults
      BY <1>14, DaemonsStoppedEffect, FaultType DEF CrashDaemon
    <2> QED
      BY <1>14, <2>1 DEF CrashDaemon, TypeOK
  <1>15. CASE Restart
    BY <1>15 DEF Restart, TypeOK
  <1>16. CASE UNCHANGED vars
    BY <1>16 DEF vars, TypeOK
  <1> QED
    BY <1>1, <1>2, <1>3, <1>4, <1>5, <1>6, <1>7, <1>8, <1>9, <1>10, <1>11,
       <1>12, <1>13, <1>14, <1>15, <1>16 DEF Next, FlusherStep

-----------------------------------------------------------------------------
(* What later steps build on is never taken back: timestamps, broadcast    *)
(* and mined transactions, and records only accumulate.                    *)
NothingLost ==
  /\ \A r \in Rows : queued_at[r] # 0 => queued_at'[r] = queued_at[r]
  /\ \A t \in Txs : txHash[t] # EmptyHash => txHash'[t] = txHash[t]
  /\ mined \subseteq mined'
  /\ records \subseteq records'

LEMMA NothingLostStep == TypeOK /\ [Next]_vars => NothingLost
  <1> SUFFICES ASSUME TypeOK, [Next]_vars PROVE NothingLost
    OBVIOUS
  <1> USE DEF NothingLost
  <1>1. ASSUME NEW r \in Rows, NEW t \in Times, Enqueue(r, t) PROVE NothingLost
    BY <1>1 DEF TypeOK, Enqueue
  <1>2. ASSUME NEW hash, Broadcast(hash)
        PROVE  \A t \in Txs : txHash[t] # EmptyHash => txHash'[t] = txHash[t]
    BY <1>2, FreshTx DEF Broadcast, TypeOK
  <1>3. ASSUME NEW f \in Flushers, FlusherStep(f) PROVE NothingLost
    <2>1. CASE Submit(f)
      BY <2>1, <1>2 DEF Submit
    <2>2. CASE SubmitFails(f)
      BY <2>2, <1>2 DEF SubmitFails
    <2>3. CASE InsertRecord(f) \/ InsertFails(f)
      BY <2>3 DEF InsertRecord, InsertFails, RecordBatch
    <2> QED
      BY <1>3, <2>1, <2>2, <2>3 DEF FlusherStep, SelectUnbatched, SelectFails,
         Confirm, WaitFails, Stamp, StampFails, CrashScript
  <1>4. ASSUME NEW t \in Txs, Mine(t) PROVE NothingLost
    BY <1>4 DEF Mine
  <1> QED
    BY <1>1, <1>3, <1>4 DEF Next, CrashDaemon, Restart, vars

(* The order of a batch depends on the timestamps of its own rows only.    *)
LEMMA WellFormedStable ==
  ASSUME NEW key1, NEW key2, NEW hash,
         \A r \in Rows : key1[r] # 0 => key2[r] = key1[r],
         WellFormedBy(key1, hash)
  PROVE  WellFormedBy(key2, hash)
  <1>1. \A r \in hash.members : r \in Rows /\ key2[r] = key1[r] /\ key1[r] # 0
    BY DEF WellFormedBy
  <1>2. OrdersBy(key2, hash.members) = OrdersBy(key1, hash.members)
    BY <1>1 DEF OrdersBy
  <1> QED
    BY <1>1, <1>2 DEF WellFormedBy

LEMMA WellFormedNotEmpty ==
  ASSUME NEW key, NEW hash, WellFormedBy(key, hash)
  PROVE  hash # EmptyHash
  BY DEF WellFormedBy, EmptyHash, BatchHash

(* A flusher that stays put, stops or starts its next attempt keeps its    *)
(* part of the invariant.                                                  *)
LEMMA FlusherFrame ==
  ASSUME TypeOK, FlusherInv, NothingLost, NEW g \in Flushers,
         \/ flush'[g] = flush[g]
         \/ flush'[g] = Idle
         \/ /\ flush[g].pc # "idle"
            /\ flush'[g].pc = "submit"
            /\ flush'[g].hash = flush[g].hash
  PROVE  FlusherOK(g)'
  <1>1. FlusherOK(g)
    BY DEF FlusherInv
  <1>2. ASSUME flush[g].pc # "idle"
        PROVE  /\ WellFormedBy(queued_at', flush[g].hash)
               /\ flush[g].hash # EmptyHash
    <2>1. WellFormedBy(queued_at, flush[g].hash)
      BY <1>1, <1>2 DEF FlusherOK, WellFormed
    <2> QED
      BY <2>1, WellFormedStable, WellFormedNotEmpty DEF NothingLost
  <1>3. CASE flush'[g] = flush[g]
    <2>1. flush[g].pc # "idle" => WellFormed(flush[g].hash)'
      BY <1>2, <1>3 DEF WellFormed
    <2>2. flush[g].pc \in {"wait", "insert", "stamp"} =>
            txHash'[flush[g].tx] = flush[g].hash
      BY <1>1, <1>2 DEF FlusherOK, NothingLost
    <2> QED
      BY <1>1, <1>3, <2>1, <2>2 DEF FlusherOK, NothingLost
  <1>4. CASE flush'[g] = Idle
    BY <1>4 DEF FlusherOK, Idle
  <1>5. CASE /\ flush[g].pc # "idle"
             /\ flush'[g].pc = "submit"
             /\ flush'[g].hash = flush[g].hash
    BY <1>2, <1>5 DEF FlusherOK, WellFormed
  <1> QED
    BY <1>3, <1>4, <1>5

LEMMA FlusherStepInv ==
  ASSUME TypeOK, FlusherInv, RecordInv, [Next]_vars
  PROVE  FlusherInv'
  <1> USE NothingLostStep
  <1> SUFFICES ASSUME NEW g \in Flushers PROVE FlusherOK(g)'
    BY DEF FlusherInv
  <1>1. CASE UNCHANGED flush
    BY <1>1, FlusherFrame
  <1>2. CASE flush' = DaemonsStopped
    BY <1>2, DaemonsStoppedEffect, FlusherFrame
  <1>3. ASSUME NEW f \in Flushers, flush[f].pc # "idle", AttemptFails(f)
        PROVE  FlusherOK(g)'
    BY <1>3, AttemptFailsEffect, FlusherFrame
  <1>4. ASSUME NEW f \in Flushers, SelectUnbatched(f)
        PROVE  FlusherOK(g)'
    <2>1. PICK order \in FlushOrders(Unbatched) :
            flush' = [flush EXCEPT ![f] =
                        [pc |-> "submit", hash |-> BatchHash(Unbatched, order),
                         attempt |-> 1, tx |-> NoTx, batch |-> NoBatch]]
      BY <1>4 DEF SelectUnbatched
    <2>2. CASE g = f
      <3>1. WellFormedBy(queued_at, BatchHash(Unbatched, order))
        BY <1>4 DEF SelectUnbatched, WellFormedBy, BatchHash, FlushOrders,
           Unbatched, Queued
      <3>2. queued_at' = queued_at
        BY <1>4 DEF SelectUnbatched
      <3>3. flush'[g].pc = "submit" /\ flush'[g].hash = BatchHash(Unbatched, order)
        BY <2>1, <2>2 DEF TypeOK
      <3> QED
        BY <3>1, <3>2, <3>3 DEF FlusherOK, WellFormed
    <2>3. CASE g # f
      BY <2>1, <2>3, FlusherFrame DEF TypeOK
    <2> QED
      BY <2>2, <2>3
  <1>5. ASSUME NEW f \in Flushers, Submit(f)
        PROVE  FlusherOK(g)'
    <2>1. NextTx \in Txs /\ txHash' = [txHash EXCEPT ![NextTx] = flush[f].hash]
      BY <1>5, FreshTx DEF Submit, Broadcast
    <2>2. CASE g = f
      <3>1. /\ flush'[g].pc = "wait"
            /\ flush'[g].tx = NextTx
            /\ flush'[g].hash = flush[g].hash
        BY <1>5, <2>2 DEF Submit, TypeOK, FlusherState
      <3>2. WellFormedBy(queued_at', flush[g].hash)
        BY <1>5, <2>2 DEF Submit, FlusherInv, FlusherOK, WellFormed
      <3>3. txHash'[NextTx] = flush[g].hash
        BY <2>1, <2>2 DEF TypeOK
      <3> QED
        BY <2>1, <3>1, <3>2, <3>3 DEF FlusherOK, WellFormed
    <2>3. CASE g # f
      BY <1>5, <2>3, FlusherFrame DEF Submit, TypeOK
    <2> QED
      BY <2>2, <2>3
  <1>6. ASSUME NEW f \in Flushers, Confirm(f)
        PROVE  FlusherOK(g)'
    <2>1. CASE g = f
      <3>1. /\ flush'[g].pc = "insert"
            /\ flush'[g].tx = flush[g].tx
            /\ flush'[g].hash = flush[g].hash
        BY <1>6, <2>1 DEF Confirm, TypeOK, FlusherState
      <3>2. /\ WellFormedBy(queued_at', flush[g].hash)
            /\ flush[g].tx \in Txs /\ txHash'[flush[g].tx] = flush[g].hash
            /\ flush[g].tx \in mined'
        BY <1>6, <2>1 DEF Confirm, FlusherInv, FlusherOK, WellFormed
      <3> QED
        BY <1>6, <2>1, <3>1, <3>2 DEF Confirm, FlusherOK, WellFormed
    <2>2. CASE g # f
      BY <1>6, <2>2, FlusherFrame DEF Confirm, TypeOK
    <2> QED
      BY <2>1, <2>2
  <1>7. ASSUME NEW f \in Flushers, InsertRecord(f)
        PROVE  FlusherOK(g)'
    <2>1. CASE g = f
      <3>1. /\ flush'[g].pc = "stamp"
            /\ flush'[g].tx = flush[g].tx
            /\ flush'[g].hash = flush[g].hash
            /\ flush'[g].batch = NextBatchId
        BY <1>7, <2>1 DEF InsertRecord, TypeOK, FlusherState
      <3>2. [batch_id |-> NextBatchId, batch_hash |-> flush[g].hash,
             tx_hash |-> flush[g].tx] \in records'
        BY <1>7, <2>1 DEF InsertRecord, RecordBatch
      <3>3. /\ WellFormedBy(queued_at', flush[g].hash)
            /\ flush[g].tx \in Txs /\ txHash'[flush[g].tx] = flush[g].hash
            /\ flush[g].tx \in mined'
        BY <1>7, <2>1 DEF InsertRecord, FlusherInv, FlusherOK, WellFormed
      <3> QED
        BY <3>1, <3>2, <3>3 DEF FlusherOK, WellFormed
    <2>2. CASE g # f
      BY <1>7, <2>2, FlusherFrame DEF InsertRecord, TypeOK
    <2> QED
      BY <2>1, <2>2
  <1>8. ASSUME NEW f \in Flushers, flush' = [flush EXCEPT ![f] = Idle]
        PROVE  FlusherOK(g)'
    BY <1>8, FlusherFrame DEF TypeOK
  <1>9. ASSUME NEW f \in Flushers, FlusherStep(f)
        PROVE  FlusherOK(g)'
    BY <1>2, <1>3, <1>4, <1>5, <1>6, <1>7, <1>8, <1>9
    DEF FlusherStep, SelectFails, SubmitFails, WaitFails, InsertFails, Stamp,
        StampFails, CrashScript
  <1> QED
    BY <1>1, <1>2, <1>9 DEF Next, Enqueue, Mine, CrashDaemon, Restart, vars

LEMMA RecordStepInv ==
  ASSUME TypeOK, FlusherInv, RecordInv, [Next]_vars
  PROVE  RecordInv'
  <1> NothingLost
    BY NothingLostStep
  <1>1. ASSUME NEW t \in mined' PROVE txHash'[t] # EmptyHash
    <2>1. t \in Txs /\ txHash[t] # EmptyHash
      BY <1>1 DEF RecordInv, TypeOK, Next, vars, Enqueue, FlusherStep, Mine,
         CrashDaemon, Restart, SelectUnbatched, SelectFails, Submit, SubmitFails,
         Confirm, WaitFails, InsertRecord, InsertFails, Stamp, StampFails,
         CrashScript
    <2> QED
      BY <2>1 DEF NothingLost
  <1>2. ASSUME NEW rec \in records
        PROVE  /\ rec.tx_hash \in mined'
               /\ rec.batch_hash = txHash'[rec.tx_hash]
               /\ WellFormedBy(queued_at', rec.batch_hash)
    <2>1. WellFormedBy(queued_at, rec.batch_hash)
      BY DEF RecordInv, WellFormed
    <2>2. WellFormedBy(queued_at', rec.batch_hash) /\ rec.batch_hash # EmptyHash
      BY <2>1, WellFormedStable, WellFormedNotEmpty DEF NothingLost
    <2> QED
      BY <2>2 DEF RecordInv, NothingLost, TypeOK
  <1>3. CASE UNCHANGED records
    BY <1>1, <1>2, <1>3 DEF RecordInv, WellFormed
  <1>4. ASSUME NEW f \in Flushers, flush[f].pc = "insert", RecordBatch(f),
               UNCHANGED <<queued_at, txHash, mined>>
        PROVE  RecordInv'
    <2> DEFINE new == [batch_id |-> NextBatchId, batch_hash |-> flush[f].hash,
                       tx_hash |-> flush[f].tx]
    <2>1. records' = records \cup {new}
      BY <1>4 DEF RecordBatch
    <2>2. /\ new.tx_hash \in mined'
          /\ new.batch_hash = txHash'[new.tx_hash]
          /\ WellFormedBy(queued_at', new.batch_hash)
      BY <1>4 DEF FlusherInv, FlusherOK, WellFormed
    <2>3. \A rec \in records : rec.batch_id # new.batch_id
      BY <1>4, FreshBatchId DEF RecordBatch
    <2> HIDE DEF new
    <2>4. \A rec \in records' : /\ rec.tx_hash \in mined'
                                /\ rec.batch_hash = txHash'[rec.tx_hash]
                                /\ WellFormedBy(queued_at', rec.batch_hash)
      BY <1>2, <2>1, <2>2
    <2>5. \A rec1, rec2 \in records' : rec1.batch_id = rec2.batch_id => rec1 = rec2
      BY <2>1, <2>3 DEF RecordInv
    <2> QED
      BY <1>1, <2>4, <2>5 DEF RecordInv, WellFormed
  <1> QED
    BY <1>3, <1>4 DEF Next, vars, Enqueue, FlusherStep, Mine, CrashDaemon, Restart,
       SelectUnbatched, SelectFails, Submit, SubmitFails, Confirm, WaitFails,
       InsertRecord, InsertFails, Stamp, StampFails, CrashScript

LEMMA StampedStepInv ==
  ASSUME TypeOK, FlusherInv, RecordInv, StampedIsAnchored, [Next]_vars
  PROVE  StampedIsAnchored'
  <1> NothingLost /\ RecordInv'
    BY NothingLostStep, RecordStepInv
  <1> SUFFICES ASSUME NEW r \in Rows, batch_id'[r] # NoBatch
               PROVE  \E rec \in records' : /\ rec.batch_id = batch_id'[r]
                                            /\ r \in rec.batch_hash.members
    BY DEF StampedIsAnchored, RecordInv
  <1>1. CASE batch_id'[r] = batch_id[r]
    BY <1>1 DEF StampedIsAnchored, NothingLost
  <1>2. ASSUME NEW f \in Flushers, flush[f].pc = "stamp", StampRows(f)
        PROVE  \E rec \in records' : /\ rec.batch_id = batch_id'[r]
                                     /\ r \in rec.batch_hash.members
    <2>1. [batch_id |-> flush[f].batch, batch_hash |-> flush[f].hash,
           tx_hash |-> flush[f].tx] \in records'
      BY <1>2 DEF FlusherInv, FlusherOK, NothingLost
    <2>2. CASE r \in flush[f].hash.members
      BY <1>2, <2>1, <2>2 DEF StampRows
    <2>3. CASE r \notin flush[f].hash.members
      BY <1>1, <1>2, <2>3 DEF StampRows
    <2> QED
      BY <2>2, <2>3
  <1> QED
    BY <1>1, <1>2 DEF Next, vars, Enqueue, FlusherStep, Mine, CrashDaemon, Restart,
       SelectUnbatched, SelectFails, Submit, SubmitFails, Confirm, WaitFails,
       InsertRecord, InsertFails, Stamp, StampFails, CrashScript

LEMMA AnchorInit == Init => AnchorInv
  BY TypeInit DEF AnchorInv, Init, FlusherInv, FlusherOK, RecordInv,
     StampedIsAnchored, Idle

LEMMA AnchorStep == AnchorInv /\ [Next]_vars => AnchorInv'
  BY TypeStep, FlusherStepInv, RecordStepInv, StampedStepInv DEF AnchorInv

(* The variables of the pipeline always have their types.                  *)
THEOREM TypeCorrectness == Spec => []TypeOK
  BY AnchorInit, AnchorStep, PTL DEF Spec, AnchorInv

(* Whatever overlaps, fails or crashes, a stamped row leads to a mined     *)
(* transaction whose hash covers it: the record is written before the rows *)
(* are stamped, after the transaction is confirmed.                        *)
THEOREM StampsAreAnchored == Spec => []StampedIsAnchored
  BY AnchorInit, AnchorStep, PTL DEF Spec, AnchorInv

-----------------------------------------------------------------------------
(* DigestService implements Anchoring.  What is sent to the chain is a     *)
(* batch of queued rows before it is mined, too.                           *)
HashesInv == \A t \in Txs : txHash[t] # EmptyHash => WellFormed(txHash[t])

LEMMA HashesStep ==
  ASSUME TypeOK, FlusherInv, HashesInv, [Next]_vars
  PROVE  HashesInv'
  <1> NothingLost
    BY NothingLostStep
  <1>1. ASSUME NEW t \in Txs, txHash[t] # EmptyHash
        PROVE  txHash'[t] = txHash[t] /\ WellFormedBy(queued_at', txHash[t])
    BY <1>1, WellFormedStable DEF HashesInv, WellFormed, NothingLost
  <1>2. CASE UNCHANGED txHash
    BY <1>1, <1>2 DEF HashesInv, WellFormed
  <1>3. ASSUME NEW f \in Flushers, flush[f].pc = "submit", Broadcast(flush[f].hash)
        PROVE  HashesInv'
    <2>1. WellFormedBy(queued_at', flush[f].hash)
      <3>1. WellFormedBy(queued_at, flush[f].hash)
        BY <1>3 DEF FlusherInv, FlusherOK, WellFormed
      <3> QED
        BY <3>1, WellFormedStable DEF NothingLost
    <2>2. \A t \in Txs : txHash'[t] \in {txHash[t], flush[f].hash}
      BY <1>3 DEF Broadcast, TypeOK
    <2> QED
      BY <1>1, <2>1, <2>2 DEF HashesInv, WellFormed
  <1> QED
    BY <1>2, <1>3 DEF Next, vars, Enqueue, FlusherStep, Mine, CrashDaemon, Restart,
       SelectUnbatched, SelectFails, Submit, SubmitFails, Confirm, WaitFails,
       InsertRecord, InsertFails, Stamp, StampFails, CrashScript

(* The only record with an id says what the rows stamped with it lead to.  *)
LEMMA OnlyRecord ==
  ASSUME NEW recs, NEW hashes, NEW blocks, NEW b, NEW rec \in recs,
         rec.batch_id = b, rec.tx_hash \in blocks,
         \A other \in recs : other.batch_id = b => other = rec
  PROVE  UNION { hashes[x.tx_hash].members :
                   x \in { y \in recs : y.batch_id = b /\ y.tx_hash \in blocks } }
           = hashes[rec.tx_hash].members
  <1>1. { y \in recs : y.batch_id = b /\ y.tx_hash \in blocks } = {rec}
    OBVIOUS
  <1> QED
    BY <1>1

LEMMA EvidenceOfRow ==
  ASSUME AnchorInv, NEW r \in Rows
  PROVE  /\ batch_id[r] = NoBatch => Evidence[r] = {}
         /\ batch_id[r] # NoBatch => r \in Evidence[r]
  <1>1. CASE batch_id[r] = NoBatch
    <2>1. RecordsAt(batch_id[r]) = {}
      BY <1>1 DEF RecordsAt, AnchorInv, TypeOK
    <2> QED
      BY <1>1, <2>1 DEF Evidence
  <1>2. CASE batch_id[r] # NoBatch
    <2>1. PICK rec \in RecordsAt(batch_id[r]) : r \in txHash[rec.tx_hash].members
      BY <1>2 DEF AnchorInv, StampedIsAnchored, RecordsAt
    <2> QED
      BY <1>2, <2>1 DEF Evidence
  <1> QED
    BY <1>1, <1>2

LEMMA ProvedRows ==
  ASSUME AnchorInv
  PROVE  A!Proved = { r \in Rows : batch_id[r] # NoBatch }
  BY EvidenceOfRow DEF A!Proved

(* Waiting or proved is queued.                                            *)
LEMMA QueuedRows ==
  ASSUME AnchorInv
  PROVE  Unbatched \cup A!Proved = Queued
  <1>1. ASSUME NEW r \in Rows, batch_id[r] # NoBatch
        PROVE  queued_at[r] # 0
    BY <1>1 DEF AnchorInv, StampedIsAnchored, RecordInv, WellFormed, WellFormedBy
  <1> QED
    BY <1>1, ProvedRows DEF Unbatched, Queued

(* What a stamp led to it leads to for ever.                               *)
LEMMA EvidenceStays ==
  ASSUME AnchorInv, AnchorInv', NothingLost, NEW r \in Rows, batch_id'[r] = batch_id[r]
  PROVE  Evidence'[r] = Evidence[r]
  <1>1. CASE batch_id[r] = NoBatch
    <2>1. RecordsAt(batch_id[r])' = {}
      BY <1>1 DEF RecordsAt, AnchorInv, TypeOK
    <2> QED
      BY <1>1, <2>1, EvidenceOfRow DEF Evidence
  <1>2. CASE batch_id[r] # NoBatch
    <2>1. PICK rec \in records : rec.batch_id = batch_id[r] /\ rec.tx_hash \in mined
      BY <1>2 DEF AnchorInv, StampedIsAnchored
    <2>2. rec \in records' /\ rec.tx_hash \in mined' /\ txHash'[rec.tx_hash] = txHash[rec.tx_hash]
      BY <2>1 DEF AnchorInv, RecordInv, TypeOK, NothingLost
    <2>3. Evidence[r] = txHash[rec.tx_hash].members
      <3>1. \A other \in records : other.batch_id = batch_id[r] => other = rec
        BY <2>1 DEF AnchorInv, RecordInv
      <3> QED
        BY <2>1, <3>1, OnlyRecord DEF Evidence, RecordsAt
    <2>4. Evidence'[r] = txHash'[rec.tx_hash].members
      <3>1. \A other \in records' : other.batch_id = batch_id'[r] => other = rec
        BY <2>1, <2>2 DEF AnchorInv, RecordInv
      <3> QED
        BY <2>1, <2>2, <3>1, OnlyRecord DEF Evidence, RecordsAt
    <2> QED
      BY <2>2, <2>3, <2>4
  <1> QED
    BY <1>1, <1>2

(* Stamping proves exactly the batch that the flusher has recorded.        *)
LEMMA StampProves ==
  ASSUME AnchorInv, AnchorInv', NothingLost, NEW f \in Flushers, flush[f].pc = "stamp",
         StampRows(f), UNCHANGED <<queued_at, records, txHash, mined>>
  PROVE  A!Prove(flush[f].hash.members)
  <1> DEFINE batch == flush[f].hash.members
  <1>1. PICK rec \in records : rec.batch_id = flush[f].batch /\ rec.tx_hash = flush[f].tx
    BY DEF AnchorInv, FlusherInv, FlusherOK
  <1>2. /\ rec.tx_hash \in mined /\ rec.batch_id # NoBatch
        /\ txHash[rec.tx_hash].members = batch /\ batch \subseteq Rows
    BY <1>1 DEF AnchorInv, FlusherInv, FlusherOK, TypeOK, WellFormed, WellFormedBy
  <1>3. \A r \in Rows : batch_id'[r] = IF r \in batch THEN rec.batch_id ELSE batch_id[r]
    BY <1>1 DEF StampRows
  <1>4. batch \in Chain /\ Chain' = Chain
    BY <1>2 DEF Chain
  <1>5. Unbatched' = Unbatched \ batch
    BY <1>2, <1>3 DEF Unbatched, Queued
  <1>6. ASSUME NEW r \in Rows, r \in batch
        PROVE  Evidence'[r] = batch
    <2>1. \A other \in records' : other.batch_id = batch_id'[r] => other = rec
      BY <1>1, <1>3, <1>6 DEF AnchorInv, RecordInv
    <2>2. Evidence'[r] = txHash'[rec.tx_hash].members
      BY <1>1, <1>2, <1>3, <1>6, <2>1, OnlyRecord DEF Evidence, RecordsAt
    <2> QED
      BY <1>2, <2>2
  <1>7. \A r \in Rows \ batch : Evidence'[r] = Evidence[r]
    BY <1>3, EvidenceStays
  <1>8. Evidence' = [r \in Rows |-> IF r \in batch THEN batch ELSE Evidence[r]]
    BY <1>6, <1>7 DEF Evidence
  <1> QED
    BY <1>4, <1>5, <1>8 DEF A!Prove

LEMMA AnchoringStep ==
  ASSUME AnchorInv, HashesInv, AnchorInv', [Next]_vars
  PROVE  [A!Next]_(A!anchorVars)
  <1> NothingLost
    BY NothingLostStep DEF AnchorInv
  <1>1. UNCHANGED batch_id => Evidence' = Evidence
    <2>1. UNCHANGED batch_id => \A r \in Rows : Evidence'[r] = Evidence[r]
      BY EvidenceStays
    <2> QED
      BY <2>1 DEF Evidence
  <1>2. UNCHANGED mined => Chain' = Chain
    <2>1. \A t \in mined : txHash'[t] = txHash[t]
      BY DEF AnchorInv, RecordInv, TypeOK, NothingLost
    <2> QED
      BY <2>1 DEF Chain
  <1>3. UNCHANGED <<queued_at, batch_id>> => Unbatched' = Unbatched
    BY DEF Unbatched, Queued
  <1>4. ASSUME UNCHANGED <<queued_at, batch_id, mined>>
        PROVE  UNCHANGED A!anchorVars
    BY <1>1, <1>2, <1>3, <1>4 DEF A!anchorVars
  <1>5. ASSUME NEW r \in Rows, NEW t \in Times, Enqueue(r, t)
        PROVE  A!HandIn(r)
    <2>1. r \notin Unbatched \cup A!Proved
      BY <1>5, QueuedRows DEF Enqueue, Queued
    <2>2. batch_id[r] = NoBatch
      BY <2>1, ProvedRows
    <2>3. Unbatched' = Unbatched \cup {r}
      BY <1>5, <2>2 DEF Enqueue, Unbatched, Queued, AnchorInv, TypeOK
    <2> QED
      BY <1>1, <1>2, <1>5, <2>1, <2>3 DEF A!HandIn, Enqueue
  <1>6. ASSUME NEW t \in Txs, Mine(t)
        PROVE  A!Anchor(txHash[t].members) /\ txHash[t].members \subseteq Rows
    <2>1. txHash[t].members # {} /\ txHash[t].members \subseteq Queued
      BY <1>6 DEF Mine, HashesInv, WellFormed, WellFormedBy, Queued
    <2>2. Chain' = Chain \cup {txHash[t].members}
      BY <1>6 DEF Mine, Chain
    <2> QED
      BY <1>1, <1>3, <1>6, <2>1, <2>2, QueuedRows DEF A!Anchor, Mine, Queued
  <1>7. ASSUME NEW f \in Flushers, flush[f].pc = "stamp", StampRows(f),
               UNCHANGED <<queued_at, records, txHash, mined>>
        PROVE  A!Next
    BY <1>7, StampProves DEF A!Next, A!Prove
  <1>8. ASSUME NEW f \in Flushers, FlusherStep(f)
        PROVE  [A!Next]_(A!anchorVars)
    <2>1. CASE Stamp(f) \/ StampFails(f)
      BY <1>4, <1>7, <2>1 DEF Stamp, StampFails
    <2> QED
      BY <1>4, <1>8, <2>1 DEF FlusherStep, SelectUnbatched, SelectFails, Submit, SubmitFails,
         Confirm, WaitFails, InsertRecord, InsertFails, CrashScript
  <1> QED
    BY <1>4, <1>5, <1>6, <1>8 DEF Next, CrashDaemon, Restart, vars, A!Next

(***************************************************************************)
(* However many flushes overlap, whatever fails and whenever a process is  *)
(* killed, each step of the tables and the chain hands in a row, anchors   *)
(* queued rows, proves all of an anchored batch at once, or is none of the *)
(* observer's business.                                                    *)
(***************************************************************************)
THEOREM PipelineImplementsAnchoring == Spec => ImplementsAnchoring
  <1>1. Init => A!Init
    <2> SUFFICES ASSUME Init PROVE A!Init
      OBVIOUS
    <2>1. Unbatched = {} /\ Chain = {}
      BY DEF Init, Unbatched, Queued, Chain
    <2>2. Evidence = [r \in Rows |-> {}]
      BY DEF Init, Evidence, RecordsAt
    <2> QED
      BY <2>1, <2>2 DEF A!Init
  <1>2. Init => HashesInv
    BY DEF Init, HashesInv
  <1>3. AnchorInv /\ HashesInv /\ [Next]_vars => HashesInv'
    BY HashesStep DEF AnchorInv
  <1>4. AnchorInv /\ HashesInv /\ AnchorInv' /\ [Next]_vars => [A!Next]_(A!anchorVars)
    BY AnchoringStep
  <1> QED
    BY <1>1, <1>2, <1>3, <1>4, AnchorInit, AnchorStep, PTL DEF Spec, ImplementsAnchoring, A!Spec

-----------------------------------------------------------------------------
(* Rows with different timestamps can be ordered in one way only.          *)
LEMMA OneOrder ==
  ASSUME NEW key, NEW R,
         \A x \in R : key[x] \in Nat,
         \A x, y \in R : key[x] = key[y] => x = y,
         NEW o1 \in OrdersBy(key, R), NEW o2 \in OrdersBy(key, R)
  PROVE  o1 = o2
  <1>1. o1 \subseteq R \X R /\ o2 \subseteq R \X R
    BY DEF OrdersBy
  <1>2. ASSUME NEW x \in R, NEW y \in R, NEW o \in OrdersBy(key, R)
        PROVE  <<x, y>> \in o <=> key[x] < key[y]
    <2>1. CASE x = y
      BY <2>1, <1>2 DEF OrdersBy
    <2>2. CASE x # y
      <3>1. key[x] < key[y] \/ key[y] < key[x]
        BY <2>2
      <3>2. key[x] < key[y] => ~(key[y] < key[x])
        OBVIOUS
      <3> QED
        BY <3>1, <3>2 DEF OrdersBy
    <2> QED
      BY <2>1, <2>2
  <1>3. ASSUME NEW x \in R, NEW y \in R
        PROVE  <<x, y>> \in o1 <=> <<x, y>> \in o2
    BY <1>2
  <1> QED
    BY <1>1, <1>3

(* One flush at a time, and a clock that tells any two inserts apart.      *)
Sequential == (\A f, g \in Flushers : f = g) /\ ~TiesPossible

LEMMA NoTiesStep ==
  ASSUME TypeOK, NoTies, ~TiesPossible, [Next]_vars
  PROVE  NoTies'
  <1>1. ASSUME NEW r \in Rows, NEW t \in Times, Enqueue(r, t) PROVE NoTies'
    BY <1>1 DEF TypeOK, NoTies, Queued, Enqueue
  <1>2. CASE UNCHANGED queued_at
    BY <1>2 DEF NoTies, Queued
  <1> QED
    BY <1>1, <1>2 DEF Next, vars, FlusherStep, Mine, CrashDaemon, Restart,
       SelectUnbatched, SelectFails, Submit, SubmitFails, Confirm, WaitFails,
       InsertRecord, InsertFails, Stamp, StampFails, CrashScript

(* Stamping the selected rows leaves every batch whole or empty: a batch   *)
(* that loses a row to the new one loses all of its rows.                  *)
LEMMA StampKeepsWhole ==
  ASSUME WholeInv, NEW f \in Flushers, flush[f].pc = "stamp",
         StampRows(f), UNCHANGED records
  PROVE  /\ BatchesWhole'
         /\ { r \in Rows : batch_id'[r] = flush[f].batch } = flush[f].hash.members
  <1> DEFINE b == flush[f].batch
             M == flush[f].hash.members
             Now(c) == { r \in Rows : batch_id'[r] = c }
  <1>1. PICK rec \in records : rec.batch_id = b /\ rec.batch_hash.members = M
    BY DEF WholeInv, AnchorInv, FlusherInv, FlusherOK
  <1>2. M \subseteq Rows
    BY DEF WholeInv, AnchorInv, FlusherInv, FlusherOK, WellFormed, WellFormedBy
  <1>3. Members(b) = {} \/ Members(b) = M
    BY <1>1 DEF WholeInv, BatchesWhole
  <1>4. b # NoBatch
    BY <1>1 DEF WholeInv, AnchorInv, TypeOK
  <1>5. \A r \in Rows : batch_id'[r] = IF r \in M THEN b ELSE batch_id[r]
    BY DEF StampRows
  <1>6. Now(b) = M
    BY <1>2, <1>3, <1>5 DEF Members
  <1>7. ASSUME NEW old \in records, old.batch_id # b
        PROVE  Now(old.batch_id) = {} \/ Now(old.batch_id) = old.batch_hash.members
    <2>1. Members(old.batch_id) = {} \/ Members(old.batch_id) = old.batch_hash.members
      BY DEF WholeInv, BatchesWhole
    <2>2. old.batch_id # NoBatch
      BY DEF WholeInv, AnchorInv, TypeOK
    <2>3. CASE \E r \in M : batch_id[r] = old.batch_id
      <3>1. Members(old.batch_id) = M
        BY <2>2, <2>3 DEF WholeInv, SelectionWhole
      <3> QED
        BY <1>5, <1>7, <3>1 DEF Members
    <2>4. CASE ~ \E r \in M : batch_id[r] = old.batch_id
      <3>1. Now(old.batch_id) = Members(old.batch_id)
        BY <1>2, <1>5, <1>7, <2>4 DEF Members
      <3> QED
        BY <2>1, <3>1
    <2> QED
      BY <2>3, <2>4
  <1>8. ASSUME NEW old \in records, old.batch_id = b
        PROVE  old.batch_hash.members = M
    BY <1>1, <1>8 DEF WholeInv, AnchorInv, RecordInv
  <1>9. BatchesWhole'
    BY <1>6, <1>7, <1>8 DEF BatchesWhole, Members
  <1> QED
    BY <1>6, <1>9

LEMMA BatchesWholeStep ==
  ASSUME WholeInv, [Next]_vars
  PROVE  BatchesWhole'
  <1>1. CASE UNCHANGED <<batch_id, records>>
    BY <1>1 DEF WholeInv, BatchesWhole, Members
  <1>2. ASSUME NEW f \in Flushers, RecordBatch(f), UNCHANGED batch_id
        PROVE  BatchesWhole'
    <2>1. \A r \in Rows : batch_id[r] # NextBatchId
      <3>1. NextBatchId \in BatchIds /\ \A rec \in records : rec.batch_id # NextBatchId
        BY <1>2, FreshBatchId DEF RecordBatch
      <3> QED
        BY <3>1 DEF WholeInv, AnchorInv, StampedIsAnchored
    <2>2. \A rec \in records' : rec \in records \/ rec.batch_id = NextBatchId
      BY <1>2 DEF RecordBatch
    <2> QED
      BY <1>2, <2>1, <2>2 DEF WholeInv, BatchesWhole, Members
  <1>3. ASSUME NEW f \in Flushers, flush[f].pc = "stamp", StampRows(f),
               UNCHANGED records
        PROVE  BatchesWhole'
    BY <1>3, StampKeepsWhole
  <1> QED
    BY <1>1, <1>2, <1>3 DEF Next, vars, Enqueue, FlusherStep, Mine, CrashDaemon,
       Restart, SelectUnbatched, SelectFails, Submit, SubmitFails, Confirm,
       WaitFails, InsertRecord, InsertFails, Stamp, StampFails, CrashScript

(* What a flusher has selected, after a step that does not stamp.          *)
LEMMA SelectionFrame ==
  ASSUME WholeInv, NEW g \in Flushers, UNCHANGED batch_id,
         \/ flush'[g] = Idle
         \/ flush'[g].hash = flush[g].hash
  PROVE  \A r \in flush'[g].hash.members :
            \/ Members(batch_id[r])' = flush'[g].hash.members
            \/ /\ batch_id'[r] = NoBatch
               /\ \A s \in flush'[g].hash.members : batch_id'[s] = NoBatch
  <1>1. CASE flush'[g] = Idle
    BY <1>1 DEF Idle, EmptyHash, BatchHash
  <1>2. CASE flush'[g].hash = flush[g].hash
    BY <1>2 DEF WholeInv, SelectionWhole, Members
  <1> QED
    BY <1>1, <1>2

LEMMA SelectionWholeStep ==
  ASSUME WholeInv, Sequential, [Next]_vars
  PROVE  SelectionWhole'
  <1> TypeOK
    BY DEF WholeInv, AnchorInv
  <1> SUFFICES ASSUME NEW g \in Flushers
               PROVE  \A r \in flush'[g].hash.members :
                        \/ Members(batch_id[r])' = flush'[g].hash.members
                        \/ /\ batch_id'[r] = NoBatch
                           /\ \A s \in flush'[g].hash.members : batch_id'[s] = NoBatch
    BY DEF SelectionWhole
  <1> DEFINE Goal == \A r \in flush'[g].hash.members :
                        \/ Members(batch_id[r])' = flush'[g].hash.members
                        \/ /\ batch_id'[r] = NoBatch
                           /\ \A s \in flush'[g].hash.members : batch_id'[s] = NoBatch
  <1>1. ASSUME UNCHANGED <<flush, batch_id>> PROVE Goal
    BY <1>1, SelectionFrame
  <1>2. ASSUME flush' = DaemonsStopped, UNCHANGED batch_id PROVE Goal
    BY <1>2, DaemonsStoppedEffect, SelectionFrame
  <1>3. ASSUME NEW f \in Flushers, AttemptFails(f), UNCHANGED batch_id PROVE Goal
    <2>1. flush'[g] = flush[g] \/ flush'[g] = Idle \/ flush'[g].hash = flush[g].hash
      BY <1>3, AttemptFailsEffect
    <2> QED
      BY <1>3, <2>1, SelectionFrame
  <1>4. ASSUME NEW f \in Flushers, SelectUnbatched(f) PROVE Goal
    <2>1. g = f
      BY DEF Sequential
    <2>2. flush'[g].hash.members = Unbatched
      BY <1>4, <2>1 DEF SelectUnbatched, TypeOK, BatchHash
    <2> QED
      BY <1>4, <2>2 DEF SelectUnbatched, Unbatched
  <1>5. ASSUME NEW f \in Flushers, Submit(f) \/ Confirm(f) \/ InsertRecord(f)
        PROVE  Goal
    <2>1. flush'[g].hash = flush[g].hash /\ UNCHANGED batch_id
      BY <1>5 DEF Submit, Confirm, InsertRecord, TypeOK, FlusherState
    <2> QED
      BY <2>1, SelectionFrame
  <1>6. ASSUME NEW f \in Flushers, flush' = [flush EXCEPT ![f] = Idle]
        PROVE  Goal
    <2>1. flush'[g] = Idle
      BY <1>6 DEF Sequential, TypeOK
    <2> QED
      BY <2>1 DEF Idle, EmptyHash, BatchHash
  <1>7. ASSUME NEW f \in Flushers, StampFails(f) PROVE Goal
    <2>1. CASE UNCHANGED batch_id
      BY <1>3, <1>7, <2>1 DEF StampFails
    <2>2. CASE StampRows(f)
      <3>1. g = f
        BY DEF Sequential
      <3>2. flush'[g] = Idle \/ flush'[g].hash = flush[g].hash
        BY <1>7, AttemptFailsEffect DEF StampFails
      <3>3. CASE flush'[g] = Idle
        BY <3>3 DEF Idle, EmptyHash, BatchHash
      <3>4. CASE flush'[g].hash = flush[g].hash
        <4>1. { r \in Rows : batch_id'[r] = flush[g].batch } = flush[g].hash.members
          BY <1>7, <2>2, <3>1, StampKeepsWhole DEF StampFails
        <4>2. \A r \in flush[g].hash.members : batch_id'[r] = flush[g].batch
          BY <4>1
        <4> QED
          BY <3>4, <4>1, <4>2 DEF Members
      <3> QED
        BY <3>2, <3>3, <3>4
    <2> QED
      BY <1>7, <2>1, <2>2 DEF StampFails
  <1> HIDE DEF Goal
  <1>8. ASSUME NEW f \in Flushers, FlusherStep(f) PROVE Goal
    BY <1>2, <1>3, <1>4, <1>5, <1>6, <1>7, <1>8
    DEF FlusherStep, SelectFails, SubmitFails, WaitFails, InsertFails, Stamp,
        CrashScript
  <1>9. Goal
    BY <1>1, <1>2, <1>8 DEF Next, Enqueue, Mine, CrashDaemon, Restart, vars
  <1> QED
    BY <1>9 DEF Goal

LEMMA WholeInit == Init => WholeInv
  BY AnchorInit DEF WholeInv, Init, NoTies, Queued, BatchesWhole, SelectionWhole,
     Idle, EmptyHash, BatchHash

LEMMA WholeStep == Sequential /\ WholeInv /\ [Next]_vars => WholeInv'
  <1> SUFFICES ASSUME Sequential, WholeInv, [Next]_vars PROVE WholeInv'
    OBVIOUS
  <1> QED
    BY AnchorStep, NoTiesStep, BatchesWholeStep, SelectionWholeStep
    DEF WholeInv, AnchorInv, Sequential

(* A whole batch is recomputed exactly as it was hashed.                   *)
LEMMA WholeVerifies == WholeInv => VerificationPasses
  <1> SUFFICES ASSUME WholeInv, NEW r \in Rows, NEW rec \in records,
                      batch_id[r] # NoBatch, rec.batch_id = batch_id[r],
                      NEW order \in FlushOrders(Members(rec.batch_id))
               PROVE  BatchHash(Members(rec.batch_id), order) = txHash[rec.tx_hash]
    BY DEF VerificationPasses
  <1> DEFINE M == rec.batch_hash.members
  <1>1. Members(rec.batch_id) = M
    BY DEF WholeInv, BatchesWhole, Members
  <1>2. /\ rec.batch_hash \in Hashes
        /\ rec.batch_hash = txHash[rec.tx_hash]
        /\ M \subseteq Queued
        /\ rec.batch_hash.order \in OrdersBy(queued_at, M)
    BY DEF WholeInv, AnchorInv, TypeOK, RecordInv, WellFormed, WellFormedBy, Queued
  <1>3. \A x \in M : queued_at[x] \in Nat
    BY <1>2 DEF WholeInv, AnchorInv, TypeOK, Queued
  <1>4. \A x, y \in M : queued_at[x] = queued_at[y] => x = y
    BY <1>2 DEF WholeInv, NoTies
  <1>5. order = rec.batch_hash.order
    BY <1>1, <1>2, <1>3, <1>4, OneOrder DEF FlushOrders
  <1> QED
    BY <1>1, <1>2, <1>5 DEF BatchHash, Hashes

(* With one flush at a time and distinct timestamps, every stamped row     *)
(* passes the verification page, through retries, lost answers, crashes    *)
(* and restarts: a retry stamps the same rows again, all of them.          *)
THEOREM SequentialFlushesVerify == Sequential /\ Spec => []VerificationPasses
  <1>1. ASSUME Sequential PROVE Spec => []VerificationPasses
    <2>1. Init => WholeInv
      BY WholeInit
    <2>2. WholeInv /\ [Next]_vars => WholeInv'
      BY <1>1, WholeStep
    <2>3. WholeInv => VerificationPasses
      BY WholeVerifies
    <2> QED
      BY <2>1, <2>2, <2>3, PTL DEF Spec
  <1> QED
    BY <1>1

-----------------------------------------------------------------------------
(* What EveryDigestAnchored rests on besides fairness.  An invocation that *)
(* is under way has a bounded number of steps left, retries included.      *)
StepsOf(pc) ==
  CASE pc = "submit" -> 4 [] pc = "wait" -> 3 [] pc = "insert" -> 2
    [] pc = "stamp" -> 1 [] OTHER -> 0
StepsLeft(f) == 5 * (MaxAttempts - flush[f].attempt) + StepsOf(flush[f].pc)

FlushAdvances(f) ==
  \/ flush'[f] = flush[f]
  \/ flush[f].pc = "idle"
  \/ flush'[f] = Idle
  \/ StepsLeft(f)' < StepsLeft(f)

(* It ends with all its rows in a batch, or in one of the counted failures.*)
EndsStamped(f) ==
  flush[f].pc # "idle" /\ flush'[f].pc = "idle" =>
    \/ \A r \in flush[f].hash.members : batch_id'[r] # NoBatch
    \/ faults' = faults + 1

(* While it waits, the chain has what it waits for to mine.                *)
ChainHasIt(f) == flush[f].pc = "wait" => txHash[flush[f].tx] # EmptyHash

(* Where a failed attempt goes on.                                         *)
LEMMA AttemptFailsAdvances ==
  ASSUME TypeOK, NEW f \in Flushers, flush[f].pc # "idle", AttemptFails(f)
  PROVE  flush'[f] = Idle \/ StepsLeft(f)' < StepsLeft(f)
  <1>1. CASE f \in Daemons /\ flush[f].attempt < MaxAttempts
    <2> DEFINE next == [pc |-> "submit", hash |-> flush[f].hash,
                        attempt |-> flush[f].attempt + 1,
                        tx |-> NoTx, batch |-> NoBatch]
    <2>1. flush' = [flush EXCEPT ![f] = next]
      BY <1>1 DEF AttemptFails
    <2>2. next.pc = "submit" /\ next.attempt = flush[f].attempt + 1
      OBVIOUS
    <2> HIDE DEF next
    <2>3. flush'[f].pc = "submit" /\ flush'[f].attempt = flush[f].attempt + 1
      BY <2>1, <2>2 DEF TypeOK
    <2>4. /\ flush[f].attempt \in Nat
          /\ flush[f].pc \in {"submit", "wait", "insert", "stamp"}
      BY DEF TypeOK, FlusherState
    <2> QED
      BY <2>3, <2>4 DEF StepsLeft, StepsOf
  <1>2. CASE ~(f \in Daemons /\ flush[f].attempt < MaxAttempts)
    BY <1>2 DEF AttemptFails, TypeOK
  <1> QED
    BY <1>1, <1>2

(* A step of the invocation itself.                                        *)
LEMMA OwnFlushStep ==
  ASSUME AnchorInv, NEW f \in Flushers, flush[f].pc # "idle", FlusherStep(f)
  PROVE  FlushAdvances(f) /\ EndsStamped(f)
  <1> TypeOK
    BY DEF AnchorInv
  <1>1. /\ flush[f] \in FlusherState /\ flush[f].attempt \in Nat
        /\ flush[f].hash.members \subseteq Rows
    BY DEF TypeOK, FlusherState, Hashes
  <1>2. CASE Submit(f) \/ Confirm(f) \/ InsertRecord(f)
    <2>1. /\ flush'[f].attempt = flush[f].attempt
          /\ \/ flush[f].pc = "submit" /\ flush'[f].pc = "wait"
             \/ flush[f].pc = "wait" /\ flush'[f].pc = "insert"
             \/ flush[f].pc = "insert" /\ flush'[f].pc = "stamp"
      BY <1>1, <1>2 DEF Submit, Confirm, InsertRecord, TypeOK, FlusherState
    <2>2. StepsLeft(f)' < StepsLeft(f)
      BY <1>1, <2>1 DEF StepsLeft, StepsOf
    <2> QED
      BY <2>1, <2>2 DEF FlushAdvances, EndsStamped
  <1>3. CASE Stamp(f)
    <2>1. flush'[f] = Idle
      BY <1>3 DEF Stamp, TypeOK
    <2>2. flush[f].batch # NoBatch
      BY <1>3 DEF Stamp, AnchorInv, FlusherInv, FlusherOK, TypeOK
    <2>3. \A r \in flush[f].hash.members : batch_id'[r] = flush[f].batch
      BY <1>1, <1>3 DEF Stamp, StampRows
    <2> QED
      BY <2>1, <2>2, <2>3 DEF FlushAdvances, EndsStamped
  <1>4. CASE SubmitFails(f) \/ WaitFails(f) \/ InsertFails(f) \/ StampFails(f)
    BY <1>4, AttemptFailsAdvances
    DEF SubmitFails, WaitFails, InsertFails, StampFails, Fault, FlushAdvances, EndsStamped
  <1>5. CASE CrashScript(f)
    BY <1>5 DEF CrashScript, Fault, FlushAdvances, EndsStamped, TypeOK
  <1> QED
    BY <1>2, <1>3, <1>4, <1>5 DEF FlusherStep, SelectUnbatched, SelectFails

(* Another invocation's step may end this one, with the process of both.   *)
LEMMA OtherFlushStep ==
  ASSUME TypeOK, NEW f \in Flushers, NEW g \in Flushers, f # g, FlusherStep(g)
  PROVE  FlushAdvances(f) /\ EndsStamped(f)
  <1>1. CASE SelectFails(g)
    <2>1. flush'[f] = flush[f] \/ flush'[f] = Idle
      BY <1>1, DaemonsStoppedEffect DEF SelectFails
    <2> QED
      BY <1>1, <2>1 DEF SelectFails, Fault, FlushAdvances, EndsStamped
  <1>2. CASE flush'[f] = flush[f]
    BY <1>2 DEF FlushAdvances, EndsStamped
  <1> QED
    BY <1>1, <1>2 DEF FlusherStep, SelectUnbatched, Submit, SubmitFails, Confirm,
       WaitFails, InsertRecord, InsertFails, Stamp, StampFails, CrashScript,
       AttemptFails, TypeOK

LEMMA FlushStep ==
  ASSUME AnchorInv, [Next]_vars, NEW f \in Flushers
  PROVE  FlushAdvances(f) /\ EndsStamped(f)
  <1> TypeOK
    BY DEF AnchorInv
  <1>1. CASE UNCHANGED flush
    BY <1>1 DEF FlushAdvances, EndsStamped
  <1>2. CASE flush[f].pc = "idle"
    BY <1>2 DEF FlushAdvances, EndsStamped
  <1>3. CASE CrashDaemon
    <2>1. flush'[f] = flush[f] \/ flush'[f] = Idle
      BY <1>3, DaemonsStoppedEffect DEF CrashDaemon
    <2> QED
      BY <1>3, <2>1 DEF CrashDaemon, Fault, FlushAdvances, EndsStamped
  <1>4. ASSUME NEW g \in Flushers, FlusherStep(g), flush[f].pc # "idle"
        PROVE  FlushAdvances(f) /\ EndsStamped(f)
    BY <1>4, OwnFlushStep, OtherFlushStep
  <1> QED
    BY <1>1, <1>2, <1>3, <1>4 DEF Next, Enqueue, Mine, Restart, vars

(* A stamp is overwritten by another one, never taken off.                 *)
LEMMA StampsStay ==
  ASSUME AnchorInv, [Next]_vars, NEW r \in Rows, batch_id[r] # NoBatch
  PROVE  batch_id'[r] # NoBatch
  <1>1. ASSUME NEW f \in Flushers, flush[f].pc = "stamp", StampRows(f)
        PROVE  batch_id'[r] # NoBatch
    <2>1. flush[f].batch # NoBatch
      BY <1>1 DEF AnchorInv, FlusherInv, FlusherOK, TypeOK
    <2> QED
      BY <1>1, <2>1 DEF StampRows
  <1> QED
    BY <1>1 DEF Next, vars, Enqueue, FlusherStep, Mine, CrashDaemon,
       Restart, SelectUnbatched, SelectFails, Submit, SubmitFails, Confirm,
       WaitFails, InsertRecord, InsertFails, Stamp, StampFails, CrashScript

(* Every invocation of flushDigestBatch comes to an end, however the others*)
(* interleave with it and fail: each step of it lowers the number of steps *)
(* it has left, and it ends with its rows stamped, for good, unless one of *)
(* the counted failures ends it.  It waits only for a transaction that the *)
(* chain has.                                                              *)
THEOREM FlushesAdvance ==
  Spec => /\ [](\A f \in Flushers : StepsLeft(f) \in Nat /\ ChainHasIt(f))
          /\ [][\A f \in Flushers : FlushAdvances(f) /\ EndsStamped(f)]_vars
          /\ [][\A r \in Rows : batch_id[r] # NoBatch => batch_id'[r] # NoBatch]_vars
  <1>1. AnchorInv => \A f \in Flushers : StepsLeft(f) \in Nat /\ ChainHasIt(f)
    <2> SUFFICES ASSUME AnchorInv, NEW f \in Flushers
                 PROVE  StepsLeft(f) \in Nat /\ ChainHasIt(f)
      OBVIOUS
    <2>1. flush[f].attempt \in 0 .. MaxAttempts
      BY DEF AnchorInv, TypeOK, FlusherState
    <2>2. ChainHasIt(f)
      BY WellFormedNotEmpty DEF AnchorInv, FlusherInv, FlusherOK, WellFormed, ChainHasIt
    <2> QED
      BY <2>1, <2>2 DEF StepsLeft, StepsOf
  <1>2. AnchorInv /\ [Next]_vars =>
          /\ \A f \in Flushers : FlushAdvances(f) /\ EndsStamped(f)
          /\ \A r \in Rows : batch_id[r] # NoBatch => batch_id'[r] # NoBatch
    BY FlushStep, StampsStay
  <1> QED
    BY <1>1, <1>2, AnchorInit, AnchorStep, PTL DEF Spec

-----------------------------------------------------------------------------
(* The page.  What it has fetched stays true of the record it was led to,  *)
(* which is never changed; the rows that carry the batch id are not the    *)
(* same at each of its requests.                                           *)
FollowsRecord ==
  page.pc # "blank" =>
    /\ page.row \in Rows /\ page.pasted \in Rows /\ page.tx \in Txs
    /\ \E rec \in records :
         rec.batch_id = page.batch /\ page.row \in rec.batch_hash.members

(* A verdict compares with what a mined transaction will always carry.     *)
VerdictStands ==
  /\ page.verdict # "none" => page.pc = "shown"
  /\ page.verdict = "PASS" =>
       page.tx \in mined /\ DigestMatch /\ page.recomputed = txHash[page.tx]
  /\ page.verdict = "FAIL" =>
       page.tx \in mined /\ (DigestMatch => page.recomputed # txHash[page.tx])

PageInv == AnchorInv /\ PageTypeOK /\ FollowsRecord /\ VerdictStands

(* With whole batches the page recomputes what the service had computed.   *)
RecomputesRecord ==
  page.pc = "tx" \/ page.verdict \in {"PASS", "FAIL"} =>
    \E rec \in records :
      rec.batch_id = page.batch /\ page.recomputed = rec.batch_hash

PageWholeInv == PageInv /\ WholeInv /\ RecomputesRecord

LEMMA PageInvInit == PageInit => PageInv
  BY AnchorInit, EmptyHashType
  DEF PageInit, PageInv, PageTypeOK, AnchorInv, FollowsRecord, VerdictStands, Blank

(* What the page recomputes is a batch hash.                               *)
LEMMA RecomputedType ==
  ASSUME NEW b, NEW order \in FlushOrders(Members(b))
  PROVE  BatchHash(Members(b), order) \in Hashes
  <1>1. Members(b) \subseteq Rows
    BY DEF Members
  <1>2. order \subseteq Members(b) \X Members(b)
    BY DEF FlushOrders, OrdersBy
  <1>3. order \in SUBSET (Rows \X Rows)
    BY <1>1, <1>2
  <1> QED
    BY <1>1, <1>3 DEF BatchHash, Hashes

(* A step of the page.                                                     *)
LEMMA PageStepInv ==
  ASSUME PageInv, PageStep
  PROVE  PageInv'
  <1> USE DEF PageInv
  <1>1. AnchorInv'
    BY DEF PageStep, vars, AnchorInv, TypeOK, FlusherInv, FlusherOK, RecordInv,
       StampedIsAnchored, WellFormed
  <1>2. ASSUME NEW r \in Rows, NEW c \in Rows, NEW userTx \in Txs \cup {NoTx},
               FetchDigest(r, c, userTx), UNCHANGED vars
        PROVE  PageTypeOK' /\ FollowsRecord' /\ VerdictStands'
    <2>1. PICK rec \in RecordsOf(batch_id[r]) :
            page' = [page EXCEPT !.pc = "batch", !.row = r, !.pasted = c,
                       !.batch = batch_id[r],
                       !.tx = IF userTx = NoTx THEN rec.tx_hash ELSE userTx]
      BY <1>2 DEF FetchDigest
    <2>2. rec \in records /\ rec.tx_hash \in Txs
      BY DEF RecordsOf, AnchorInv, TypeOK
    <2>3. page.pc = "blank" /\ batch_id[r] \in BatchIds /\ page.verdict = "none"
      BY <1>2 DEF FetchDigest, OnRecord, AnchorInv, TypeOK, VerdictStands, PageTypeOK
    <2>4. \E a \in records : a.batch_id = batch_id[r] /\ r \in a.batch_hash.members
      BY <2>3 DEF AnchorInv, StampedIsAnchored
    <2>5. PageTypeOK'
      BY <1>1, <2>1, <2>2, <2>3 DEF PageTypeOK, AnchorInv
    <2>6. FollowsRecord'
      BY <1>2, <2>1, <2>2, <2>3, <2>4 DEF FollowsRecord, vars, PageTypeOK
    <2>7. VerdictStands'
      BY <2>1, <2>3 DEF VerdictStands, PageTypeOK
    <2> QED
      BY <2>5, <2>6, <2>7
  <1>3. ASSUME FetchBatch, UNCHANGED vars
        PROVE  PageTypeOK' /\ FollowsRecord' /\ VerdictStands'
    <2>1. CASE Error
      BY <1>1, <1>3, <2>1 DEF Error, FetchBatch, PageTypeOK, FollowsRecord,
         VerdictStands, vars, AnchorInv
    <2>2. ASSUME NEW order \in FlushOrders(Members(page.batch)),
                 page' = [page EXCEPT !.pc = "tx",
                            !.recomputed = BatchHash(Members(page.batch), order)]
          PROVE  PageTypeOK' /\ FollowsRecord' /\ VerdictStands'
      <3>1. BatchHash(Members(page.batch), order) \in Hashes
        BY <2>2, RecomputedType
      <3>2. page.pc = "batch" /\ page.verdict = "none"
        BY <1>3 DEF FetchBatch, VerdictStands, PageTypeOK
      <3>3. PageTypeOK'
        BY <1>1, <2>2, <3>1 DEF PageTypeOK, AnchorInv
      <3>4. FollowsRecord'
        BY <1>3, <2>2, <3>2 DEF FollowsRecord, vars, PageTypeOK
      <3>5. VerdictStands'
        BY <2>2, <3>2 DEF VerdictStands, PageTypeOK
      <3> QED
        BY <3>3, <3>4, <3>5
    <2> QED
      BY <1>3, <2>1, <2>2 DEF FetchBatch
  <1>4. ASSUME FetchTx, UNCHANGED vars
        PROVE  PageTypeOK' /\ FollowsRecord' /\ VerdictStands'
    <2>1. CASE Error
      BY <1>1, <1>4, <2>1 DEF Error, FetchTx, PageTypeOK, FollowsRecord,
         VerdictStands, vars, AnchorInv
    <2>2. CASE page.tx \in mined /\ page' = [page EXCEPT !.pc = "shown", !.verdict = Verdict]
      <3>1. Verdict \in {"PASS", "FAIL"}
        BY DEF Verdict
      <3>2. PageTypeOK'
        BY <1>1, <2>2, <3>1 DEF PageTypeOK, AnchorInv
      <3>3. FollowsRecord'
        BY <1>4, <2>2 DEF FetchTx, FollowsRecord, vars, PageTypeOK
      <3>4. VerdictStands'
        BY <1>4, <2>2 DEF FetchTx, VerdictStands, vars, PageTypeOK, Verdict, DigestMatch
      <3> QED
        BY <3>2, <3>3, <3>4
    <2> QED
      BY <1>4, <2>1, <2>2 DEF FetchTx
  <1>5. ASSUME Clear, UNCHANGED vars
        PROVE  PageTypeOK' /\ FollowsRecord' /\ VerdictStands'
    BY <1>1, <1>5, EmptyHashType
    DEF Clear, Blank, PageTypeOK, FollowsRecord, VerdictStands, AnchorInv
  <1> QED
    BY <1>1, <1>2, <1>3, <1>4, <1>5 DEF PageStep

(* A step of the pipeline under the page.                                  *)
LEMMA PipelineStepInv ==
  ASSUME PageInv, [Next]_vars, UNCHANGED page
  PROVE  PageInv'
  <1>1. AnchorInv' /\ TypeOK'
    BY AnchorStep DEF PageInv, AnchorInv
  <1>2. NothingLost
    BY NothingLostStep DEF PageInv, AnchorInv
  <1>3. PageTypeOK'
    BY <1>1 DEF PageInv, PageTypeOK
  <1>4. FollowsRecord'
    BY <1>2 DEF PageInv, FollowsRecord, NothingLost
  <1>5. page.tx \in mined => page.tx \in mined' /\ txHash'[page.tx] = txHash[page.tx]
    BY <1>2 DEF PageInv, AnchorInv, RecordInv, TypeOK, NothingLost
  <1>6. VerdictStands'
    BY <1>5 DEF PageInv, VerdictStands, DigestMatch
  <1> QED
    BY <1>1, <1>3, <1>4, <1>6 DEF PageInv

LEMMA PageInvStep == PageInv /\ [PageNext]_pageVars => PageInv'
  BY PageStepInv, PipelineStepInv DEF PageNext, pageVars

(* What the page shows always has its type, however its requests and the   *)
(* steps of the pipeline interleave.                                       *)
THEOREM PageTypeCorrectness == PageSpec => []PageTypeOK
  BY PageInvInit, PageInvStep, PTL DEF PageSpec, PageInv

(* The user left the choice of the transaction to the record.              *)
QueriesOwnTx == \E rec \in RecordsOf(page.batch) : rec.tx_hash = page.tx

(* Even where flushes overlap and batches are torn apart, a PASS with the  *)
(* transaction that the record itself names is a proof: the ciphertext is  *)
(* among those of that transaction.                                        *)
THEOREM OwnPassIsSound == PageSpec => [](QueriesOwnTx => PassIsSound)
  <1>1. PageInv => (QueriesOwnTx => PassIsSound)
    BY DEF PageInv, FollowsRecord, VerdictStands, AnchorInv, RecordInv,
       RecordsOf, DigestMatch, QueriesOwnTx, PassIsSound
  <1> QED
    BY <1>1, PageInvInit, PageInvStep, PTL DEF PageSpec

-----------------------------------------------------------------------------
LEMMA RecomputesRecordStep ==
  ASSUME Sequential, PageWholeInv, [PageNext]_pageVars
  PROVE  RecomputesRecord'
  <1> USE DEF PageWholeInv
  <1> TypeOK /\ page.pc \in {"blank", "batch", "tx", "shown"}
    BY DEF PageInv, PageTypeOK
  <1>1. CASE [Next]_vars /\ UNCHANGED page
    BY <1>1, NothingLostStep DEF RecomputesRecord, NothingLost
  <1>2. CASE FetchBatch /\ UNCHANGED vars
    <2>1. CASE Error
      BY <1>2, <2>1 DEF Error, FetchBatch, RecomputesRecord, PageInv, PageTypeOK
    <2>2. ASSUME NEW order \in FlushOrders(Members(page.batch)),
                 Members(page.batch) # {},
                 page' = [page EXCEPT !.pc = "tx",
                            !.recomputed = BatchHash(Members(page.batch), order)]
          PROVE  RecomputesRecord'
      <3>1. PICK rec \in records : rec.batch_id = page.batch
        BY <1>2 DEF FetchBatch, PageInv, FollowsRecord
      <3>2. PICK r \in Rows : batch_id[r] = page.batch
        BY <2>2 DEF Members
      <3>3. page.batch # NoBatch
        BY <3>1 DEF TypeOK
      <3>4. BatchHash(Members(page.batch), order) = txHash[rec.tx_hash]
        BY <3>1, <3>2, <3>3, WholeVerifies DEF VerificationPasses
      <3>5. rec.batch_hash = txHash[rec.tx_hash]
        BY DEF PageInv, AnchorInv, RecordInv
      <3> QED
        BY <1>2, <2>2, <3>1, <3>4, <3>5 DEF RecomputesRecord, PageInv, PageTypeOK, vars
    <2> QED
      BY <1>2, <2>1, <2>2 DEF FetchBatch
  <1>3. CASE FetchTx /\ UNCHANGED vars
    BY <1>3 DEF FetchTx, Error, RecomputesRecord, PageInv, PageTypeOK, vars
  <1>4. ASSUME NEW r \in Rows, NEW c \in Rows, NEW userTx \in Txs \cup {NoTx},
               FetchDigest(r, c, userTx)
        PROVE  RecomputesRecord'
    BY <1>4 DEF FetchDigest, RecomputesRecord, PageInv, PageTypeOK, VerdictStands
  <1>5. CASE Clear
    BY <1>5 DEF Clear, Blank, RecomputesRecord
  <1> QED
    BY <1>1, <1>2, <1>3, <1>4, <1>5 DEF PageNext, PageStep, pageVars

LEMMA PageWholeInit == PageInit => PageWholeInv
  BY PageInvInit, WholeInit DEF PageInit, PageWholeInv, RecomputesRecord, Blank

LEMMA PageWholeStep ==
  Sequential /\ PageWholeInv /\ [PageNext]_pageVars => PageWholeInv'
  <1>1. [PageNext]_pageVars => [Next]_vars
    BY DEF PageNext, PageStep, pageVars
  <1> QED
    BY <1>1, PageInvStep, WholeStep, RecomputesRecordStep DEF PageWholeInv

LEMMA PageWholeVerdicts == PageWholeInv => PassIsSound /\ NoFalseAlarm
  <1> SUFFICES ASSUME PageWholeInv PROVE PassIsSound /\ NoFalseAlarm
    OBVIOUS
  <1> USE DEF PageWholeInv, PageInv, VerdictStands, RecomputesRecord, AnchorInv, RecordInv
  <1>1. PassIsSound
    BY DEF PassIsSound, FollowsRecord, DigestMatch
  <1>2. NoFalseAlarm
    BY DEF NoFalseAlarm, RecordsOf
  <1> QED
    BY <1>1, <1>2

(* With one flush at a time and distinct timestamps, PASS is a proof for   *)
(* whatever transaction the user asks about, although a retry may stamp    *)
(* the rows anew between the page's requests.                              *)
THEOREM SequentialPassIsSound == Sequential /\ PageSpec => []PassIsSound
  <1>1. ASSUME Sequential PROVE PageSpec => []PassIsSound
    <2>1. PageWholeInv /\ [PageNext]_pageVars => PageWholeInv'
      BY <1>1, PageWholeStep
    <2> QED
      BY <2>1, PageWholeInit, PageWholeVerdicts, PTL DEF PageSpec
  <1> QED
    BY <1>1

(* Nor is there a false alarm then: with the message's own ciphertext and  *)
(* the transaction of its record the page never shows FAIL.                *)
THEOREM SequentialNoFalseAlarm == Sequential /\ PageSpec => []NoFalseAlarm
  <1>1. ASSUME Sequential PROVE PageSpec => []NoFalseAlarm
    <2>1. PageWholeInv /\ [PageNext]_pageVars => PageWholeInv'
      BY <1>1, PageWholeStep
    <2> QED
      BY <2>1, PageWholeInit, PageWholeVerdicts, PTL DEF PageSpec
  <1> QED
    BY <1>1

-----------------------------------------------------------------------------
(* With any number of flushes at once.  A batch never gains a row its hash *)
(* does not cover: it can only lose some to a flush that overlaps it.      *)
LEMMA NoForeignRows ==
  ASSUME AnchorInv, NEW rec \in records
  PROVE  Members(rec.batch_id) \subseteq rec.batch_hash.members
  <1> SUFFICES ASSUME NEW r \in Members(rec.batch_id)
               PROVE  r \in rec.batch_hash.members
    OBVIOUS
  <1>1. r \in Rows /\ batch_id[r] = rec.batch_id /\ batch_id[r] # NoBatch
    BY DEF Members, AnchorInv, TypeOK
  <1>2. PICK a \in records : a.batch_id = batch_id[r] /\ r \in a.batch_hash.members
    BY <1>1 DEF AnchorInv, StampedIsAnchored
  <1>3. a = rec
    BY <1>1, <1>2 DEF AnchorInv, RecordInv
  <1> QED
    BY <1>2, <1>3

(* What the page recomputes is the hash of some of the rows of its record, *)
(* in their order.                                                         *)
RecomputesPart ==
  page.pc = "tx" \/ page.verdict \in {"PASS", "FAIL"} =>
    /\ WellFormed(page.recomputed)
    /\ \E rec \in RecordsOf(page.batch) :
         page.recomputed.members \subseteq rec.batch_hash.members

PagePartInv == PageInv /\ NoTies /\ RecomputesPart

(* The rows that carry the page's batch id when it asks for them.          *)
LEMMA FetchedIsPart ==
  ASSUME PageInv, page.pc = "batch", Members(page.batch) # {},
         NEW order \in FlushOrders(Members(page.batch))
  PROVE  /\ WellFormed(BatchHash(Members(page.batch), order))
         /\ \E rec \in RecordsOf(page.batch) :
              Members(page.batch) \subseteq rec.batch_hash.members
  <1>1. PICK rec \in records : rec.batch_id = page.batch
    BY DEF PageInv, FollowsRecord
  <1>2. Members(page.batch) \subseteq rec.batch_hash.members
    BY <1>1, NoForeignRows DEF PageInv
  <1>3. rec.batch_hash.members \subseteq { r \in Rows : queued_at[r] # 0 }
    BY DEF PageInv, AnchorInv, RecordInv, WellFormed, WellFormedBy
  <1>4. WellFormed(BatchHash(Members(page.batch), order))
    BY <1>2, <1>3 DEF WellFormed, WellFormedBy, BatchHash, FlushOrders
  <1> QED
    BY <1>1, <1>2, <1>4 DEF RecordsOf

LEMMA RecomputesPartStep ==
  ASSUME PagePartInv, [PageNext]_pageVars
  PROVE  RecomputesPart'
  <1> USE DEF PagePartInv
  <1> TypeOK /\ page.pc \in {"blank", "batch", "tx", "shown"}
    BY DEF PageInv, PageTypeOK
  <1>1. CASE [Next]_vars /\ UNCHANGED page
    <2> SUFFICES ASSUME page.pc = "tx" \/ page.verdict \in {"PASS", "FAIL"}
                 PROVE  /\ WellFormedBy(queued_at', page.recomputed)
                        /\ \E rec \in RecordsOf(page.batch)' :
                             page.recomputed.members \subseteq rec.batch_hash.members
      BY <1>1 DEF RecomputesPart, WellFormed, RecordsOf
    <2>1. NothingLost
      BY <1>1, NothingLostStep
    <2>2. WellFormedBy(queued_at', page.recomputed)
      BY <2>1, WellFormedStable DEF RecomputesPart, WellFormed, NothingLost
    <2>3. RecordsOf(page.batch) \subseteq RecordsOf(page.batch)'
      BY <1>1, <2>1 DEF RecordsOf, NothingLost
    <2> QED
      BY <2>2, <2>3 DEF RecomputesPart
  <1>2. CASE FetchBatch /\ UNCHANGED vars
    <2>1. CASE Error
      BY <1>2, <2>1 DEF Error, FetchBatch, RecomputesPart, PageInv, PageTypeOK
    <2>2. ASSUME NEW order \in FlushOrders(Members(page.batch)),
                 Members(page.batch) # {},
                 page' = [page EXCEPT !.pc = "tx",
                            !.recomputed = BatchHash(Members(page.batch), order)]
          PROVE  RecomputesPart'
      <3>1. page.pc = "batch"
        BY <1>2 DEF FetchBatch
      <3>2. page'.recomputed = BatchHash(Members(page.batch), order) /\ page'.batch = page.batch
        BY <2>2 DEF PageInv, PageTypeOK
      <3>3. BatchHash(Members(page.batch), order).members = Members(page.batch)
        BY DEF BatchHash
      <3> QED
        BY <1>2, <2>2, <3>1, <3>2, <3>3, FetchedIsPart
        DEF RecomputesPart, RecordsOf, WellFormed, vars
    <2> QED
      BY <1>2, <2>1, <2>2 DEF FetchBatch
  <1>3. CASE FetchTx /\ UNCHANGED vars
    BY <1>3 DEF FetchTx, Error, RecomputesPart, RecordsOf, WellFormed, PageInv,
       PageTypeOK, vars
  <1>4. ASSUME NEW r \in Rows, NEW c \in Rows, NEW userTx \in Txs \cup {NoTx},
               FetchDigest(r, c, userTx)
        PROVE  RecomputesPart'
    BY <1>4 DEF FetchDigest, RecomputesPart, PageInv, PageTypeOK, VerdictStands
  <1>5. CASE Clear
    BY <1>5 DEF Clear, Blank, RecomputesPart
  <1> QED
    BY <1>1, <1>2, <1>3, <1>4, <1>5 DEF PageNext, PageStep, pageVars

LEMMA PagePartInit == PageInit => PagePartInv
  BY PageInvInit DEF PageInit, Init, PagePartInv, NoTies, Queued, RecomputesPart, Blank

LEMMA PagePartStep == ~TiesPossible /\ PagePartInv /\ [PageNext]_pageVars => PagePartInv'
  <1>1. [PageNext]_pageVars => [Next]_vars
    BY DEF PageNext, PageStep, pageVars
  <1>2. PageInv => TypeOK
    BY DEF PageInv, AnchorInv
  <1> QED
    BY <1>1, <1>2, PageInvStep, NoTiesStep, RecomputesPartStep DEF PagePartInv

(* The verdict FAIL for the message's own ciphertext and transaction was   *)
(* computed from rows of the batch, but not from all of them.              *)
RowsAreMissing ==
  page.verdict = "FAIL" /\ QueriesOwnTx /\ DigestMatch =>
    \E rec \in RecordsOf(page.batch) :
      /\ page.tx = rec.tx_hash
      /\ page.recomputed.members \subseteq rec.batch_hash.members
      /\ page.recomputed.members # rec.batch_hash.members

LEMMA PartExplainsFail == PagePartInv => RowsAreMissing
  <1> SUFFICES ASSUME PagePartInv, page.verdict = "FAIL", QueriesOwnTx, DigestMatch
               PROVE  \E rec \in RecordsOf(page.batch) :
                        /\ page.tx = rec.tx_hash
                        /\ page.recomputed.members \subseteq rec.batch_hash.members
                        /\ page.recomputed.members # rec.batch_hash.members
    BY DEF RowsAreMissing
  <1> USE DEF PagePartInv, PageInv, AnchorInv
  <1>1. PICK rec \in records : rec.batch_id = page.batch /\ rec.tx_hash = page.tx
    BY DEF QueriesOwnTx, RecordsOf
  <1>2. PICK part \in records :
          part.batch_id = page.batch /\ page.recomputed.members \subseteq part.batch_hash.members
    BY DEF RecomputesPart, RecordsOf
  <1>3. part = rec
    BY <1>1, <1>2 DEF RecordInv
  <1>4. page.recomputed # rec.batch_hash
    BY <1>1 DEF VerdictStands, RecordInv
  <1>5. WellFormed(page.recomputed) /\ WellFormed(rec.batch_hash)
    BY DEF RecomputesPart, RecordInv
  <1>6. page.recomputed \in Hashes /\ rec.batch_hash \in Hashes
    BY DEF PageTypeOK, TypeOK
  <1>7. ASSUME page.recomputed.members = rec.batch_hash.members PROVE FALSE
    <2> DEFINE M == rec.batch_hash.members
    <2>1. M \subseteq Queued
      BY <1>5 DEF WellFormed, WellFormedBy, Queued
    <2>2. \A x \in M : queued_at[x] \in Nat
      BY <2>1 DEF TypeOK, Queued
    <2>3. \A x, y \in M : queued_at[x] = queued_at[y] => x = y
      BY <2>1 DEF NoTies
    <2>4. /\ page.recomputed.order \in OrdersBy(queued_at, M)
          /\ rec.batch_hash.order \in OrdersBy(queued_at, M)
      BY <1>5, <1>7 DEF WellFormed, WellFormedBy
    <2>5. page.recomputed.order = rec.batch_hash.order
      BY <2>2, <2>3, <2>4, OneOrder
    <2> QED
      BY <1>4, <1>6, <1>7, <2>5 DEF Hashes
  <1> QED
    BY <1>1, <1>2, <1>3, <1>7 DEF RecordsOf

(* A false alarm has one cause, however many flushes overlap, fail and try *)
(* again: another flush has taken rows of the batch to a batch of its own. *)
(* The page never hashes a row too many, nor the right rows in the wrong   *)
(* order, as long as no two are queued in the same microsecond.            *)
THEOREM FalseAlarmsMissRows == ~TiesPossible /\ PageSpec => []RowsAreMissing
  <1>1. ASSUME ~TiesPossible PROVE PageSpec => []RowsAreMissing
    <2>1. PagePartInv /\ [PageNext]_pageVars => PagePartInv'
      BY <1>1, PagePartStep
    <2> QED
      BY <2>1, PagePartInit, PartExplainsFail, PTL DEF PageSpec
  <1> QED
    BY <1>1
=============================================================================
