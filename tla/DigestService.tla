---------------------------- MODULE DigestService ----------------------------
(***************************************************************************)
(* The anchoring pipeline: rows of digest_queue, written by the message    *)
(* handlers, are batched by the digest service, hashed, recorded on chain  *)
(* by a transaction, described by a row of blockchain_records and finally  *)
(* stamped with the batch's id.  The verification page later recomputes    *)
(* the hash of a batch from the rows that carry its id.                    *)
(*                                                                         *)
(* A flusher is one running invocation of flushDigestBatch: Daemons are    *)
(* the invocations inside the index.js process, which setInterval starts   *)
(* without waiting for the earlier one to finish, and Scripts are runs of  *)
(* flush.js, a process of its own.                                         *)
(***************************************************************************)
EXTENDS Naturals, FiniteSets

CONSTANTS
  Rows,          (* rows of digest_queue: one per committed message        *)
  Times,         (* queued_at timestamps                                   *)
  TiesPossible,  (* may two rows be queued in the same microsecond?        *)
  Daemons,       (* concurrent invocations inside digest-service/index.js  *)
  Scripts,       (* runs of digest-service/flush.js                        *)
  Txs,           (* transaction hashes                                     *)
  BatchIds,      (* values of randomUUID()                                 *)
  NoTx, NoBatch, (* "not yet"                                              *)
  MaxAttempts,   (* MAX_ATTEMPTS, 5 in the code                            *)
  FaultKinds,    (* the operations that may fail                           *)
  MaxFaults      (* bound on the number of failures in a behaviour         *)

AllFaults == {"select", "submit", "wait", "insert", "stamp", "crash"}

ASSUME TimesAssumption == Times \subseteq Nat \ {0}
ASSUME BoundsAssumption == MaxAttempts \in Nat \ {0} /\ MaxFaults \in Nat
ASSUME NoneAssumption == NoTx \notin Txs /\ NoBatch \notin BatchIds
ASSUME FaultAssumption == FaultKinds \subseteq AllFaults
ASSUME TiesAssumption == TiesPossible \in BOOLEAN

VARIABLES
  queued_at,  (* digest_queue.queued_at; 0 for a row not inserted yet      *)
  batch_id,   (* digest_queue.batch_id                                     *)
  records,    (* the rows of blockchain_records                            *)
  txHash,     (* the batch hash each broadcast transaction carries         *)
  mined,      (* the transactions included in a block                      *)
  flush,      (* the local state of every flusher                          *)
  up,         (* is the index.js process running?                          *)
  faults      (* failures so far                                           *)

vars == <<queued_at, batch_id, records, txHash, mined, flush, up, faults>>

Flushers == Daemons \cup Scripts

-----------------------------------------------------------------------------
(***************************************************************************)
(* keccak256 over the concatenated digests depends on which rows are       *)
(* concatenated and in which order, and collides for no two inputs, so a   *)
(* batch hash is modelled by exactly that: the set of rows and the strict  *)
(* total order they were read in.  SQL's ORDER BY queued_at leaves rows    *)
(* with equal timestamps in an arbitrary order.                            *)
(***************************************************************************)
BatchHash(R, order) == [members |-> R, order |-> order]

EmptyHash == BatchHash({}, {})

OrdersBy(key, R) ==
  { order \in SUBSET (R \X R) :
      /\ \A x, y \in R : key[x] < key[y] => <<x, y>> \in order
      /\ \A x, y \in R : <<x, y>> \in order => <<y, x>> \notin order
      /\ \A x, y \in R : x # y => <<x, y>> \in order \/ <<y, x>> \in order
      /\ \A x, y, z \in R :
            <<x, y>> \in order /\ <<y, z>> \in order => <<x, z>> \in order }

FlushOrders(R) == OrdersBy(queued_at, R)

Hashes == [members : SUBSET Rows, order : SUBSET (Rows \X Rows)]

Queued    == { r \in Rows : queued_at[r] # 0 }
Unbatched == { r \in Queued : batch_id[r] = NoBatch }
Members(b) == { r \in Rows : batch_id[r] = b }

Idle == [pc |-> "idle", hash |-> EmptyHash, attempt |-> 0,
         tx |-> NoTx, batch |-> NoBatch]

(* The invocations that live in the index.js process all end with it.      *)
DaemonsStopped == [f \in Flushers |-> IF f \in Daemons THEN Idle ELSE flush[f]]

Fault(kind) ==
  /\ kind \in FaultKinds
  /\ faults < MaxFaults
  /\ faults' = faults + 1

Init ==
  /\ queued_at = [r \in Rows |-> 0]
  /\ batch_id  = [r \in Rows |-> NoBatch]
  /\ records   = {}
  /\ txHash    = [t \in Txs |-> EmptyHash]
  /\ mined     = {}
  /\ flush     = [f \in Flushers |-> Idle]
  /\ up        = TRUE
  /\ faults    = 0

-----------------------------------------------------------------------------
(* A message transaction commits.  NOW() is the time that transaction      *)
(* began, so rows need not appear in the order of their timestamps.        *)
Enqueue(r, t) ==
  /\ queued_at[r] = 0
  /\ TiesPossible \/ \A s \in Rows : queued_at[s] # t
  /\ queued_at' = [queued_at EXCEPT ![r] = t]
  /\ UNCHANGED <<batch_id, records, txHash, mined, flush, up, faults>>

(* flushDigestBatch reads the queue; an empty queue ends the invocation.   *)
SelectUnbatched(f) ==
  /\ flush[f].pc = "idle"
  /\ f \in Daemons => up
  /\ Unbatched # {}
  /\ \E order \in FlushOrders(Unbatched) :
        flush' = [flush EXCEPT ![f] =
                    [pc |-> "submit", hash |-> BatchHash(Unbatched, order),
                     attempt |-> 1, tx |-> NoTx, batch |-> NoBatch]]
  /\ UNCHANGED <<queued_at, batch_id, records, txHash, mined, up, faults>>

(* The SELECT is outside the try block and its rejection is handled        *)
(* nowhere, so it ends the process and every invocation in it.             *)
SelectFails(f) ==
  /\ f \in Daemons
  /\ flush[f].pc = "idle"
  /\ up
  /\ Fault("select")
  /\ up' = FALSE
  /\ flush' = DaemonsStopped
  /\ UNCHANGED <<queued_at, batch_id, records, txHash, mined>>

AttemptFailsOffByOne(f) ==   (* mutant: attempt <= MAX_ATTEMPTS             *)
  flush' = [flush EXCEPT ![f] =
              IF f \in Daemons /\ flush[f].attempt <= MaxAttempts
              THEN [pc |-> "submit", hash |-> flush[f].hash,
                    attempt |-> flush[f].attempt + 1,
                    tx |-> NoTx, batch |-> NoBatch]
              ELSE Idle]
AttemptFailsWaits(f) ==      (* mutant: the retry waits, without sending again *)
  flush' = [flush EXCEPT ![f] =
              IF f \in Daemons /\ flush[f].attempt < MaxAttempts
              THEN [pc |-> "wait", hash |-> flush[f].hash,
                    attempt |-> flush[f].attempt + 1,
                    tx |-> NoTx, batch |-> NoBatch]
              ELSE Idle]
(* The catch block: index.js tries the same rows again, up to MaxAttempts  *)
(* times in all; flush.js exits.                                           *)
AttemptFails(f) ==
  flush' = [flush EXCEPT ![f] =
              IF f \in Daemons /\ flush[f].attempt < MaxAttempts
              THEN [pc |-> "submit", hash |-> flush[f].hash,
                    attempt |-> flush[f].attempt + 1,
                    tx |-> NoTx, batch |-> NoBatch]
              ELSE Idle]

(* contract.recordDigest: a transaction with a hash of its own.            *)
UnusedTxs == { t \in Txs : txHash[t] = EmptyHash }
NextTx    == CHOOSE t \in UnusedTxs : TRUE
Broadcast(hash) ==
  /\ UnusedTxs # {}
  /\ txHash' = [txHash EXCEPT ![NextTx] = hash]

Submit(f) ==
  /\ flush[f].pc = "submit"
  /\ Broadcast(flush[f].hash)
  /\ flush' = [flush EXCEPT ![f].pc = "wait", ![f].tx = NextTx]
  /\ UNCHANGED <<queued_at, batch_id, records, mined, up, faults>>

(* The call fails, possibly after the node accepted the transaction.       *)
SubmitFails(f) ==
  /\ flush[f].pc = "submit"
  /\ Fault("submit")
  /\ AttemptFails(f)
  /\ Broadcast(flush[f].hash) \/ UNCHANGED txHash
  /\ UNCHANGED <<queued_at, batch_id, records, mined, up>>

(* The contract stores the hash and emits DigestRecorded.                  *)
Mine(t) ==
  /\ txHash[t] # EmptyHash
  /\ t \notin mined
  /\ mined' = mined \cup {t}
  /\ UNCHANGED <<queued_at, batch_id, records, txHash, flush, up, faults>>

ConfirmAtOnce(f) ==          (* mutant: the record is written without tx.wait *)
  /\ flush[f].pc = "wait"
  /\ flush' = [flush EXCEPT ![f].pc = "insert"]
  /\ UNCHANGED <<queued_at, batch_id, records, txHash, mined, up, faults>>
(* tx.wait() returns a receipt.                                            *)
Confirm(f) ==
  /\ flush[f].pc = "wait"
  /\ flush[f].tx \in mined
  /\ flush' = [flush EXCEPT ![f].pc = "insert"]
  /\ UNCHANGED <<queued_at, batch_id, records, txHash, mined, up, faults>>

(* tx.wait() throws: the RPC node is lost, whether or not tx was mined.    *)
WaitFails(f) ==
  /\ flush[f].pc = "wait"
  /\ Fault("wait")
  /\ AttemptFails(f)
  /\ UNCHANGED <<queued_at, batch_id, records, txHash, mined, up>>

(* INSERT INTO blockchain_records, with a new randomUUID().                *)
UnusedBatchIds == BatchIds \ { rec.batch_id : rec \in records }
NextBatchId == CHOOSE b \in UnusedBatchIds : TRUE
RecordBatch(f) ==
  /\ UnusedBatchIds # {}
  /\ records' = records \cup
       { [batch_id   |-> NextBatchId,
          batch_hash |-> flush[f].hash,
          tx_hash    |-> flush[f].tx] }

InsertRecord(f) ==
  /\ flush[f].pc = "insert"
  /\ RecordBatch(f)
  /\ flush' = [flush EXCEPT ![f].pc = "stamp", ![f].batch = NextBatchId]
  /\ UNCHANGED <<queued_at, batch_id, txHash, mined, up, faults>>

InsertFails(f) ==
  /\ flush[f].pc = "insert"
  /\ Fault("insert")
  /\ AttemptFails(f)
  /\ RecordBatch(f) \/ UNCHANGED records
  /\ UNCHANGED <<queued_at, batch_id, txHash, mined, up>>

(* UPDATE digest_queue SET batch_id: by the ids selected at the start, and *)
(* whatever batch_id those rows carry by now.                              *)
StampRowsStillNull(f) ==     (* mutant: WHERE batch_id IS NULL, no id list *)
  batch_id' = [r \in Rows |-> IF r \in Unbatched
                              THEN flush[f].batch ELSE batch_id[r]]
StampRows(f) ==
  batch_id' = [r \in Rows |-> IF r \in flush[f].hash.members
                              THEN flush[f].batch ELSE batch_id[r]]

Stamp(f) ==
  /\ flush[f].pc = "stamp"
  /\ StampRows(f)
  /\ flush' = [flush EXCEPT ![f] = Idle]
  /\ UNCHANGED <<queued_at, records, txHash, mined, up, faults>>

StampFails(f) ==
  /\ flush[f].pc = "stamp"
  /\ Fault("stamp")
  /\ AttemptFails(f)
  /\ StampRows(f) \/ UNCHANGED batch_id
  /\ UNCHANGED <<queued_at, records, txHash, mined, up>>

(* Either process is killed between two steps; index.js can be started     *)
(* again by hand, and flushes at once.                                     *)
CrashDaemon ==
  /\ up
  /\ Fault("crash")
  /\ up' = FALSE
  /\ flush' = DaemonsStopped
  /\ UNCHANGED <<queued_at, batch_id, records, txHash, mined>>

CrashScript(f) ==
  /\ f \in Scripts \ Daemons
  /\ flush[f].pc # "idle"
  /\ Fault("crash")
  /\ flush' = [flush EXCEPT ![f] = Idle]
  /\ UNCHANGED <<queued_at, batch_id, records, txHash, mined, up>>

Restart ==
  /\ ~up
  /\ up' = TRUE
  /\ UNCHANGED <<queued_at, batch_id, records, txHash, mined, flush, faults>>

FlusherStep(f) ==
  \/ SelectUnbatched(f) \/ SelectFails(f)
  \/ Submit(f)          \/ SubmitFails(f)
  \/ Confirm(f)         \/ WaitFails(f)
  \/ InsertRecord(f)    \/ InsertFails(f)
  \/ Stamp(f)           \/ StampFails(f)
  \/ CrashScript(f)

Next ==
  \/ \E r \in Rows, t \in Times : Enqueue(r, t)
  \/ \E f \in Flushers : FlusherStep(f)
  \/ \E t \in Txs : Mine(t)
  \/ CrashDaemon
  \/ Restart

Spec == Init /\ [][Next]_vars

(***************************************************************************)
(* Fairness.  setInterval keeps calling flushDigestBatch, an invocation    *)
(* runs on until it ends, and the chain includes what it accepted.  No one *)
(* is obliged to run flush.js or to start index.js again.                  *)
(***************************************************************************)
DaemonProgress(f) ==
  SelectUnbatched(f) \/ Submit(f) \/ Confirm(f) \/ InsertRecord(f) \/ Stamp(f)

FairSpec ==
  /\ Spec
  /\ \A f \in Daemons : WF_vars(DaemonProgress(f))
  /\ \A t \in Txs : WF_vars(Mine(t))

-----------------------------------------------------------------------------
FlusherState ==
  [pc : {"idle", "submit", "wait", "insert", "stamp"}, hash : Hashes,
   attempt : 0 .. MaxAttempts, tx : Txs \cup {NoTx},
   batch : BatchIds \cup {NoBatch}]

(* Every variable ranges over what the tables and the processes can hold.  *)
TypeOK ==
  /\ queued_at \in [Rows -> Times \cup {0}]
  /\ batch_id \in [Rows -> BatchIds \cup {NoBatch}]
  /\ records \in SUBSET [batch_id : BatchIds, batch_hash : Hashes, tx_hash : Txs]
  /\ txHash \in [Txs -> Hashes]
  /\ mined \in SUBSET Txs
  /\ flush \in [Flushers -> FlusherState]
  /\ up \in BOOLEAN
  /\ faults \in 0 .. MaxFaults

(***************************************************************************)
(* What GET /blockchain/digest reports for a row it does not answer 404    *)
(* for is real, although no foreign key ties digest_queue.batch_id to      *)
(* blockchain_records: the stamp leads to a record, the record to a mined  *)
(* transaction, and that transaction's hash covers the row.  It survives   *)
(* overlapping flushes, retries, lost answers and crashes.                 *)
(***************************************************************************)
StampedIsAnchored ==
  \A r \in Rows : batch_id[r] # NoBatch =>
    \E rec \in records :
      /\ rec.batch_id = batch_id[r]
      /\ rec.batch_hash = txHash[rec.tx_hash]
      /\ rec.tx_hash \in mined
      /\ r \in rec.batch_hash.members

(***************************************************************************)
(* The verification page shows PASS for every stamped row: the hash        *)
(* recomputed from the rows that GET /blockchain/batch returns, in         *)
(* whatever order SQL returns them, is the hash on chain.  Batches are     *)
(* only kept whole by flushes that do not overlap.                         *)
(***************************************************************************)
VerificationPasses ==
  \A r \in Rows : \A rec \in records :
    batch_id[r] # NoBatch /\ rec.batch_id = batch_id[r] =>
      \A order \in FlushOrders(Members(rec.batch_id)) :
        BatchHash(Members(rec.batch_id), order) = txHash[rec.tx_hash]

(***************************************************************************)
(* Rows of digest_queue stay unbatched until the next flush runs, and no   *)
(* longer: every queued digest is in the end stamped with an anchored      *)
(* batch, whatever finite number of attempts fail and even while flush.js  *)
(* works on the same rows, unless index.js is gone.                        *)
(***************************************************************************)
EveryDigestAnchored ==
  \A r \in Rows : (queued_at[r] # 0) ~> (batch_id[r] # NoBatch \/ ~up)
=============================================================================
