-------------------------- MODULE MessageRefinement --------------------------
(***************************************************************************)
(* The message handlers between the two things they serve: they implement  *)
(* the mailboxes that Mailbox specifies for their users, and they feed the *)
(* anchoring pipeline as the Enqueue of DigestService says.                *)
(***************************************************************************)
EXTENDS MessageServer

(* A box is what GET /messages lists, a recall a row of revocations.       *)
Box == [u \in Users |-> Listed(u, "all")]

Author == [m \in MsgIds |-> IF Stored(m) THEN messages[m].sender_id ELSE NoMessage]

Recalled == { <<r.message_id, r.revoked_by>> : r \in revocations }

M == INSTANCE Mailbox WITH
       NoUser <- NoMessage, box <- Box, author <- Author, recalled <- Recalled

(***************************************************************************)
(* Every step of the handlers delivers one message to two boxes, discards  *)
(* one from one box, recalls one, or changes no box at all.                *)
(***************************************************************************)
ImplementsMailbox == M!Spec

-----------------------------------------------------------------------------
(* The pipeline's rows are the messages; NOW() of each is when it queued.  *)
QueueTime(m) ==
  LET times == { d.queued_at : d \in { e \in digest_queue : e.message_id = m } }
  IN  IF times = {} THEN 0
      ELSE CHOOSE t \in times : \A s \in times : s <= t

P == INSTANCE DigestService WITH
       Rows <- MsgIds, Times <- 1 .. MaxTime, TiesPossible <- FALSE,
       Daemons <- {}, Scripts <- {}, Txs <- {}, BatchIds <- {},
       NoTx <- NoMessage, NoBatch <- NoMessage, MaxAttempts <- 1,
       FaultKinds <- {}, MaxFaults <- 0,
       queued_at <- [m \in MsgIds |-> QueueTime(m)],
       batch_id <- [m \in MsgIds |-> NoMessage], records <- {}, txHash <- <<>>,
       mined <- {}, flush <- <<>>, up <- TRUE, faults <- 0

(***************************************************************************)
(* DigestService lets Enqueue write any row once, at a time no other row   *)
(* has.  The commits of the handlers are exactly such steps, in whatever   *)
(* order their transactions began.                                         *)
(***************************************************************************)
FeedsPipeline == P!Init /\ [][\E m \in MsgIds, t \in 1 .. MaxTime : P!Enqueue(m, t)]_digest_queue
=============================================================================
