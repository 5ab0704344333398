---------------------------- MODULE MessageServer ----------------------------
(***************************************************************************)
(* The message handlers of the backend, as they interleave in one Node.js  *)
(* process over a pool of PostgreSQL connections: every await of a query   *)
(* is a point where the other handlers run.  A send or a forward looks for *)
(* the conversation of its two users, inserts it when there is none, and   *)
(* then writes the message, the conversation's timestamp and the digest in *)
(* one transaction.                                                        *)
(***************************************************************************)
EXTENDS MessageStore

CONSTANTS
  Handlers,    (* requests that may be in progress at the same time        *)
  NoConv,      (* the row of a conversation id that is not in use          *)
  MaxTime      (* bound on the clock                                       *)

ASSUME HandlerAssumption == NoConv \notin ConvIds /\ MaxTime \in Nat

VARIABLES
  conversations,  (* conversations[c] is the row of c, or NoConv           *)
  digest_queue,   (* the rows of digest_queue that the handlers insert     *)
  req,            (* the local state of every handler                      *)
  now             (* the database's clock                                  *)

vars == <<messages, revocations, conversations, digest_queue, req, now>>

ConversationRow == [user_a_id : Users, user_b_id : Users, last_message_at : Nat]

ASSUME NoConvAssumption == NoConv \notin ConversationRow

Idle == [pc |-> "idle"]

Exists(c) == conversations[c] # NoConv

Init ==
  /\ StoreInit
  /\ conversations = [c \in ConvIds |-> NoConv]
  /\ digest_queue = {}
  /\ req = [h \in Handlers |-> Idle]
  /\ now = 0

-----------------------------------------------------------------------------
(* Bound: no more requests than there are transactions left for.           *)
Waiting == { g \in Handlers : req[g].pc \in {"select", "create", "begin"} }
InBounds == now + Cardinality(Waiting) < MaxTime

(* POST /messages: the recipient is looked up and found.                   *)
Accept(h, u, v, original) ==
  req' = [req EXCEPT ![h] = [pc |-> "select", from |-> u, to |-> v,
                             original |-> original, conv |-> NoConv, started |-> 0]]

ReceiveSend(h, u, v) ==
  /\ req[h].pc = "idle"
  /\ InBounds
  /\ Accept(h, u, v, NoMessage)
  /\ UNCHANGED <<messages, revocations, conversations, digest_queue, now>>

(* POST /messages/:id/forward: the caller must be a party to the original, *)
(* which may be deleted or revoked.                                        *)
ReceiveForward(h, u, m, v) ==
  /\ req[h].pc = "idle"
  /\ InBounds
  /\ Stored(m)
  /\ u \in Parties(m)
  /\ Accept(h, u, v, m)
  /\ UNCHANGED <<messages, revocations, conversations, digest_queue, now>>

(* SELECT id FROM conversations, with the two users in either order.       *)
Between(c, u, v) ==
  /\ Exists(c)
  /\ \/ conversations[c].user_a_id = u /\ conversations[c].user_b_id = v
     \/ conversations[c].user_a_id = v /\ conversations[c].user_b_id = u

SelectOrProceed(h) ==        (* mutant: proceeds although nothing was found  *)
  /\ req[h].pc = "select"
  /\ \/ \E c \in ConvIds :
          /\ Between(c, req[h].from, req[h].to)
          /\ req' = [req EXCEPT ![h].pc = "begin", ![h].conv = c]
     \/ /\ \A c \in ConvIds : ~Between(c, req[h].from, req[h].to)
        /\ req' = [req EXCEPT ![h].pc = "begin"]
  /\ UNCHANGED <<messages, revocations, conversations, digest_queue, now>>
SelectConversation(h) ==
  /\ req[h].pc = "select"
  /\ \/ \E c \in ConvIds :
          /\ Between(c, req[h].from, req[h].to)
          /\ req' = [req EXCEPT ![h].pc = "begin", ![h].conv = c]
     \/ /\ \A c \in ConvIds : ~Between(c, req[h].from, req[h].to)
        /\ req' = [req EXCEPT ![h].pc = "create"]
  /\ UNCHANGED <<messages, revocations, conversations, digest_queue, now>>

(* The row to insert, with its participants in ascending order, and the    *)
(* constraints of the table.                                               *)
SortedPair(u, v) ==
  IF u < v THEN [user_a_id |-> u, user_b_id |-> v, last_message_at |-> 0]
           ELSE [user_a_id |-> v, user_b_id |-> u, last_message_at |-> 0]

NoConstraint(row) == TRUE    (* mutant: neither UNIQUE nor CHECK            *)
Insertable(row) ==
  /\ row.user_a_id < row.user_b_id
  /\ \A c \in ConvIds : Exists(c) =>
       \/ conversations[c].user_a_id # row.user_a_id
       \/ conversations[c].user_b_id # row.user_b_id

InsertConversation(h) ==
  LET row == SortedPair(req[h].from, req[h].to)
  IN  /\ req[h].pc = "create"
      /\ Insertable(row)
      /\ \E c \in ConvIds :
           /\ ~Exists(c)
           /\ conversations' = [conversations EXCEPT ![c] = row]
           /\ req' = [req EXCEPT ![h].pc = "begin", ![h].conv = c]
      /\ UNCHANGED <<messages, revocations, digest_queue, now>>

(* A handler ends with an error: a constraint violation while it inserts   *)
(* the conversation, or the loss of its connection at any point.  Its open *)
(* transaction, if any, is rolled back; the conversation stays.            *)
Fail(h) ==
  /\ req[h].pc # "idle"
  /\ req' = [req EXCEPT ![h] = Idle]
  /\ UNCHANGED <<messages, revocations, conversations, digest_queue, now>>

(* BEGIN fixes the NOW() of the transaction: sent_at, last_message_at and  *)
(* queued_at.  The message is inserted but not visible yet.                *)
BeginTransaction(h) ==
  /\ req[h].pc = "begin"
  /\ now < MaxTime
  /\ now' = now + 1
  /\ req' = [req EXCEPT ![h].pc = "touch", ![h].started = now + 1]
  /\ UNCHANGED <<messages, revocations, conversations, digest_queue>>

(* UPDATE conversations waits for a transaction that has updated the row.  *)
TouchConversation(h) ==
  /\ req[h].pc = "touch"
  /\ \A g \in Handlers : ~(req[g].pc = "commit" /\ req[g].conv = req[h].conv)
  /\ req' = [req EXCEPT ![h].pc = "commit"]
  /\ UNCHANGED <<messages, revocations, conversations, digest_queue, now>>

(* COMMIT: the three writes become visible together.                       *)
DigestOfOriginal(m, r) ==    (* mutant: a forward queues the original again *)
  {[message_id |-> IF r.original = NoMessage THEN m ELSE r.original,
    queued_at |-> r.started]}
NewDigests(m, r) == {[message_id |-> m, queued_at |-> r.started]}

Commit(h) ==
  LET r == req[h]
  IN  /\ r.pc = "commit"
      /\ \E m \in MsgIds :
           /\ ~Stored(m)
           /\ messages' = [messages EXCEPT ![m] =
                             NewMessage(r.conv, r.from, r.to, r.started, r.original)]
           /\ digest_queue' = digest_queue \cup NewDigests(m, r)
      /\ conversations' = [conversations EXCEPT ![r.conv].last_message_at = r.started]
      /\ req' = [req EXCEPT ![h] = Idle]
      /\ UNCHANGED <<revocations, now>>

(* POST /conversations/:id/read, by one of its participants.               *)
MarkRead(u, c) ==
  /\ Exists(c)
  /\ u \in {conversations[c].user_a_id, conversations[c].user_b_id}
  /\ messages' = [m \in MsgIds |->
       IF Stored(m) /\ messages[m].conversation_id = c /\ messages[m].recipient_id = u
       THEN [messages[m] EXCEPT !.read = TRUE]
       ELSE messages[m]]
  /\ UNCHANGED <<revocations, conversations, digest_queue, req, now>>

DeleteMessage(u, m) ==
  Delete(u, m) /\ UNCHANGED <<conversations, digest_queue, req, now>>

RevokeMessage(u, m) ==
  Revoke(u, m) /\ UNCHANGED <<conversations, digest_queue, req, now>>

HandlerStep(h) ==
  \/ \E u, v \in Users : ReceiveSend(h, u, v)
  \/ \E u, v \in Users, m \in MsgIds : ReceiveForward(h, u, m, v)
  \/ SelectConversation(h)
  \/ InsertConversation(h)
  \/ Fail(h)
  \/ BeginTransaction(h)
  \/ TouchConversation(h)
  \/ Commit(h)

Next ==
  \/ \E h \in Handlers : HandlerStep(h)
  \/ \E u \in Users, c \in ConvIds : MarkRead(u, c)
  \/ \E u \in Users, m \in MsgIds : DeleteMessage(u, m) \/ RevokeMessage(u, m)

Spec == Init /\ [][Next]_vars

-----------------------------------------------------------------------------
EarlyRequest ==
  [pc : {"select", "create"}, from : Users, to : Users,
   original : MsgIds \cup {NoMessage}, conv : {NoConv}, started : {0}]
LateRequest ==
  [pc : {"begin", "touch", "commit"}, from : Users, to : Users,
   original : MsgIds \cup {NoMessage}, conv : ConvIds, started : 0 .. MaxTime]

(* Every table holds rows of its type, and a handler that has left the     *)
(* get-or-create has the id of a conversation.                             *)
ServerTypeOK ==
  /\ StoreTypeOK
  /\ conversations \in [ConvIds -> ConversationRow \cup {NoConv}]
  /\ digest_queue \in SUBSET [message_id : MsgIds, queued_at : 0 .. MaxTime]
  /\ req \in [Handlers -> {Idle} \cup EarlyRequest \cup LateRequest]
  /\ now \in 0 .. MaxTime

(***************************************************************************)
(* Two users have one conversation, though two requests between them may   *)
(* both find none and both go on to insert one.                            *)
(***************************************************************************)
OneConversationPerPair ==
  \A c, d \in ConvIds : Exists(c) /\ Exists(d) =>
    \/ c = d
    \/ {conversations[c].user_a_id, conversations[c].user_b_id}
         # {conversations[d].user_a_id, conversations[d].user_b_id}

(***************************************************************************)
(* The three endpoints that filter deleted and revoked messages, each with *)
(* a condition of its own, show a user the same messages: what GET         *)
(* /messages lists is what GET /messages/:id returns, and the thread of    *)
(* two users is all that is listed between them, not a part of it.         *)
(***************************************************************************)
EndpointsAgree ==
  /\ \A u \in Users, m \in MsgIds :
       GetStatus(u, m) = "200" <=> m \in Listed(u, "all")
  /\ \A u, v \in Users, c \in ConvIds :
       Between(c, u, v) => Thread(u, c) = { m \in Listed(u, "all") : Parties(m) = {u, v} }

(***************************************************************************)
(* The comment in messages.js on the transaction: no message is ever       *)
(* unverifiable for want of a digest, and a digest has its message and its *)
(* time.                                                                   *)
(***************************************************************************)
EveryMessageQueued ==
  /\ \A m \in MsgIds : Stored(m) =>
       [message_id |-> m, queued_at |-> messages[m].sent_at] \in digest_queue
  /\ \A d, e \in digest_queue :
       /\ Stored(d.message_id)
       /\ d.message_id = e.message_id \/ d.queued_at = e.queued_at => d = e
=============================================================================
