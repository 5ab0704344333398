------------------------- MODULE MessageServerProofs -------------------------
(***************************************************************************)
(* The message handlers, for any users, any number of requests at a time   *)
(* and any ids: their invariants, that they implement the mailboxes of     *)
(* Mailbox, and that they feed the pipeline as DigestService assumes.      *)
(***************************************************************************)
EXTENDS MessageRefinement, TLAPS

(* The table constraints on conversations.                                 *)
PairInv ==
  /\ \A c \in ConvIds : Exists(c) => conversations[c].user_a_id < conversations[c].user_b_id
  /\ \A c, d \in ConvIds :
       /\ Exists(c)
       /\ Exists(d)
       /\ conversations[c].user_a_id = conversations[d].user_a_id
       /\ conversations[c].user_b_id = conversations[d].user_b_id
       => c = d

(* A request that has left the get-or-create holds its users' conversation *)
(* and every message is in the conversation of its two users.              *)
RequestInv ==
  \A h \in Handlers : req[h].pc \in {"begin", "touch", "commit"} =>
    Between(req[h].conv, req[h].from, req[h].to)

MessageInv ==
  \A m \in MsgIds : Stored(m) =>
    Between(messages[m].conversation_id, messages[m].sender_id, messages[m].recipient_id)

(* A revocation is of a message, by its sender.                            *)
RevocationInv ==
  \A r \in revocations :
    Stored(r.message_id) /\ r.revoked_by = messages[r.message_id].sender_id

(* The NOW() of every transaction, committed or open, is its own.          *)
ClockInv ==
  /\ \A h \in Handlers : req[h].pc \in {"touch", "commit"} =>
       /\ req[h].started <= now
       /\ \A d \in digest_queue : d.queued_at # req[h].started
       /\ \A g \in Handlers \ {h} :
            req[g].pc \in {"touch", "commit"} => req[g].started # req[h].started
  /\ \A d \in digest_queue : d.queued_at <= now

ServerInv ==
  /\ ServerTypeOK /\ PairInv /\ RequestInv /\ MessageInv /\ RevocationInv
  /\ ClockInv /\ EveryMessageQueued

-----------------------------------------------------------------------------
USE UsersAssumption, NoMessageAssumption, HandlerAssumption, NoConvAssumption

LEMMA StoredRow ==
  ASSUME ServerTypeOK, NEW m \in MsgIds, Stored(m)
  PROVE  messages[m] \in MessageRow
  BY DEF ServerTypeOK, StoreTypeOK, Stored

LEMMA ExistingRow ==
  ASSUME ServerTypeOK, NEW c \in ConvIds, Exists(c)
  PROVE  conversations[c] \in ConversationRow
  BY DEF ServerTypeOK, Exists

LEMMA RequestType ==
  ASSUME ServerTypeOK, NEW h \in Handlers
  PROVE  /\ req[h].pc \in {"select", "create"} => req[h] \in EarlyRequest
         /\ req[h].pc \in {"begin", "touch", "commit"} => req[h] \in LateRequest
  BY DEF ServerTypeOK, EarlyRequest, LateRequest, Idle

LEMMA NewMessageType ==
  ASSUME NEW c \in ConvIds, NEW u \in Users, NEW v \in Users, NEW t \in Nat,
         NEW o \in MsgIds \cup {NoMessage}
  PROVE  NewMessage(c, u, v, t, o) \in MessageRow
  BY DEF NewMessage, MessageRow

LEMMA FlagDeletedType ==
  ASSUME ServerTypeOK, NEW m \in MsgIds, Stored(m), NEW u
  PROVE  /\ FlagDeleted(u, m) \in MessageRow
         /\ FlagDeleted(u, m).conversation_id = messages[m].conversation_id
         /\ FlagDeleted(u, m).sender_id = messages[m].sender_id
         /\ FlagDeleted(u, m).recipient_id = messages[m].recipient_id
         /\ FlagDeleted(u, m).sent_at = messages[m].sent_at
  BY StoredRow DEF FlagDeleted, MessageRow

LEMMA ProceedType ==
  ASSUME NEW r \in EarlyRequest, NEW c \in ConvIds
  PROVE  [r EXCEPT !.pc = "begin", !.conv = c] \in LateRequest
  <1> DEFINE s == [r EXCEPT !.pc = "begin"]
  <1>1. s \in [pc : {"begin"}, from : Users, to : Users,
               original : MsgIds \cup {NoMessage}, conv : {NoConv}, started : 0 .. MaxTime]
    BY DEF EarlyRequest
  <1>2. [s EXCEPT !.conv = c] \in LateRequest
    BY <1>1 DEF LateRequest
  <1> QED
    BY <1>2

LEMMA SortedPairType ==
  ASSUME NEW u \in Users, NEW v \in Users
  PROVE  SortedPair(u, v) \in ConversationRow
  BY DEF SortedPair, ConversationRow

-----------------------------------------------------------------------------
LEMMA TypeInit == Init => ServerTypeOK
  BY DEF Init, StoreInit, ServerTypeOK, StoreTypeOK, Idle

(* The rows that MarkRead leaves.                                          *)
LEMMA MarkReadType ==
  ASSUME ServerTypeOK, NEW u \in Users, NEW c \in ConvIds, MarkRead(u, c)
  PROVE  /\ messages' \in [MsgIds -> MessageRow \cup {NoMessage}]
         /\ \A m \in MsgIds : ~Stored(m) => messages'[m] = NoMessage
         /\ \A m \in MsgIds : Stored(m) =>
              /\ messages'[m] \in MessageRow
              /\ messages'[m].conversation_id = messages[m].conversation_id
              /\ messages'[m].sender_id = messages[m].sender_id
              /\ messages'[m].recipient_id = messages[m].recipient_id
              /\ messages'[m].sent_at = messages[m].sent_at
              /\ messages'[m].deleted_by_sender = messages[m].deleted_by_sender
              /\ messages'[m].deleted_by_recipient = messages[m].deleted_by_recipient
  <1>1. ASSUME NEW m \in MsgIds, Stored(m)
        PROVE  [messages[m] EXCEPT !.read = TRUE] \in MessageRow
    BY <1>1, StoredRow DEF MessageRow
  <1>2. ASSUME NEW m \in MsgIds
        PROVE  messages'[m] = messages[m] \/ messages'[m] = [messages[m] EXCEPT !.read = TRUE]
    BY <1>2 DEF MarkRead
  <1>3. ASSUME NEW m \in MsgIds, ~Stored(m)
        PROVE  messages'[m] = NoMessage
    BY <1>3 DEF MarkRead, Stored
  <1>4. ASSUME NEW m \in MsgIds, Stored(m)
        PROVE  /\ messages'[m] \in MessageRow
               /\ messages'[m].conversation_id = messages[m].conversation_id
               /\ messages'[m].sender_id = messages[m].sender_id
               /\ messages'[m].recipient_id = messages[m].recipient_id
               /\ messages'[m].sent_at = messages[m].sent_at
               /\ messages'[m].deleted_by_sender = messages[m].deleted_by_sender
               /\ messages'[m].deleted_by_recipient = messages[m].deleted_by_recipient
    BY <1>1, <1>2, <1>4, StoredRow DEF MessageRow
  <1>5. messages' = [m \in MsgIds |-> messages'[m]]
    BY DEF MarkRead
  <1> QED
    BY <1>3, <1>4, <1>5

LEMMA TypeStep == ServerTypeOK /\ RequestInv /\ [Next]_vars => ServerTypeOK'
  <1> SUFFICES ASSUME ServerTypeOK, RequestInv, [Next]_vars PROVE ServerTypeOK'
    OBVIOUS
  <1>1. ASSUME NEW h \in Handlers, NEW u \in Users, NEW v \in Users, ReceiveSend(h, u, v)
        PROVE  ServerTypeOK'
    BY <1>1 DEF ReceiveSend, Accept, ServerTypeOK, StoreTypeOK, EarlyRequest
  <1>2. ASSUME NEW h \in Handlers, NEW u \in Users, NEW v \in Users, NEW m \in MsgIds,
               ReceiveForward(h, u, m, v)
        PROVE  ServerTypeOK'
    BY <1>2 DEF ReceiveForward, Accept, ServerTypeOK, StoreTypeOK, EarlyRequest
  <1>3. ASSUME NEW h \in Handlers, SelectConversation(h)
        PROVE  ServerTypeOK'
    <2>1. req[h] \in EarlyRequest
      BY <1>3, RequestType DEF SelectConversation
    <2>2. CASE \E c \in ConvIds : req' = [req EXCEPT ![h].pc = "begin", ![h].conv = c]
      <3>1. PICK c \in ConvIds : req' = [req EXCEPT ![h].pc = "begin", ![h].conv = c]
        BY <2>2
      <3>2. [req[h] EXCEPT !.pc = "begin", !.conv = c] \in LateRequest
        BY <2>1, ProceedType
      <3> QED
        BY <1>3, <3>1, <3>2 DEF SelectConversation, ServerTypeOK, StoreTypeOK
    <2>3. CASE req' = [req EXCEPT ![h].pc = "create"]
      <3>1. [req[h] EXCEPT !.pc = "create"] \in EarlyRequest
        BY <2>1 DEF EarlyRequest
      <3> QED
        BY <1>3, <2>3, <3>1 DEF SelectConversation, ServerTypeOK, StoreTypeOK
    <2> QED
      BY <1>3, <2>2, <2>3 DEF SelectConversation
  <1>4. ASSUME NEW h \in Handlers, InsertConversation(h)
        PROVE  ServerTypeOK'
    <2>1. req[h] \in EarlyRequest
      BY <1>4, RequestType DEF InsertConversation
    <2>2. PICK c \in ConvIds :
            /\ conversations' = [conversations EXCEPT ![c] = SortedPair(req[h].from, req[h].to)]
            /\ req' = [req EXCEPT ![h].pc = "begin", ![h].conv = c]
      BY <1>4 DEF InsertConversation
    <2>3. [req[h] EXCEPT !.pc = "begin", !.conv = c] \in LateRequest
      BY <2>1, ProceedType
    <2>4. SortedPair(req[h].from, req[h].to) \in ConversationRow
      BY <2>1, SortedPairType DEF EarlyRequest
    <2> QED
      BY <1>4, <2>2, <2>3, <2>4 DEF InsertConversation, ServerTypeOK, StoreTypeOK
  <1>5. ASSUME NEW h \in Handlers, Fail(h)
        PROVE  ServerTypeOK'
    BY <1>5 DEF Fail, ServerTypeOK, StoreTypeOK
  <1>6. ASSUME NEW h \in Handlers, BeginTransaction(h)
        PROVE  ServerTypeOK'
    <2>1. req[h] \in LateRequest
      BY <1>6, RequestType DEF BeginTransaction
    <2>2. now + 1 \in 0 .. MaxTime
      BY <1>6 DEF BeginTransaction, ServerTypeOK
    <2>3. [req[h] EXCEPT !.pc = "touch", !.started = now + 1] \in LateRequest
      BY <2>1, <2>2 DEF LateRequest
    <2> QED
      BY <1>6, <2>2, <2>3 DEF BeginTransaction, ServerTypeOK, StoreTypeOK
  <1>7. ASSUME NEW h \in Handlers, TouchConversation(h)
        PROVE  ServerTypeOK'
    <2>1. req[h] \in LateRequest
      BY <1>7, RequestType DEF TouchConversation
    <2>2. [req[h] EXCEPT !.pc = "commit"] \in LateRequest
      BY <2>1 DEF LateRequest
    <2> QED
      BY <1>7, <2>2 DEF TouchConversation, ServerTypeOK, StoreTypeOK
  <1>8. ASSUME NEW h \in Handlers, Commit(h)
        PROVE  ServerTypeOK'
    <2>1. req[h] \in LateRequest
      BY <1>8, RequestType DEF Commit
    <2>2. PICK m \in MsgIds :
            /\ messages' = [messages EXCEPT ![m] =
                 NewMessage(req[h].conv, req[h].from, req[h].to, req[h].started, req[h].original)]
            /\ digest_queue' = digest_queue \cup NewDigests(m, req[h])
      BY <1>8 DEF Commit
    <2>3. NewMessage(req[h].conv, req[h].from, req[h].to, req[h].started, req[h].original)
            \in MessageRow
      <3>1. /\ req[h].conv \in ConvIds /\ req[h].from \in Users /\ req[h].to \in Users
            /\ req[h].started \in Nat /\ req[h].original \in MsgIds \cup {NoMessage}
        BY <2>1 DEF LateRequest
      <3> QED
        BY <3>1, NewMessageType
    <2>4. StoreTypeOK'
      BY <1>8, <2>2, <2>3 DEF Commit, ServerTypeOK, StoreTypeOK
    <2>5. digest_queue' \in SUBSET [message_id : MsgIds, queued_at : 0 .. MaxTime]
      BY <2>1, <2>2 DEF ServerTypeOK, NewDigests, LateRequest
    <2>6. conversations' \in [ConvIds -> ConversationRow \cup {NoConv}]
      <3>1. req[h].conv \in ConvIds /\ req[h].started \in Nat
        BY <2>1 DEF LateRequest
      <3>2. conversations[req[h].conv] \in ConversationRow
        BY <1>8, <3>1, ExistingRow DEF Commit, RequestInv, Between
      <3>3. [conversations[req[h].conv] EXCEPT !.last_message_at = req[h].started]
              \in ConversationRow
        BY <3>1, <3>2 DEF ConversationRow
      <3> QED
        BY <1>8, <3>3 DEF Commit, ServerTypeOK
    <2> QED
      BY <1>8, <2>4, <2>5, <2>6 DEF Commit, ServerTypeOK
  <1>9. ASSUME NEW u \in Users, NEW c \in ConvIds, MarkRead(u, c)
        PROVE  ServerTypeOK'
    BY <1>9, MarkReadType DEF MarkRead, ServerTypeOK, StoreTypeOK
  <1>10. ASSUME NEW u \in Users, NEW m \in MsgIds, DeleteMessage(u, m)
         PROVE  ServerTypeOK'
    BY <1>10, FlagDeletedType DEF DeleteMessage, Delete, ServerTypeOK, StoreTypeOK
  <1>11. ASSUME NEW u \in Users, NEW m \in MsgIds, RevokeMessage(u, m)
         PROVE  ServerTypeOK'
    BY <1>11 DEF RevokeMessage, Revoke, ServerTypeOK, StoreTypeOK, Revocation
  <1>12. CASE UNCHANGED vars
    BY <1>12 DEF vars, ServerTypeOK, StoreTypeOK
  <1> QED
    BY <1>1, <1>2, <1>3, <1>4, <1>5, <1>6, <1>7, <1>8, <1>9, <1>10, <1>11, <1>12
    DEF Next, HandlerStep

-----------------------------------------------------------------------------
(* No handler changes the participants of a conversation or removes one.   *)
LEMMA ConversationsStay ==
  ASSUME ServerTypeOK, RequestInv, [Next]_vars, NEW c \in ConvIds, Exists(c)
  PROVE  /\ Exists(c)'
         /\ conversations'[c].user_a_id = conversations[c].user_a_id
         /\ conversations'[c].user_b_id = conversations[c].user_b_id
  <1>1. ASSUME NEW h \in Handlers, InsertConversation(h)
        PROVE  conversations'[c] = conversations[c]
    BY <1>1 DEF InsertConversation, ServerTypeOK
  <1>2. ASSUME NEW h \in Handlers, Commit(h)
        PROVE  /\ conversations'[c] \in ConversationRow
               /\ conversations'[c].user_a_id = conversations[c].user_a_id
               /\ conversations'[c].user_b_id = conversations[c].user_b_id
    <2>1. conversations[c] \in ConversationRow
      BY ExistingRow
    <2>2. req[h] \in LateRequest
      BY <1>2, RequestType DEF Commit
    <2>3. \/ conversations'[c] = conversations[c]
          \/ conversations'[c] = [conversations[c] EXCEPT !.last_message_at = req[h].started]
      BY <1>2 DEF Commit, ServerTypeOK
    <2>4. req[h].started \in Nat
      BY <2>2 DEF LateRequest
    <2> QED
      BY <2>1, <2>3, <2>4 DEF ConversationRow
  <1>3. conversations' = conversations \/ \E h \in Handlers : InsertConversation(h) \/ Commit(h)
    BY DEF Next, HandlerStep, ReceiveSend, ReceiveForward, SelectConversation, Fail,
           BeginTransaction, TouchConversation, MarkRead, DeleteMessage, RevokeMessage, vars
  <1> QED
    BY <1>1, <1>2, <1>3 DEF Exists

LEMMA BetweenStays ==
  ASSUME ServerTypeOK, RequestInv, [Next]_vars,
         NEW c \in ConvIds, NEW u, NEW v, Between(c, u, v)
  PROVE  Between(c, u, v)'
  BY ConversationsStay DEF Between

(* No handler removes a message or changes what identifies it.             *)
LEMMA MessagesStay ==
  ASSUME ServerTypeOK, [Next]_vars, NEW m \in MsgIds, Stored(m)
  PROVE  /\ Stored(m)'
         /\ messages'[m].conversation_id = messages[m].conversation_id
         /\ messages'[m].sender_id = messages[m].sender_id
         /\ messages'[m].recipient_id = messages[m].recipient_id
         /\ messages'[m].sent_at = messages[m].sent_at
  <1>1. ASSUME NEW h \in Handlers, Commit(h)
        PROVE  messages'[m] = messages[m]
    BY <1>1 DEF Commit, ServerTypeOK, StoreTypeOK
  <1>2. ASSUME NEW u \in Users, NEW n \in MsgIds, DeleteMessage(u, n)
        PROVE  messages'[m] = messages[m] \/ messages'[m] = FlagDeleted(u, m)
    BY <1>2 DEF DeleteMessage, Delete, ServerTypeOK, StoreTypeOK
  <1>3. \/ messages' = messages
        \/ \E h \in Handlers : Commit(h)
        \/ \E u \in Users, c \in ConvIds : MarkRead(u, c)
        \/ \E u \in Users, n \in MsgIds : DeleteMessage(u, n)
    BY DEF Next, HandlerStep, ReceiveSend, ReceiveForward, SelectConversation, Fail, Revoke,
           InsertConversation, BeginTransaction, TouchConversation, RevokeMessage, vars
  <1> QED
    BY <1>1, <1>2, <1>3, MarkReadType, FlagDeletedType DEF Stored

-----------------------------------------------------------------------------
LEMMA PairStep ==
  ServerTypeOK /\ RequestInv /\ PairInv /\ [Next]_vars => PairInv'
  <1> SUFFICES ASSUME ServerTypeOK, RequestInv, PairInv, [Next]_vars PROVE PairInv'
    OBVIOUS
  <1>1. ASSUME NEW h \in Handlers, InsertConversation(h) PROVE PairInv'
    <2> DEFINE row == SortedPair(req[h].from, req[h].to)
    <2>1. Insertable(row)
      BY <1>1 DEF InsertConversation
    <2>2. PICK c \in ConvIds : ~Exists(c) /\ conversations' = [conversations EXCEPT ![c] = row]
      BY <1>1 DEF InsertConversation
    <2> HIDE DEF row
    <2>3. \A d \in ConvIds : d # c => conversations'[d] = conversations[d]
      BY <2>2 DEF ServerTypeOK
    <2>4. conversations'[c] = row
      BY <2>2 DEF ServerTypeOK
    <2> QED
      BY <2>1, <2>2, <2>3, <2>4 DEF PairInv, Insertable, Exists
  <1>2. ASSUME ~\E h \in Handlers : InsertConversation(h) PROVE PairInv'
    <2>1. \A c \in ConvIds : ~Exists(c) => ~Exists(c)'
      <3>1. ASSUME NEW h \in Handlers, Commit(h), NEW c \in ConvIds, ~Exists(c)
            PROVE  ~Exists(c)'
        <4>1. Exists(req[h].conv)
          BY <3>1 DEF Commit, RequestInv, Between
        <4> QED
          BY <3>1, <4>1 DEF Commit, Exists, ServerTypeOK
      <3>2. conversations' = conversations \/ \E h \in Handlers : Commit(h)
        BY <1>2 DEF Next, HandlerStep, ReceiveSend, ReceiveForward, SelectConversation, Fail,
               BeginTransaction, TouchConversation, MarkRead, DeleteMessage, RevokeMessage, vars
      <3> QED
        BY <3>1, <3>2 DEF Exists
    <2> QED
      BY <2>1, ConversationsStay DEF PairInv
  <1> QED
    BY <1>1, <1>2

LEMMA RequestStep ==
  ServerTypeOK /\ RequestInv /\ [Next]_vars => RequestInv'
  <1> SUFFICES ASSUME ServerTypeOK, RequestInv, [Next]_vars, NEW g \in Handlers,
                      req'[g].pc \in {"begin", "touch", "commit"}
               PROVE  Between(req[g].conv, req[g].from, req[g].to)'
    BY DEF RequestInv
  <1>1. CASE \E h \in Handlers : SelectConversation(h)
    <2>1. PICK h \in Handlers : SelectConversation(h)
      BY <1>1
    <2>2. CASE g = h
      <3>1. PICK c \in ConvIds :
              /\ Between(c, req[h].from, req[h].to)
              /\ req' = [req EXCEPT ![h].pc = "begin", ![h].conv = c]
        BY <2>1, <2>2, RequestType DEF SelectConversation, ServerTypeOK, EarlyRequest
      <3>2. req[h] \in EarlyRequest
        BY <2>1, RequestType DEF SelectConversation
      <3>3. req'[h].conv = c /\ req'[h].from = req[h].from /\ req'[h].to = req[h].to
        BY <3>1, <3>2 DEF ServerTypeOK, EarlyRequest
      <3> QED
        BY <2>1, <2>2, <3>1, <3>3 DEF SelectConversation, Between, Exists
    <2>3. CASE g # h
      BY <2>1, <2>3 DEF SelectConversation, ServerTypeOK, RequestInv, Between, Exists
    <2> QED
      BY <2>2, <2>3
  <1>2. CASE \E h \in Handlers : InsertConversation(h)
    <2>1. PICK h \in Handlers : InsertConversation(h)
      BY <1>2
    <2>2. CASE g = h
      <3>1. PICK c \in ConvIds :
              /\ conversations' = [conversations EXCEPT ![c] = SortedPair(req[h].from, req[h].to)]
              /\ req' = [req EXCEPT ![h].pc = "begin", ![h].conv = c]
        BY <2>1 DEF InsertConversation
      <3>2. req[h] \in EarlyRequest
        BY <2>1, RequestType DEF InsertConversation
      <3>3. req'[h].conv = c /\ req'[h].from = req[h].from /\ req'[h].to = req[h].to
        BY <3>1, <3>2 DEF ServerTypeOK, EarlyRequest
      <3>4. conversations'[c] = SortedPair(req[h].from, req[h].to)
        BY <3>1 DEF ServerTypeOK
      <3>5. SortedPair(req[h].from, req[h].to) # NoConv
        BY <3>2, SortedPairType DEF EarlyRequest
      <3> QED
        BY <2>2, <3>3, <3>4, <3>5 DEF Between, Exists, SortedPair
    <2>3. CASE g # h
      <3>1. req'[g] = req[g]
        BY <2>1, <2>3 DEF InsertConversation, ServerTypeOK
      <3>2. Between(req[g].conv, req[g].from, req[g].to) /\ req[g].conv \in ConvIds
        BY <3>1, RequestType DEF RequestInv, LateRequest
      <3> QED
        BY <3>1, <3>2, BetweenStays DEF Between
    <2> QED
      BY <2>2, <2>3
  <1>3. CASE ~\E h \in Handlers : SelectConversation(h) \/ InsertConversation(h)
    <2>1. /\ req[g].pc \in {"begin", "touch", "commit"}
          /\ req'[g].conv = req[g].conv
          /\ req'[g].from = req[g].from
          /\ req'[g].to = req[g].to
      <3>1. ASSUME NEW h \in Handlers, BeginTransaction(h)
            PROVE  /\ req[g].pc \in {"begin", "touch", "commit"}
                   /\ req'[g].conv = req[g].conv
                   /\ req'[g].from = req[g].from
                   /\ req'[g].to = req[g].to
        <4>1. req[h] \in LateRequest
          BY <3>1, RequestType DEF BeginTransaction
        <4> QED
          BY <3>1, <4>1 DEF BeginTransaction, ServerTypeOK, LateRequest
      <3>2. ASSUME NEW h \in Handlers, TouchConversation(h)
            PROVE  /\ req[g].pc \in {"begin", "touch", "commit"}
                   /\ req'[g].conv = req[g].conv
                   /\ req'[g].from = req[g].from
                   /\ req'[g].to = req[g].to
        <4>1. req[h] \in LateRequest
          BY <3>2, RequestType DEF TouchConversation
        <4> QED
          BY <3>2, <4>1 DEF TouchConversation, ServerTypeOK, LateRequest
      <3>3. ASSUME NEW h \in Handlers, NEW u \in Users, NEW v \in Users,
                   NEW m \in MsgIds \cup {NoMessage}, Accept(h, u, v, m)
            PROVE  g # h /\ req'[g] = req[g]
        BY <3>3 DEF Accept, ServerTypeOK
      <3>4. ASSUME NEW h \in Handlers, req' = [req EXCEPT ![h] = Idle]
            PROVE  g # h /\ req'[g] = req[g]
        BY <3>4 DEF Idle, ServerTypeOK
      <3> QED
        BY <1>3, <3>1, <3>2, <3>3, <3>4
        DEF Next, HandlerStep, ReceiveSend, ReceiveForward, Fail, Commit, MarkRead,
            DeleteMessage, RevokeMessage, vars
    <2>2. Between(req[g].conv, req[g].from, req[g].to) /\ req[g].conv \in ConvIds
      BY <2>1, RequestType DEF RequestInv, LateRequest
    <2> QED
      BY <2>1, <2>2, BetweenStays DEF Between
  <1> QED
    BY <1>1, <1>2, <1>3

-----------------------------------------------------------------------------
(* What a commit does, to the one message it inserts.                      *)
LEMMA CommitEffect ==
  ASSUME ServerTypeOK, NEW h \in Handlers, Commit(h)
  PROVE  /\ req[h] \in LateRequest
         /\ \E m \in MsgIds :
              /\ ~Stored(m)
              /\ Stored(m)'
              /\ messages'[m] = NewMessage(req[h].conv, req[h].from, req[h].to,
                                           req[h].started, req[h].original)
              /\ \A k \in MsgIds \ {m} : messages'[k] = messages[k]
              /\ digest_queue' =
                   digest_queue \cup {[message_id |-> m, queued_at |-> req[h].started]}
  <1>1. req[h] \in LateRequest
    BY RequestType DEF Commit
  <1>2. NewMessage(req[h].conv, req[h].from, req[h].to, req[h].started, req[h].original)
          \in MessageRow
    <2>1. /\ req[h].conv \in ConvIds /\ req[h].from \in Users /\ req[h].to \in Users
          /\ req[h].started \in Nat /\ req[h].original \in MsgIds \cup {NoMessage}
      BY <1>1 DEF LateRequest
    <2> QED
      BY <2>1, NewMessageType
  <1>3. PICK m \in MsgIds :
          /\ ~Stored(m)
          /\ messages' = [messages EXCEPT ![m] =
               NewMessage(req[h].conv, req[h].from, req[h].to, req[h].started, req[h].original)]
          /\ digest_queue' = digest_queue \cup NewDigests(m, req[h])
    BY DEF Commit
  <1>4. messages'[m] # NoMessage
    BY <1>2, <1>3 DEF ServerTypeOK, StoreTypeOK
  <1> QED
    BY <1>1, <1>3, <1>4 DEF ServerTypeOK, StoreTypeOK, NewDigests, Stored

(* A message that no commit inserts is not there afterwards.               *)
LEMMA OnlyCommitsStore ==
  ASSUME ServerTypeOK, [Next]_vars, NEW m \in MsgIds, ~Stored(m), Stored(m)'
  PROVE  \E h \in Handlers : Commit(h)
  <1>1. ASSUME NEW u \in Users, NEW n \in MsgIds, DeleteMessage(u, n)
        PROVE  messages'[m] = messages[m]
    BY <1>1 DEF DeleteMessage, Delete, ServerTypeOK, StoreTypeOK
  <1>2. ASSUME NEW u \in Users, NEW c \in ConvIds, MarkRead(u, c)
        PROVE  messages'[m] = messages[m]
    BY <1>2, MarkReadType DEF Stored
  <1> QED
    BY <1>1, <1>2
    DEF Next, HandlerStep, ReceiveSend, ReceiveForward, SelectConversation, Fail, Revoke,
        InsertConversation, BeginTransaction, TouchConversation, RevokeMessage, vars, Stored

LEMMA MessageStep ==
  ServerTypeOK /\ RequestInv /\ MessageInv /\ [Next]_vars => MessageInv'
  <1> SUFFICES ASSUME ServerTypeOK, RequestInv, MessageInv, [Next]_vars,
                      NEW m \in MsgIds, Stored(m)'
               PROVE  Between(messages[m].conversation_id, messages[m].sender_id,
                              messages[m].recipient_id)'
    BY DEF MessageInv
  <1>1. CASE Stored(m)
    <2>1. messages[m].conversation_id \in ConvIds
      BY <1>1, StoredRow DEF MessageRow
    <2>2. Between(messages[m].conversation_id, messages[m].sender_id, messages[m].recipient_id)
      BY <1>1 DEF MessageInv
    <2> QED
      BY <1>1, <2>1, <2>2, BetweenStays, MessagesStay DEF Between
  <1>2. CASE ~Stored(m)
    <2>1. PICK h \in Handlers : Commit(h)
      BY <1>2, OnlyCommitsStore
    <2>2. messages'[m] = NewMessage(req[h].conv, req[h].from, req[h].to,
                                    req[h].started, req[h].original)
      BY <1>2, <2>1, CommitEffect DEF Stored
    <2>3. Between(req[h].conv, req[h].from, req[h].to) /\ req[h].conv \in ConvIds
      BY <2>1, CommitEffect DEF RequestInv, LateRequest, Commit
    <2>4. /\ messages'[m].conversation_id = req[h].conv
          /\ messages'[m].sender_id = req[h].from
          /\ messages'[m].recipient_id = req[h].to
      BY <2>2 DEF NewMessage
    <2> QED
      BY <2>3, <2>4, BetweenStays DEF Between
  <1> QED
    BY <1>1, <1>2

LEMMA RevocationStep ==
  ServerTypeOK /\ RevocationInv /\ [Next]_vars => RevocationInv'
  <1> SUFFICES ASSUME ServerTypeOK, RevocationInv, [Next]_vars, NEW r \in revocations'
               PROVE  Stored(r.message_id)' /\ r.revoked_by = messages'[r.message_id].sender_id
    BY DEF RevocationInv
  <1>1. CASE r \in revocations
    <2>1. r.message_id \in MsgIds
      BY <1>1 DEF ServerTypeOK, StoreTypeOK, Revocation
    <2> QED
      BY <1>1, <2>1, MessagesStay DEF RevocationInv
  <1>2. CASE r \notin revocations
    <2>1. PICK u \in Users, m \in MsgIds : RevokeMessage(u, m)
      BY <1>2 DEF Next, HandlerStep, ReceiveSend, ReceiveForward, SelectConversation, Fail,
           InsertConversation, BeginTransaction, TouchConversation, Commit, MarkRead,
           DeleteMessage, Delete, vars
    <2>2. r = [message_id |-> m, revoked_by |-> u]
      BY <1>2, <2>1 DEF RevokeMessage, Revoke
    <2> QED
      BY <2>1, <2>2 DEF RevokeMessage, Revoke, MayRevoke, Stored
  <1> QED
    BY <1>1, <1>2

-----------------------------------------------------------------------------
(* Only BeginTransaction reads the clock, only Commit queues a digest.     *)
LEMMA ClockStep ==
  ServerTypeOK /\ ClockInv /\ [Next]_vars => ClockInv'
  <1> SUFFICES ASSUME ServerTypeOK, ClockInv, [Next]_vars PROVE ClockInv'
    OBVIOUS
  <1> DEFINE Open(g) == req[g].pc \in {"touch", "commit"}
  <1>1. ASSUME NEW h \in Handlers, BeginTransaction(h) PROVE ClockInv'
    <2>1. req[h] \in LateRequest
      BY <1>1, RequestType DEF BeginTransaction
    <2>2. req'[h].started = now + 1 /\ \A g \in Handlers \ {h} : req'[g] = req[g]
      BY <1>1, <2>1 DEF BeginTransaction, ServerTypeOK, LateRequest
    <2>3. /\ now \in Nat /\ now' = now + 1 /\ digest_queue' = digest_queue
          /\ \A d \in digest_queue : d.queued_at \in Nat
          /\ \A g \in Handlers : Open(g) => req[g].started \in Nat
      BY <1>1, RequestType DEF BeginTransaction, ServerTypeOK, LateRequest
    <2> QED
      BY <2>2, <2>3 DEF ClockInv
  <1>2. ASSUME NEW h \in Handlers, Commit(h) PROVE ClockInv'
    <2>1. PICK m \in MsgIds :
            digest_queue' = digest_queue \cup {[message_id |-> m, queued_at |-> req[h].started]}
      BY <1>2, CommitEffect
    <2>2. /\ now' = now /\ Open(h) /\ req'[h].pc = "idle"
          /\ \A g \in Handlers \ {h} : req'[g] = req[g]
      BY <1>2 DEF Commit, ServerTypeOK, Idle
    <2> QED
      BY <2>1, <2>2 DEF ClockInv
  <1>3. ASSUME NEW h \in Handlers, TouchConversation(h) PROVE ClockInv'
    <2>1. req[h] \in LateRequest
      BY <1>3, RequestType DEF TouchConversation
    <2>2. /\ Open(h) /\ req'[h].started = req[h].started
          /\ \A g \in Handlers \ {h} : req'[g] = req[g]
          /\ now' = now /\ digest_queue' = digest_queue
      BY <1>3, <2>1 DEF TouchConversation, ServerTypeOK, LateRequest
    <2> QED
      BY <2>2 DEF ClockInv
  <1>4. ASSUME \A h \in Handlers : ~(BeginTransaction(h) \/ Commit(h) \/ TouchConversation(h))
        PROVE  ClockInv'
    <2>1. now' = now /\ digest_queue' = digest_queue
      BY <1>4 DEF Next, HandlerStep, ReceiveSend, ReceiveForward, SelectConversation, Fail,
             InsertConversation, MarkRead, DeleteMessage, RevokeMessage, vars
    <2>2. \A g \in Handlers : req'[g] = req[g] \/ req'[g].pc \notin {"touch", "commit"}
      <3>1. ASSUME NEW h \in Handlers, NEW u \in Users, NEW v \in Users,
                   NEW m \in MsgIds \cup {NoMessage}, Accept(h, u, v, m)
            PROVE  req'[h].pc = "select" /\ \A g \in Handlers \ {h} : req'[g] = req[g]
        BY <3>1 DEF Accept, ServerTypeOK
      <3>2. ASSUME NEW h \in Handlers, Fail(h)
            PROVE  req'[h].pc = "idle" /\ \A g \in Handlers \ {h} : req'[g] = req[g]
        BY <3>2 DEF Fail, ServerTypeOK, Idle
      <3>3. ASSUME NEW h \in Handlers, SelectConversation(h) \/ InsertConversation(h)
            PROVE  /\ req'[h].pc \notin {"touch", "commit"}
                   /\ \A g \in Handlers \ {h} : req'[g] = req[g]
        <4>1. req[h] \in EarlyRequest
          BY <3>3, RequestType DEF SelectConversation, InsertConversation
        <4> QED
          BY <3>3, <4>1 DEF SelectConversation, InsertConversation, ServerTypeOK, EarlyRequest
      <3> QED
        BY <1>4, <3>1, <3>2, <3>3 DEF Next, HandlerStep, ReceiveSend, ReceiveForward,
           MarkRead, DeleteMessage, RevokeMessage, vars
    <2> QED
      BY <2>1, <2>2 DEF ClockInv
  <1> QED
    BY <1>1, <1>2, <1>3, <1>4

LEMMA QueueStep ==
  ServerTypeOK /\ ClockInv /\ EveryMessageQueued /\ [Next]_vars => EveryMessageQueued'
  <1> SUFFICES ASSUME ServerTypeOK, ClockInv, EveryMessageQueued, [Next]_vars
               PROVE  EveryMessageQueued'
    OBVIOUS
  <1>1. ASSUME NEW h \in Handlers, Commit(h) PROVE EveryMessageQueued'
    <2>1. PICK m \in MsgIds :
            /\ ~Stored(m)
            /\ Stored(m)'
            /\ messages'[m] = NewMessage(req[h].conv, req[h].from, req[h].to,
                                         req[h].started, req[h].original)
            /\ \A k \in MsgIds \ {m} : messages'[k] = messages[k]
            /\ digest_queue' =
                 digest_queue \cup {[message_id |-> m, queued_at |-> req[h].started]}
      BY <1>1, CommitEffect
    <2>2. \A d \in digest_queue : d.message_id \in MsgIds /\ d.queued_at # req[h].started
      BY <1>1 DEF ClockInv, Commit, ServerTypeOK
    <2>3. \A k \in MsgIds : Stored(k)' =>
            [message_id |-> k, queued_at |-> messages'[k].sent_at] \in digest_queue'
      BY <2>1 DEF EveryMessageQueued, Stored, NewMessage
    <2>4. \A d \in digest_queue' : Stored(d.message_id)'
      BY <2>1, <2>2 DEF EveryMessageQueued, Stored
    <2>5. \A d, e \in digest_queue' :
            d.message_id = e.message_id \/ d.queued_at = e.queued_at => d = e
      BY <2>1, <2>2 DEF EveryMessageQueued
    <2> QED
      BY <2>3, <2>4, <2>5 DEF EveryMessageQueued
  <1>2. ASSUME \A h \in Handlers : ~Commit(h) PROVE EveryMessageQueued'
    <2>1. digest_queue' = digest_queue
      BY <1>2 DEF Next, HandlerStep, ReceiveSend, ReceiveForward, SelectConversation, Fail,
             InsertConversation, BeginTransaction, TouchConversation, MarkRead,
             DeleteMessage, RevokeMessage, vars
    <2>2. \A d \in digest_queue : d.message_id \in MsgIds
      BY DEF ServerTypeOK
    <2>3. \A k \in MsgIds : Stored(k)' => Stored(k)
      BY <1>2, OnlyCommitsStore
    <2> QED
      BY <2>1, <2>2, <2>3, MessagesStay DEF EveryMessageQueued
  <1> QED
    BY <1>1, <1>2

LEMMA ServerInvariance == Spec => []ServerInv
  <1>1. Init => ServerInv
    <2> SUFFICES ASSUME Init PROVE ServerInv
      OBVIOUS
    <2>1. PairInv /\ RequestInv /\ MessageInv /\ RevocationInv /\ ClockInv /\ EveryMessageQueued
      BY DEF Init, StoreInit, PairInv, RequestInv, MessageInv, RevocationInv, ClockInv,
             EveryMessageQueued, Exists, Stored, Idle
    <2> QED
      BY <2>1, TypeInit DEF ServerInv
  <1>2. ServerInv /\ [Next]_vars => ServerInv'
    BY TypeStep, PairStep, RequestStep, MessageStep, RevocationStep, ClockStep, QueueStep
    DEF ServerInv
  <1> QED
    BY <1>1, <1>2, PTL DEF Spec

(***************************************************************************)
(* Every table of the message handlers holds rows of its type, and every   *)
(* handler past its get-or-create holds a conversation, whatever runs at   *)
(* the same time and whenever a connection is lost.                        *)
(***************************************************************************)
THEOREM ServerTypeCorrectness == Spec => []ServerTypeOK
  <1>1. ServerInv => ServerTypeOK
    BY DEF ServerInv
  <1> QED
    BY <1>1, ServerInvariance, PTL

LEMMA OnePair == ServerInv => OneConversationPerPair
  <1> SUFFICES ASSUME ServerInv, NEW c \in ConvIds, NEW d \in ConvIds, Exists(c), Exists(d),
                      {conversations[c].user_a_id, conversations[c].user_b_id}
                        = {conversations[d].user_a_id, conversations[d].user_b_id}
               PROVE  c = d
    BY DEF OneConversationPerPair
  <1>1. /\ conversations[c].user_a_id \in Nat /\ conversations[c].user_b_id \in Nat
        /\ conversations[d].user_a_id \in Nat /\ conversations[d].user_b_id \in Nat
    BY ExistingRow DEF ServerInv, ConversationRow
  <1>2. /\ conversations[c].user_a_id < conversations[c].user_b_id
        /\ conversations[d].user_a_id < conversations[d].user_b_id
    BY DEF ServerInv, PairInv
  <1>3. /\ conversations[c].user_a_id = conversations[d].user_a_id
        /\ conversations[c].user_b_id = conversations[d].user_b_id
    BY <1>1, <1>2
  <1> QED
    BY <1>3 DEF ServerInv, PairInv

(***************************************************************************)
(* Two users never get two conversations, however many requests between    *)
(* them pass the SELECT of messages.js:37 before one of them inserts.      *)
(***************************************************************************)
THEOREM PairsHaveOneConversation == Spec => []OneConversationPerPair
  BY OnePair, ServerInvariance, PTL

(***************************************************************************)
(* A committed message has its digest in the queue, and a queued digest    *)
(* its message and a time of its own.                                      *)
(***************************************************************************)
THEOREM MessagesAreQueued == Spec => []EveryMessageQueued
  <1>1. ServerInv => EveryMessageQueued
    BY DEF ServerInv
  <1> QED
    BY <1>1, ServerInvariance, PTL

-----------------------------------------------------------------------------
(* The sender and the recipient of a message are two users.                *)
LEMMA TwoParties ==
  ASSUME ServerInv, NEW m \in MsgIds, Stored(m)
  PROVE  /\ messages[m].sender_id \in Users
         /\ messages[m].recipient_id \in Users
         /\ messages[m].sender_id # messages[m].recipient_id
  <1>1. messages[m] \in MessageRow
    BY StoredRow DEF ServerInv
  <1>2. Between(messages[m].conversation_id, messages[m].sender_id, messages[m].recipient_id)
    BY DEF ServerInv, MessageInv
  <1>3. conversations[messages[m].conversation_id].user_a_id
          < conversations[messages[m].conversation_id].user_b_id
    BY <1>1, <1>2 DEF ServerInv, PairInv, Between, MessageRow
  <1>4. \A n \in Users : ~(n < n)
    BY DEF ServerInv
  <1> QED
    BY <1>1, <1>2, <1>3, <1>4 DEF Between, MessageRow

(***************************************************************************)
(* The list, the single message and the thread of two users show a user    *)
(* the same messages: the three WHERE clauses and the tests of GET         *)
(* /messages/:id say the same thing.                                       *)
(***************************************************************************)
THEOREM ViewsAgree == Spec => []EndpointsAgree
  <1>1. ServerInv => EndpointsAgree
    <2> SUFFICES ASSUME ServerInv PROVE EndpointsAgree
      OBVIOUS
    <2>1. ASSUME NEW u \in Users, NEW m \in MsgIds
          PROVE  GetStatus(u, m) = "200" <=> m \in Listed(u, "all")
      <3>1. CASE ~Stored(m)
        BY <3>1 DEF GetStatus, Listed
      <3>2. CASE Stored(m)
        BY <3>2 DEF GetStatus, Listed, Parties, InBox, DeletedFor
      <3> QED
        BY <3>1, <3>2
    <2>2. ASSUME NEW u \in Users, NEW v \in Users, NEW c \in ConvIds, Between(c, u, v)
          PROVE  Thread(u, c) = { m \in Listed(u, "all") : Parties(m) = {u, v} }
      <3>1. ASSUME NEW m \in MsgIds, Stored(m)
            PROVE  messages[m].conversation_id = c <=> Parties(m) = {u, v}
        <4>1. messages[m].conversation_id \in ConvIds
          BY <3>1, StoredRow DEF ServerInv, MessageRow
        <4>2. Between(messages[m].conversation_id, messages[m].sender_id, messages[m].recipient_id)
          BY <3>1 DEF ServerInv, MessageInv
        <4>3. OneConversationPerPair
          BY OnePair
        <4> DEFINE d == messages[m].conversation_id
        <4>4. Parties(m) = {conversations[d].user_a_id, conversations[d].user_b_id}
          BY <4>2 DEF Between, Parties
        <4>5. {u, v} = {conversations[c].user_a_id, conversations[c].user_b_id}
          BY <2>2 DEF Between
        <4>6. Exists(c) /\ Exists(d)
          BY <2>2, <4>2 DEF Between
        <4> QED
          BY <4>1, <4>3, <4>4, <4>5, <4>6 DEF OneConversationPerPair
      <3> QED
        BY <3>1 DEF Thread, Listed, InBox, Parties
    <2> QED
      BY <2>1, <2>2 DEF EndpointsAgree
  <1> QED
    BY <1>1, ServerInvariance, PTL

-----------------------------------------------------------------------------
(* What a box shows, in terms of the row: the sender and the recipient are *)
(* two users, so each has a flag of their own.                             *)
Distinct ==
  \A m \in MsgIds : Stored(m) =>
    /\ messages[m].sender_id \in Users
    /\ messages[m].recipient_id \in Users
    /\ messages[m].sender_id # messages[m].recipient_id

BoxesShow ==
  \A u \in Users, m \in MsgIds :
    m \in Box[u] <=>
      /\ Stored(m)
      /\ ~Revoked(m)
      /\ \/ messages[m].sender_id = u    /\ ~messages[m].deleted_by_sender
         \/ messages[m].recipient_id = u /\ ~messages[m].deleted_by_recipient

ViewInv == ServerInv /\ Distinct /\ BoxesShow

LEMMA ViewInvariance == Spec => []ViewInv
  <1>1. ServerInv => Distinct
    BY TwoParties DEF Distinct
  <1>2. Distinct => BoxesShow
    BY DEF Distinct, BoxesShow, Box, Listed, InBox
  <1> QED
    BY <1>1, <1>2, ServerInvariance, PTL DEF ViewInv

(* A commit delivers its message to its two users.                         *)
LEMMA CommitDelivers ==
  ASSUME ViewInv, ViewInv', NEW h \in Handlers, Commit(h)
  PROVE  \E m \in MsgIds : M!Deliver(m, req[h].from, req[h].to)
  <1>0. ServerInv /\ Distinct /\ BoxesShow /\ Distinct' /\ BoxesShow'
    BY DEF ViewInv
  <1> DEFINE from == req[h].from
             to   == req[h].to
  <1>1. PICK m \in MsgIds :
          /\ ~Stored(m)
          /\ Stored(m)'
          /\ messages'[m] = NewMessage(req[h].conv, from, to, req[h].started, req[h].original)
          /\ \A k \in MsgIds \ {m} : messages'[k] = messages[k]
    BY <1>0, CommitEffect DEF ServerInv
  <1>2. messages'[m].sender_id = from /\ messages'[m].recipient_id = to
    BY <1>1 DEF NewMessage
  <1>3. ~messages'[m].deleted_by_sender /\ ~messages'[m].deleted_by_recipient
    BY <1>1 DEF NewMessage
  <1>4. from \in Users /\ to \in Users /\ from # to
    BY <1>0, <1>1, <1>2 DEF Distinct
  <1>5. revocations' = revocations
    BY DEF Commit
  <1>6. ~Revoked(m) /\ \A k \in MsgIds : Revoked(k)' <=> Revoked(k)
    BY <1>0, <1>1, <1>5 DEF Revoked, ServerInv, RevocationInv
  <1>7. Author[m] = NoMessage
    BY <1>1 DEF Author
  <1>8. Author' = [Author EXCEPT ![m] = from]
    BY <1>1, <1>2 DEF Author, Stored
  <1>9. Box' = [u \in Users |-> IF u \in {from, to} THEN Box[u] \cup {m} ELSE Box[u]]
    <2>1. ASSUME NEW u \in Users, NEW k \in MsgIds
          PROVE  k \in Box'[u] <=> k \in Box[u] \/ (k = m /\ u \in {from, to})
      <3>1. CASE k = m
        <4>1. m \notin Box[u]
          BY <1>0, <1>1 DEF BoxesShow
        <4>2. m \in Box'[u] <=>
                /\ Stored(m)'
                /\ ~Revoked(m)'
                /\ \/ messages'[m].sender_id = u    /\ ~messages'[m].deleted_by_sender
                   \/ messages'[m].recipient_id = u /\ ~messages'[m].deleted_by_recipient
          BY <1>0 DEF BoxesShow
        <4>3. m \in Box'[u] <=> u = from \/ u = to
          BY <1>1, <1>2, <1>3, <1>6, <4>2
        <4> QED
          BY <3>1, <4>1, <4>3
      <3>2. CASE k # m
        <4>1. /\ messages'[k] = messages[k]
              /\ Revoked(k)' <=> Revoked(k)
              /\ Stored(k)' <=> Stored(k)
          BY <1>1, <1>6, <3>2 DEF Stored
        <4>2. k \in Box'[u] <=> k \in Box[u]
          BY <1>0, <4>1 DEF BoxesShow
        <4> QED
          BY <3>2, <4>2
      <3> QED
        BY <3>1, <3>2
    <2>2. \A u \in Users : Box[u] \subseteq MsgIds /\ Box'[u] \subseteq MsgIds
      BY DEF Box, Listed
    <2>3. Box' = [u \in Users |-> Box'[u]]
      BY DEF Box
    <2>4. \A u \in Users : Box'[u] = IF u \in {from, to} THEN Box[u] \cup {m} ELSE Box[u]
      BY <2>1, <2>2
    <2> QED
      BY <2>3, <2>4
  <1>10. Recalled' = Recalled
    BY <1>5 DEF Recalled
  <1> QED
    BY <1>4, <1>7, <1>8, <1>9, <1>10 DEF M!Deliver

(* A deletion takes the message out of the caller's box, if it is there.   *)
LEMMA DeleteDiscards ==
  ASSUME ViewInv, ViewInv', NEW u \in Users, NEW m \in MsgIds, DeleteMessage(u, m)
  PROVE  M!Discard(m, u) \/ UNCHANGED M!mailVars
  <1>0. ServerInv /\ Distinct /\ BoxesShow /\ Distinct' /\ BoxesShow'
    BY DEF ViewInv
  <1>1. /\ Stored(m) /\ u \in Parties(m) /\ revocations' = revocations
        /\ messages' = [messages EXCEPT ![m] = FlagDeleted(u, m)]
    BY DEF DeleteMessage, Delete
  <1>2. messages[m] \in MessageRow /\ messages'[m] = FlagDeleted(u, m)
    BY <1>0, <1>1, StoredRow DEF ServerInv, ServerTypeOK, StoreTypeOK
  <1>3. \A k \in MsgIds \ {m} : messages'[k] = messages[k]
    BY <1>0, <1>1 DEF ServerInv, ServerTypeOK, StoreTypeOK
  <1>4. /\ messages'[m].sender_id = messages[m].sender_id
        /\ messages'[m].recipient_id = messages[m].recipient_id
        /\ Stored(m)'
    BY <1>0, <1>1, <1>2, FlagDeletedType DEF ServerInv, Stored
  <1>5. /\ messages'[m].deleted_by_sender
             = (messages[m].deleted_by_sender \/ u = messages[m].sender_id)
        /\ messages'[m].deleted_by_recipient
             = (messages[m].deleted_by_recipient \/ u # messages[m].sender_id)
    <2>1. CASE u = messages[m].sender_id
      BY <1>2, <2>1 DEF FlagDeleted, MessageRow
    <2>2. CASE u # messages[m].sender_id
      BY <1>2, <2>2 DEF FlagDeleted, MessageRow
    <2> QED
      BY <2>1, <2>2
  <1>6. \A k \in MsgIds : Revoked(k)' <=> Revoked(k)
    BY <1>1 DEF Revoked
  <1>7. Author' = Author
    BY <1>1, <1>3, <1>4 DEF Author, Stored
  <1>8. Recalled' = Recalled
    BY <1>1 DEF Recalled
  <1>9. Box' = [Box EXCEPT ![u] = Box[u] \ {m}]
    <2>1. ASSUME NEW v \in Users, NEW k \in MsgIds
          PROVE  k \in Box'[v] <=> k \in Box[v] /\ ~(k = m /\ v = u)
      <3>1. CASE k = m
        <4>1. messages[m].sender_id # messages[m].recipient_id
          BY <1>0, <1>1 DEF Distinct
        <4>2. u = messages[m].sender_id \/ u = messages[m].recipient_id
          BY <1>1 DEF Parties
        <4>3. m \in Box[v] <=>
                /\ ~Revoked(m)
                /\ \/ messages[m].sender_id = v    /\ ~messages[m].deleted_by_sender
                   \/ messages[m].recipient_id = v /\ ~messages[m].deleted_by_recipient
          BY <1>0, <1>1 DEF BoxesShow
        <4>4. m \in Box'[v] <=>
                /\ ~Revoked(m)
                /\ \/ /\ messages[m].sender_id = v
                      /\ ~(messages[m].deleted_by_sender \/ u = messages[m].sender_id)
                   \/ /\ messages[m].recipient_id = v
                      /\ ~(messages[m].deleted_by_recipient \/ u # messages[m].sender_id)
          <5>1. m \in Box'[v] <=>
                  /\ Stored(m)'
                  /\ ~Revoked(m)'
                  /\ \/ messages'[m].sender_id = v    /\ ~messages'[m].deleted_by_sender
                     \/ messages'[m].recipient_id = v /\ ~messages'[m].deleted_by_recipient
            BY <1>0 DEF BoxesShow
          <5> QED
            BY <1>4, <1>5, <1>6, <5>1
        <4> QED
          BY <3>1, <4>1, <4>2, <4>3, <4>4
      <3>2. CASE k # m
        BY <1>0, <1>3, <1>6, <3>2 DEF BoxesShow, Stored
      <3> QED
        BY <3>1, <3>2
    <2>2. \A v \in Users : Box[v] \subseteq MsgIds /\ Box'[v] \subseteq MsgIds
      BY DEF Box, Listed
    <2>3. \A v \in Users : Box'[v] = IF v = u THEN Box[u] \ {m} ELSE Box[v]
      BY <2>1, <2>2
    <2>4. Box' = [v \in Users |-> Box'[v]] /\ Box = [v \in Users |-> Box[v]]
      BY DEF Box
    <2> QED
      BY <2>3, <2>4
  <1>10. CASE m \in Box[u]
    BY <1>7, <1>8, <1>9, <1>10 DEF M!Discard
  <1>11. CASE m \notin Box[u]
    <2>1. Box' = Box
      BY <1>9, <1>11 DEF Box
    <2> QED
      BY <1>7, <1>8, <2>1 DEF M!mailVars
  <1> QED
    BY <1>10, <1>11

(* A first revocation recalls its message, a second one does nothing.      *)
LEMMA RevokeRecalls ==
  ASSUME ViewInv, ViewInv', NEW u \in Users, NEW m \in MsgIds, RevokeMessage(u, m)
  PROVE  M!Recall(m) \/ UNCHANGED M!mailVars
  <1>0. ServerInv /\ Distinct /\ BoxesShow /\ Distinct' /\ BoxesShow'
    BY DEF ViewInv
  <1>1. Stored(m) /\ messages[m].sender_id = u /\ messages' = messages
    BY DEF RevokeMessage, Revoke, MayRevoke
  <1>2. Author' = Author /\ Author[m] = u /\ u # NoMessage
    BY <1>1 DEF Author, Stored
  <1>3. CASE Revoked(m)
    <2>1. revocations' = revocations
      BY <1>3 DEF RevokeMessage, Revoke
    <2>2. Box' = Box /\ Recalled' = Recalled
      BY <1>1, <2>1 DEF Box, Listed, InBox, Stored, Revoked, Recalled
    <2> QED
      BY <1>2, <2>2 DEF M!mailVars
  <1>4. CASE ~Revoked(m)
    <2>1. revocations' = revocations \cup {[message_id |-> m, revoked_by |-> u]}
      BY <1>4 DEF RevokeMessage, Revoke
    <2>2. \A call \in Recalled : call[1] # m
      BY <1>4 DEF Recalled, Revoked
    <2>3. Recalled' = Recalled \cup {<<m, u>>}
      <3> DEFINE r == [message_id |-> m, revoked_by |-> u]
      <3>1. revocations' = revocations \cup {r} /\ r.message_id = m /\ r.revoked_by = u
        BY <2>1
      <3> HIDE DEF r
      <3> QED
        BY <3>1 DEF Recalled
    <2>4. \A k \in MsgIds : Revoked(k)' <=> Revoked(k) \/ k = m
      <3> DEFINE r == [message_id |-> m, revoked_by |-> u]
      <3>1. revocations' = revocations \cup {r} /\ r.message_id = m
        BY <2>1
      <3> HIDE DEF r
      <3> QED
        BY <3>1 DEF Revoked
    <2>5. \A v \in Users : Box'[v] = Box[v] \ {m}
      BY <1>1, <2>4 DEF Box, Listed, InBox, Stored
    <2>6. Box' = [v \in Users |-> Box'[v]]
      BY DEF Box
    <2>7. Box' = [v \in Users |-> Box[v] \ {m}]
      BY <2>5, <2>6
    <2> QED
      BY <1>2, <2>2, <2>3, <2>7 DEF M!Recall
  <1> QED
    BY <1>3, <1>4

(* Nothing else changes what a user is shown.                              *)
LEMMA OthersStutter ==
  ASSUME ViewInv, ViewInv', [Next]_vars,
         \A h \in Handlers : ~Commit(h),
         \A u \in Users, m \in MsgIds : ~DeleteMessage(u, m) /\ ~RevokeMessage(u, m)
  PROVE  UNCHANGED M!mailVars
  <1>0. ServerInv /\ Distinct /\ BoxesShow /\ Distinct' /\ BoxesShow'
    BY DEF ViewInv
  <1>1. ASSUME NEW u \in Users, NEW c \in ConvIds, MarkRead(u, c)
        PROVE  UNCHANGED M!mailVars
    <2>1. revocations' = revocations
      BY <1>1 DEF MarkRead
    <2>2. \A m \in MsgIds :
            /\ Stored(m)' <=> Stored(m)
            /\ Stored(m) =>
                 /\ messages'[m].sender_id = messages[m].sender_id
                 /\ messages'[m].recipient_id = messages[m].recipient_id
                 /\ messages'[m].deleted_by_sender = messages[m].deleted_by_sender
                 /\ messages'[m].deleted_by_recipient = messages[m].deleted_by_recipient
      BY <1>0, <1>1, MarkReadType, StoredRow DEF ServerInv, Stored
    <2>3. Author' = Author /\ Recalled' = Recalled
      BY <2>1, <2>2 DEF Author, Recalled
    <2>4. \A v \in Users, m \in MsgIds : m \in Box'[v] <=> m \in Box[v]
      BY <1>0, <2>1, <2>2 DEF BoxesShow, Revoked
    <2>5. \A v \in Users : Box[v] \subseteq MsgIds /\ Box'[v] \subseteq MsgIds
      BY DEF Box, Listed
    <2>6. Box' = [v \in Users |-> Box'[v]] /\ Box = [v \in Users |-> Box[v]]
      BY DEF Box
    <2>7. Box' = Box
      BY <2>4, <2>5, <2>6
    <2> QED
      BY <2>3, <2>7 DEF M!mailVars
  <1>2. ASSUME messages' = messages, revocations' = revocations
        PROVE  UNCHANGED M!mailVars
    BY <1>2 DEF M!mailVars, Box, Author, Recalled, Listed, InBox, Stored, Revoked
  <1> QED
    BY <1>1, <1>2 DEF Next, HandlerStep, ReceiveSend, ReceiveForward, SelectConversation, Fail,
       InsertConversation, BeginTransaction, TouchConversation, vars

(***************************************************************************)
(* The handlers of messages.js implement the mailboxes: a message reaches  *)
(* its two users at once, a deletion concerns one box, a revocation is the *)
(* sender's and concerns all, and nothing else is ever seen.               *)
(***************************************************************************)
THEOREM HandlersImplementMailbox == Spec => ImplementsMailbox
  <1>1. Init => M!Init
    <2> SUFFICES ASSUME Init PROVE M!Init
      OBVIOUS
    <2>1. Box = [u \in Users |-> {}] /\ Author = [m \in MsgIds |-> NoMessage] /\ Recalled = {}
      BY DEF Init, StoreInit, Box, Listed, Author, Recalled, Stored
    <2> QED
      BY <2>1 DEF M!Init
  <1>2. ViewInv /\ ViewInv' /\ [Next]_vars => [M!Next]_(M!mailVars)
    <2> SUFFICES ASSUME ViewInv, ViewInv', [Next]_vars PROVE [M!Next]_(M!mailVars)
      OBVIOUS
    <2>1. ASSUME NEW h \in Handlers, Commit(h) PROVE M!Next
      <3>1. req[h].from \in Users /\ req[h].to \in Users
        BY <2>1, CommitEffect DEF ViewInv, ServerInv, LateRequest
      <3> QED
        BY <2>1, <3>1, CommitDelivers DEF M!Next
    <2>2. ASSUME NEW u \in Users, NEW m \in MsgIds, DeleteMessage(u, m)
          PROVE  [M!Next]_(M!mailVars)
      BY <2>2, DeleteDiscards DEF M!Next
    <2>3. ASSUME NEW u \in Users, NEW m \in MsgIds, RevokeMessage(u, m)
          PROVE  [M!Next]_(M!mailVars)
      BY <2>3, RevokeRecalls DEF M!Next
    <2> QED
      BY <2>1, <2>2, <2>3, OthersStutter
  <1> QED
    BY <1>1, <1>2, ViewInvariance, PTL DEF ImplementsMailbox, M!Spec, Spec

-----------------------------------------------------------------------------
(* A transaction that has begun has a time of its own, which is not 0.     *)
StartedInv ==
  \A h \in Handlers : req[h].pc \in {"touch", "commit"} => req[h].started \in 1 .. MaxTime

LEMMA StartedStep == ServerTypeOK /\ StartedInv /\ [Next]_vars => StartedInv'
  <1> SUFFICES ASSUME ServerTypeOK, StartedInv, [Next]_vars,
                      NEW g \in Handlers, req'[g].pc \in {"touch", "commit"}
               PROVE  req'[g].started \in 1 .. MaxTime
    BY DEF StartedInv
  <1> DEFINE Known == req[g].pc \in {"touch", "commit"} /\ req'[g].started = req[g].started
  <1>1. Known => req'[g].started \in 1 .. MaxTime
    BY DEF StartedInv
  <1>2. ASSUME UNCHANGED req PROVE Known
    BY <1>2
  <1>3. ASSUME NEW h \in Handlers, NEW r, req' = [req EXCEPT ![h] = r],
               r.pc \notin {"touch", "commit"}
        PROVE  Known
    BY <1>3 DEF ServerTypeOK
  <1>4. ASSUME NEW h \in Handlers, HandlerStep(h)
        PROVE  req'[g].started \in 1 .. MaxTime
    <2>1. ASSUME NEW u, NEW v, NEW original, Accept(h, u, v, original) PROVE Known
      BY <1>3, <2>1 DEF Accept
    <2>2. CASE SelectConversation(h) \/ InsertConversation(h)
      <3>1. req'[h].pc \in {"begin", "create"}
        BY <2>2, RequestType
        DEF SelectConversation, InsertConversation, ServerTypeOK, EarlyRequest
      <3>2. g # h => req'[g] = req[g]
        BY <2>2 DEF SelectConversation, InsertConversation, ServerTypeOK
      <3> QED
        BY <1>1, <3>1, <3>2
    <2>3. CASE Fail(h) \/ Commit(h)
      BY <1>1, <1>3, <2>3 DEF Fail, Commit, Idle
    <2>4. CASE BeginTransaction(h)
      <3>1. now + 1 \in 1 .. MaxTime
        BY <2>4 DEF BeginTransaction, ServerTypeOK
      <3>2. req[h] \in LateRequest
        BY <2>4, RequestType DEF BeginTransaction
      <3>3. req'[h].started = now + 1
        BY <2>4, <3>2 DEF BeginTransaction, ServerTypeOK, LateRequest
      <3>4. g # h => req'[g] = req[g]
        BY <2>4 DEF BeginTransaction, ServerTypeOK
      <3> QED
        BY <1>1, <3>1, <3>3, <3>4
    <2>5. CASE TouchConversation(h)
      <3>1. req[h] \in LateRequest
        BY <2>5, RequestType DEF TouchConversation
      <3>2. req'[h].started = req[h].started /\ req[h].pc = "touch"
        BY <2>5, <3>1 DEF TouchConversation, ServerTypeOK, LateRequest
      <3>3. g # h => req'[g] = req[g]
        BY <2>5 DEF TouchConversation, ServerTypeOK
      <3> QED
        BY <1>1, <3>2, <3>3
    <2> QED
      BY <1>1, <1>4, <2>1, <2>2, <2>3, <2>4, <2>5
      DEF HandlerStep, ReceiveSend, ReceiveForward
  <1> QED
    BY <1>1, <1>2, <1>4 DEF Next, MarkRead, DeleteMessage, RevokeMessage, vars

(* The only time in a set is the one that QueueTime takes from it.         *)
LEMMA OnlyTime ==
  ASSUME NEW times, NEW t \in Nat, times = {t}
  PROVE  (IF times = {} THEN 0 ELSE CHOOSE x \in times : \A s \in times : s <= x) = t
  OBVIOUS

(* A commit queues its message for the first time, at the time its         *)
(* transaction began.                                                      *)
LEMMA CommitEnqueues ==
  ASSUME ServerInv, StartedInv, NEW h \in Handlers, Commit(h)
  PROVE  \E m \in MsgIds, t \in 1 .. MaxTime : P!Enqueue(m, t)
  <1> DEFINE t == req[h].started
             TimesOf(q, m) == { d.queued_at : d \in { e \in q : e.message_id = m } }
  <1>1. PICK m \in MsgIds :
          /\ ~Stored(m)
          /\ digest_queue' = digest_queue \cup {[message_id |-> m, queued_at |-> t]}
    BY DEF Commit, NewDigests
  <1>2. t \in 1 .. MaxTime /\ t \in Nat
    BY DEF Commit, StartedInv
  <1>3. \A d \in digest_queue :
          d.message_id \in MsgIds /\ d.message_id # m /\ d.queued_at \in Nat /\ d.queued_at # t
    BY <1>1 DEF ServerInv, ServerTypeOK, EveryMessageQueued, ClockInv, Commit
  <1>4. TimesOf(digest_queue, m) = {}
    BY <1>3
  <1>5. QueueTime(m) = 0
    BY <1>4 DEF QueueTime
  <1>6. ASSUME NEW s \in MsgIds
        PROVE  QueueTime(s) # t
    <2>1. CASE TimesOf(digest_queue, s) = {}
      BY <1>2, <2>1 DEF QueueTime
    <2>2. CASE TimesOf(digest_queue, s) # {}
      <3>1. PICK d \in digest_queue : d.message_id = s
        BY <2>2
      <3>2. TimesOf(digest_queue, s) = {d.queued_at}
        BY <3>1 DEF ServerInv, EveryMessageQueued
      <3>3. QueueTime(s) = d.queued_at
        BY <1>3, <3>2, OnlyTime DEF QueueTime
      <3> QED
        BY <1>3, <3>3
    <2> QED
      BY <2>1, <2>2
  <1>7. ASSUME NEW s \in MsgIds
        PROVE  QueueTime(s)' = IF s = m THEN t ELSE QueueTime(s)
    <2> DEFINE new == [message_id |-> m, queued_at |-> t]
    <2>1. new.message_id = m /\ new.queued_at = t /\ digest_queue' = digest_queue \cup {new}
      BY <1>1
    <2> HIDE DEF new
    <2>2. CASE s = m
      <3>1. TimesOf(digest_queue', s) = {t}
        BY <1>3, <2>1, <2>2
      <3> QED
        BY <1>2, <2>2, <3>1, OnlyTime DEF QueueTime
    <2>3. CASE s # m
      <3>1. TimesOf(digest_queue', s) = TimesOf(digest_queue, s)
        BY <2>1, <2>3
      <3>2. CASE TimesOf(digest_queue, s) = {}
        BY <2>3, <3>1, <3>2 DEF QueueTime
      <3>3. CASE TimesOf(digest_queue, s) # {}
        <4>1. PICK d \in digest_queue : d.message_id = s
          BY <3>3
        <4>2. TimesOf(digest_queue, s) = {d.queued_at}
          BY <4>1 DEF ServerInv, EveryMessageQueued
        <4>3. QueueTime(s) = d.queued_at
          BY <1>3, <4>2, OnlyTime DEF QueueTime
        <4>4. QueueTime(s)' = d.queued_at
          BY <1>3, <3>1, <4>2, OnlyTime DEF QueueTime
        <4> QED
          BY <2>3, <4>3, <4>4
      <3> QED
        BY <3>2, <3>3
    <2> QED
      BY <2>2, <2>3
  <1>8. [s \in MsgIds |-> QueueTime(s)]'
          = [[s \in MsgIds |-> QueueTime(s)] EXCEPT ![m] = t]
    BY <1>7
  <1>9. P!Enqueue(m, t)
    BY <1>5, <1>6, <1>8 DEF P!Enqueue
  <1> QED
    BY <1>2, <1>9

(***************************************************************************)
(* What DigestService assumes of its queue is what the handlers do: each   *)
(* row appears once, at a time no other row has, in one step with nothing  *)
(* else that the pipeline sees.                                            *)
(***************************************************************************)
THEOREM HandlersFeedPipeline == Spec => FeedsPipeline
  <1>1. Init => P!Init
    <2> SUFFICES ASSUME Init PROVE P!Init
      OBVIOUS
    <2>1. \A m \in MsgIds : QueueTime(m) = 0
      BY DEF Init, QueueTime
    <2> QED
      BY <2>1 DEF P!Init, P!Flushers
  <1>2. Init => StartedInv
    BY DEF Init, StartedInv, Idle
  <1>3. ServerInv /\ StartedInv /\ [Next]_vars => StartedInv'
    BY StartedStep DEF ServerInv
  <1>4. ServerInv /\ StartedInv /\ [Next]_vars
          => [\E m \in MsgIds, t \in 1 .. MaxTime : P!Enqueue(m, t)]_digest_queue
    BY CommitEnqueues
    DEF Next, HandlerStep, ReceiveSend, ReceiveForward, SelectConversation, Fail,
        InsertConversation, BeginTransaction, TouchConversation, MarkRead,
        DeleteMessage, RevokeMessage, vars
  <1> QED
    BY <1>1, <1>2, <1>3, <1>4, ServerInvariance, PTL DEF FeedsPipeline, Spec
=============================================================================
