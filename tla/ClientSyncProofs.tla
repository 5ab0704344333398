-------------------------- MODULE ClientSyncProofs --------------------------
(***************************************************************************)
(* The C++ client's store, for any number of processes, messages and       *)
(* failures: it follows the server, resurrects nothing, implements Replica *)
(* step by step, and loses nothing between an answer and the store.        *)
(***************************************************************************)
EXTENDS ReplicaRefinement, FiniteSetTheorems, TLAPS

(* What a command in progress took from the server stays true there.       *)
CommandFollows(p) ==
  /\ client[p].pc \in {"sent", "save"} => Stored(client[p].id)
  /\ client[p].pc = "deleted" => Stored(client[p].id) /\ DeletedFor(Me, client[p].id)
  /\ client[p].pc = "recalled" => Revoked(client[p].id)
  /\ client[p].pc \in {"inbox", "save"} => \A m \in client[p].todo : Stored(m)
  /\ client[p].pc = "revoked" => \A m \in client[p].todo : Revoked(m)

(* Marks are put on rows, and a row is never taken out of the store.       *)
MarksOnRows == \A m \in MsgIds : store[m].deleted \/ store[m].revoked => store[m].row

ClientInv ==
  /\ ClientTypeOK
  /\ LocalFollowsServer
  /\ MarksOnRows
  /\ \A p \in Clients : CommandFollows(p)

USE PeersAssumption, UsersAssumption, NoMessageAssumption, NoIdAssumption, ClientBounds

-----------------------------------------------------------------------------
(* What no step of anybody undoes on the server.                           *)
ServerKeeps ==
  /\ StoreTypeOK'
  /\ \A m \in MsgIds :
       /\ Stored(m) => Stored(m)'
       /\ Stored(m) /\ DeletedFor(Me, m) => DeletedFor(Me, m)'
       /\ Revoked(m) => Revoked(m)'

LEMMA RowOf ==
  ASSUME StoreTypeOK, NEW m \in MsgIds, Stored(m)
  PROVE  messages[m] \in MessageRow
BY DEF StoreTypeOK, Stored

LEMMA ClockType == Clock \in Nat
<1>1. IsFiniteSet({ m \in MsgIds : Stored(m) })
  BY FS_Subset, FiniteIds
<1> QED
  BY <1>1, FS_CardinalityType DEF Clock

LEMMA InsertKeeps ==
  ASSUME StoreTypeOK, NEW m \in MsgIds, NEW from \in Users, NEW to \in Users,
         NEW original \in MsgIds \cup {NoMessage},
         Insert(m, from, to, original), UNCHANGED revocations
  PROVE  ServerKeeps /\ Stored(m)'
<1>1. PICK c \in ConvIds :
        messages' = [messages EXCEPT ![m] = NewMessage(c, from, to, Clock, original)]
  BY DEF Insert
<1>2. NewMessage(c, from, to, Clock, original) \in MessageRow
  BY ClockType DEF NewMessage, MessageRow
<1> DEFINE row == NewMessage(c, from, to, Clock, original)
<1>3. row # NoMessage
  BY <1>2
<1> HIDE DEF row
<1>4. \A k \in MsgIds : messages'[k] = IF k = m THEN row ELSE messages[k]
  BY <1>1 DEF StoreTypeOK, row
<1>5. StoreTypeOK'
  BY <1>1, <1>2 DEF StoreTypeOK, row
<1>6. ~Stored(m)
  BY DEF Insert
<1> QED
  BY <1>3, <1>4, <1>5, <1>6 DEF ServerKeeps, Stored, DeletedFor, Revoked

LEMMA DeleteKeeps ==
  ASSUME StoreTypeOK, NEW m \in MsgIds, Delete(Me, m)
  PROVE  ServerKeeps /\ Stored(m)' /\ DeletedFor(Me, m)'
<1> DEFINE row == FlagDeleted(Me, m)
<1>1. messages[m] \in MessageRow
  BY RowOf DEF Delete
<1>2. /\ row \in MessageRow
      /\ row.sender_id = messages[m].sender_id
      /\ row.recipient_id = messages[m].recipient_id
      /\ messages[m].deleted_by_sender => row.deleted_by_sender
      /\ messages[m].deleted_by_recipient => row.deleted_by_recipient
      /\ \/ Me = row.sender_id /\ row.deleted_by_sender
         \/ Me = row.recipient_id /\ row.deleted_by_recipient
  <2>1. CASE Me = messages[m].sender_id
    <3>1. row = [messages[m] EXCEPT !.deleted_by_sender = TRUE]
      BY <2>1 DEF FlagDeleted
    <3> HIDE DEF row
    <3> QED
      BY <1>1, <2>1, <3>1 DEF MessageRow
  <2>2. CASE Me # messages[m].sender_id
    <3>1. row = [messages[m] EXCEPT !.deleted_by_recipient = TRUE]
      BY <2>2 DEF FlagDeleted
    <3>2. Me = messages[m].recipient_id
      BY <2>2 DEF Delete, Parties
    <3> HIDE DEF row
    <3> QED
      BY <1>1, <3>1, <3>2 DEF MessageRow
  <2> QED
    BY <2>1, <2>2
<1>3. messages' = [messages EXCEPT ![m] = row] /\ revocations' = revocations
  BY DEF Delete
<1> HIDE DEF row
<1>4. \A k \in MsgIds : messages'[k] = IF k = m THEN row ELSE messages[k]
  BY <1>3 DEF StoreTypeOK
<1>5. StoreTypeOK'
  BY <1>2, <1>3 DEF StoreTypeOK
<1>6. row # NoMessage
  BY <1>2
<1>7. \A k \in MsgIds : Stored(k) => Stored(k)'
  BY <1>4, <1>6 DEF Stored
<1>8. \A k \in MsgIds : DeletedFor(Me, k) => DeletedFor(Me, k)'
  BY <1>2, <1>4 DEF DeletedFor
<1>9. \A k \in MsgIds : Revoked(k) => Revoked(k)'
  BY <1>3 DEF Revoked
<1>10. Stored(m)' /\ DeletedFor(Me, m)'
  BY <1>2, <1>4, <1>6 DEF Stored, DeletedFor
<1> QED
  BY <1>5, <1>7, <1>8, <1>9, <1>10 DEF ServerKeeps

LEMMA RevokeKeeps ==
  ASSUME StoreTypeOK, NEW m \in MsgIds, NEW u \in Users, Revoke(u, m)
  PROVE  ServerKeeps /\ Revoked(m)'
<1>1. revocations \subseteq revocations' /\ messages' = messages
  BY DEF Revoke
<1>2. StoreTypeOK'
  BY DEF Revoke, StoreTypeOK, Revocation
<1>3. Revoked(m)'
  <2>1. CASE Revoked(m)
    BY <1>1, <2>1 DEF Revoked
  <2>2. CASE ~Revoked(m)
    <3>1. [message_id |-> m, revoked_by |-> u] \in revocations'
      BY <2>2 DEF Revoke
    <3> QED
      BY <3>1 DEF Revoked
  <2> QED
    BY <2>1, <2>2
<1> QED
  BY <1>1, <1>2, <1>3 DEF ServerKeeps, Stored, DeletedFor, Revoked

LEMMA SameServerKeeps ==
  ASSUME StoreTypeOK, UNCHANGED <<messages, revocations>>
  PROVE  ServerKeeps
BY DEF ServerKeeps, StoreTypeOK, Stored, DeletedFor, Revoked

-----------------------------------------------------------------------------
(* What the statements on the store keep, and what they do not undo.       *)
StoreType ==
  store \in [MsgIds -> [row : BOOLEAN, plaintext : BOOLEAN,
                        deleted : BOOLEAN, revoked : BOOLEAN]]

LocalKept ==
  /\ StoreType'
  /\ LocalFollowsServer'
  /\ MarksOnRows'
  /\ \A m \in MsgIds :
       /\ store[m].deleted => store'[m].deleted
       /\ store[m].revoked => store'[m].revoked /\ ~store'[m].plaintext

LEMMA LocalNow ==
  ASSUME ClientInv
  PROVE  StoreType /\ LocalFollowsServer /\ MarksOnRows /\ StoreTypeOK
BY DEF ClientInv, ClientTypeOK, StoreType

LEMMA UntouchedStoreKept ==
  ASSUME ClientInv, ServerKeeps, UNCHANGED store
  PROVE  LocalKept
BY LocalNow DEF LocalKept, StoreType, LocalFollowsServer, MarksOnRows, ServerKeeps

(* One row is replaced by one that the server backs.                       *)
LEMMA RowKept ==
  ASSUME ClientInv, ServerKeeps, NEW m \in MsgIds,
         NEW new \in [row : BOOLEAN, plaintext : BOOLEAN,
                      deleted : BOOLEAN, revoked : BOOLEAN],
         store' = [store EXCEPT ![m] = new],
         new.row, Stored(m)',
         new.deleted => DeletedFor(Me, m)',
         new.revoked => Revoked(m)' /\ ~new.plaintext,
         store[m].deleted => new.deleted,
         store[m].revoked => new.revoked
  PROVE  LocalKept
<1>1. StoreType'
  BY LocalNow DEF StoreType
<1>2. \A k \in MsgIds : store'[k] = IF k = m THEN new ELSE store[k]
  BY LocalNow DEF StoreType
<1>3. LocalFollowsServer'
  BY <1>2, LocalNow DEF LocalFollowsServer, MarksOnRows, ServerKeeps
<1>4. MarksOnRows'
  BY <1>2, LocalNow DEF MarksOnRows
<1>5. \A k \in MsgIds :
        /\ store[k].deleted => store'[k].deleted
        /\ store[k].revoked => store'[k].revoked /\ ~store'[k].plaintext
  BY <1>2, LocalNow DEF LocalFollowsServer
<1> QED
  BY <1>1, <1>3, <1>4, <1>5 DEF LocalKept

LEMMA SaveKept ==
  ASSUME ClientInv, ServerKeeps, NEW m \in MsgIds, Stored(m)', SaveMessage(m)
  PROVE  LocalKept
<1>1. CASE HasRow(m)
  BY <1>1, UntouchedStoreKept DEF SaveMessage
<1>2. CASE ~HasRow(m)
  <2>1. store' = [store EXCEPT ![m] = Saved]
    BY <1>2 DEF SaveMessage
  <2>2. ~store[m].deleted /\ ~store[m].revoked
    BY <1>2, LocalNow DEF HasRow, MarksOnRows
  <2>3. /\ Saved \in [row : BOOLEAN, plaintext : BOOLEAN, deleted : BOOLEAN, revoked : BOOLEAN]
        /\ Saved.row /\ ~Saved.deleted /\ ~Saved.revoked
    BY DEF Saved
  <2> QED
    BY <2>1, <2>2, <2>3, RowKept
<1> QED
  BY <1>1, <1>2

LEMMA MarkDeletedKept ==
  ASSUME ClientInv, ServerKeeps, NEW m \in MsgIds,
         Stored(m)', DeletedFor(Me, m)', MarkDeleted(m)
  PROVE  LocalKept
<1>1. CASE HasRow(m)
  <2> DEFINE new == [store[m] EXCEPT !.deleted = TRUE]
  <2>1. store' = [store EXCEPT ![m] = new]
    BY <1>1 DEF MarkDeleted
  <2>2. /\ new \in [row : BOOLEAN, plaintext : BOOLEAN, deleted : BOOLEAN, revoked : BOOLEAN]
        /\ new.row = store[m].row /\ new.plaintext = store[m].plaintext
        /\ new.deleted = TRUE /\ new.revoked = store[m].revoked
    BY LocalNow DEF StoreType
  <2>3. store[m].revoked => Revoked(m)' /\ ~store[m].plaintext
    BY LocalNow DEF LocalFollowsServer, ServerKeeps
  <2> HIDE DEF new
  <2> QED
    BY <1>1, <2>1, <2>2, <2>3, RowKept DEF HasRow
<1>2. CASE ~HasRow(m)
  BY <1>2, UntouchedStoreKept DEF MarkDeleted
<1> QED
  BY <1>1, <1>2

LEMMA MarkRevokedKept ==
  ASSUME ClientInv, ServerKeeps, NEW m \in MsgIds, Revoked(m)', MarkRevoked(m)
  PROVE  LocalKept
<1>1. CASE HasRow(m)
  <2> DEFINE new == [store[m] EXCEPT !.revoked = TRUE, !.plaintext = FALSE]
  <2>1. store' = [store EXCEPT ![m] = new]
    BY <1>1, LocalNow DEF MarkRevoked, StoreType
  <2>2. /\ new \in [row : BOOLEAN, plaintext : BOOLEAN, deleted : BOOLEAN, revoked : BOOLEAN]
        /\ new.row = store[m].row /\ new.plaintext = FALSE
        /\ new.deleted = store[m].deleted /\ new.revoked = TRUE
    BY LocalNow DEF StoreType
  <2>3. Stored(m)' /\ (store[m].deleted => DeletedFor(Me, m)')
    BY <1>1, LocalNow DEF LocalFollowsServer, ServerKeeps, HasRow
  <2> HIDE DEF new
  <2> QED
    BY <1>1, <2>1, <2>2, <2>3, RowKept DEF HasRow
<1>2. CASE ~HasRow(m)
  BY <1>2, UntouchedStoreKept DEF MarkRevoked
<1> QED
  BY <1>1, <1>2

-----------------------------------------------------------------------------
(* The commands of other processes do not notice.                          *)
LEMMA OthersFollow ==
  ASSUME ClientInv, ServerKeeps, NEW p \in Clients, client'[p] = client[p]
  PROVE  CommandFollows(p)'
<1>1. client[p] \in Command /\ CommandFollows(p)
  BY DEF ClientInv, ClientTypeOK
<1>2. client[p].pc \in {"sent", "deleted", "recalled", "save"} => client[p].id \in MsgIds
  BY DEF ClientInv, ClientTypeOK
<1> QED
  BY <1>1, <1>2 DEF CommandFollows, ServerKeeps, Command

(* What a step of one process has to establish.                            *)
LEMMA CommandStep ==
  ASSUME ClientInv, ServerKeeps, LocalKept, NEW p \in Clients,
         NEW pc \in {"prompt", "sent", "deleted", "recalled", "inbox", "save", "revoked"},
         NEW id \in MsgIds \cup {NoId}, NEW todo \in SUBSET MsgIds,
         Goto(p, pc, id, todo),
         pc \in {"sent", "deleted", "recalled", "save"} => id \in MsgIds,
         CommandFollows(p)', faults' \in 0 .. MaxFaults
  PROVE  ClientInv' /\ LocalKept
<1>1. client' = [client EXCEPT ![p] = [pc |-> pc, id |-> id, todo |-> todo]]
  BY DEF Goto
<1>2. client \in [Clients -> Command]
  BY DEF ClientInv, ClientTypeOK
<1>3. client' \in [Clients -> Command]
  BY <1>1, <1>2 DEF Command
<1>4. client'[p] = [pc |-> pc, id |-> id, todo |-> todo]
        /\ \A q \in Clients \ {p} : client'[q] = client[q]
  BY <1>1, <1>2
<1>5. \A q \in Clients : CommandFollows(q)'
  BY <1>4, OthersFollow
<1>6. \A q \in Clients :
        client'[q].pc \in {"sent", "deleted", "recalled", "save"} => client'[q].id \in MsgIds
  BY <1>4 DEF ClientInv, ClientTypeOK
<1>7. ClientTypeOK'
  BY <1>3, <1>6 DEF ClientTypeOK, ServerKeeps, LocalKept, StoreType
<1> QED
  BY <1>5, <1>7 DEF ClientInv, LocalKept

LEMMA AllFollow ==
  ASSUME ClientInv, ServerKeeps, LocalKept, UNCHANGED <<client, faults>>
  PROVE  ClientInv' /\ LocalKept
<1>1. \A q \in Clients : CommandFollows(q)'
  BY OthersFollow
<1>2. ClientTypeOK'
  BY DEF ClientInv, ClientTypeOK, ServerKeeps, LocalKept, StoreType
<1> QED
  BY <1>1, <1>2 DEF ClientInv, LocalKept

-----------------------------------------------------------------------------
(* What a process that executes a command knows.                           *)
LEMMA CommandNow ==
  ASSUME ClientInv, NEW p \in Clients
  PROVE  /\ client[p] \in Command /\ CommandFollows(p)
         /\ client[p].pc \in {"sent", "deleted", "recalled", "save"} => client[p].id \in MsgIds
         /\ client[p].todo \subseteq MsgIds
         /\ faults \in 0 .. MaxFaults
         /\ client \in [Clients -> Command]
BY DEF ClientInv, ClientTypeOK, Command

LEMMA FaultCounted == ClientInv /\ Fault => faults' \in 0 .. MaxFaults
BY DEF ClientInv, ClientTypeOK, Fault

(* The command that follows a Goto.                                        *)
LEMMA Gone ==
  ASSUME ClientInv, NEW p \in Clients, NEW pc, NEW id, NEW todo, Goto(p, pc, id, todo)
  PROVE  client'[p] = [pc |-> pc, id |-> id, todo |-> todo]
BY CommandNow DEF Goto

(* Going back to the prompt asks nothing.                                  *)
LEMMA BackToPrompt ==
  ASSUME ClientInv, ServerKeeps, LocalKept, NEW p \in Clients,
         Goto(p, "prompt", NoId, {}), faults' \in 0 .. MaxFaults
  PROVE  ClientInv' /\ LocalKept
<1>1. client'[p] = [pc |-> "prompt", id |-> NoId, todo |-> {}]
  BY Gone
<1>2. CommandFollows(p)'
  BY <1>1 DEF CommandFollows
<1> QED
  BY <1>2, CommandStep

LEMMA PeerStep ==
  ASSUME ClientInv, NEW m \in MsgIds, PeerSends(m) \/ PeerRevokes(m)
  PROVE  ClientInv' /\ LocalKept
<1>1. ServerKeeps
  <2>1. CASE PeerSends(m)
    BY <2>1, InsertKeeps, LocalNow DEF PeerSends
  <2>2. CASE PeerRevokes(m)
    BY <2>2, RevokeKeeps, LocalNow DEF PeerRevokes
  <2> QED
    BY <2>1, <2>2
<1>2. UNCHANGED <<store, client, faults>>
  BY DEF PeerSends, PeerRevokes
<1> QED
  BY <1>1, <1>2, UntouchedStoreKept, AllFollow

LEMMA AskStep ==
  ASSUME ClientInv, NEW p \in Clients,
         \/ \E m \in MsgIds : Send(p, m) \/ AskDelete(p, m) \/ AskRevoke(p, m)
         \/ \E m, copy \in MsgIds : Forward(p, m, copy)
  PROVE  ClientInv' /\ LocalKept
<1>0. UNCHANGED <<store, faults>>
  BY DEF Send, AskDelete, AskRevoke, Forward
<1>t. faults' \in 0 .. MaxFaults
  BY <1>0, CommandNow
<1>1. ASSUME NEW m \in MsgIds, Send(p, m)
      PROVE  ClientInv' /\ LocalKept
  <2>1. ServerKeeps /\ Stored(m)'
    BY <1>1, InsertKeeps, LocalNow DEF Send
  <2>2. Goto(p, "sent", m, {})
    BY <1>1 DEF Send
  <2>c. client'[p].pc = "sent" /\ client'[p].id = m
    <3>1. client'[p] = [pc |-> "sent", id |-> m, todo |-> {}]
      BY <2>2, Gone
    <3> QED
      BY <3>1
  <2>3. CommandFollows(p)'
    BY <2>1, <2>c DEF CommandFollows, Stored, DeletedFor, Revoked
  <2> QED
    BY <1>0, <1>t, <2>1, <2>2, <2>3, UntouchedStoreKept, CommandStep
<1>2. ASSUME NEW m \in MsgIds, AskDelete(p, m)
      PROVE  ClientInv' /\ LocalKept
  <2>1. ServerKeeps /\ Stored(m)' /\ DeletedFor(Me, m)'
    BY <1>2, DeleteKeeps, LocalNow DEF AskDelete
  <2>2. Goto(p, "deleted", m, {})
    BY <1>2 DEF AskDelete
  <2>c. client'[p].pc = "deleted" /\ client'[p].id = m
    <3>1. client'[p] = [pc |-> "deleted", id |-> m, todo |-> {}]
      BY <2>2, Gone
    <3> QED
      BY <3>1
  <2>3. CommandFollows(p)'
    BY <2>1, <2>c DEF CommandFollows, Stored, DeletedFor, Revoked
  <2> QED
    BY <1>0, <1>t, <2>1, <2>2, <2>3, UntouchedStoreKept, CommandStep
<1>3. ASSUME NEW m \in MsgIds, AskRevoke(p, m)
      PROVE  ClientInv' /\ LocalKept
  <2>1. ServerKeeps /\ Revoked(m)'
    BY <1>3, RevokeKeeps, LocalNow DEF AskRevoke
  <2>2. Goto(p, "recalled", m, {})
    BY <1>3 DEF AskRevoke
  <2>c. client'[p].pc = "recalled" /\ client'[p].id = m
    <3>1. client'[p] = [pc |-> "recalled", id |-> m, todo |-> {}]
      BY <2>2, Gone
    <3> QED
      BY <3>1
  <2>3. CommandFollows(p)'
    BY <2>1, <2>c DEF CommandFollows, Stored, DeletedFor, Revoked
  <2> QED
    BY <1>0, <1>t, <2>1, <2>2, <2>3, UntouchedStoreKept, CommandStep
<1>4. ASSUME NEW m \in MsgIds, NEW copy \in MsgIds, Forward(p, m, copy)
      PROVE  ClientInv' /\ LocalKept
  <2>1. ServerKeeps
    BY <1>4, InsertKeeps, LocalNow DEF Forward
  <2>2. UNCHANGED client
    BY <1>4 DEF Forward
  <2> QED
    BY <1>0, <2>1, <2>2, UntouchedStoreKept, AllFollow
<1> QED
  BY <1>1, <1>2, <1>3, <1>4

LEMMA AnswerKept ==
  ASSUME ClientInv, NEW p \in Clients, AnswerStep(p)
  PROVE  ClientInv' /\ LocalKept
<1>1. ServerKeeps
  BY SameServerKeeps, LocalNow DEF AnswerStep, SaveSent, DeleteLocally, RevokeLocally
<1>2. PICK m \in MsgIds : m = client[p].id
  BY CommandNow DEF AnswerStep, SaveSent, DeleteLocally, RevokeLocally
<1>3. CASE SaveSent(p)
  <2>1. Stored(m)'
    BY <1>1, <1>2, <1>3, CommandNow DEF SaveSent, CommandFollows, ServerKeeps
  <2>2. LocalKept
    BY <1>1, <1>2, <1>3, <2>1, SaveKept DEF SaveSent
  <2> QED
    BY <1>1, <1>3, <2>2, BackToPrompt, CommandNow DEF SaveSent
<1>4. CASE DeleteLocally(p)
  <2>1. Stored(m)' /\ DeletedFor(Me, m)'
    BY <1>1, <1>2, <1>4, CommandNow DEF DeleteLocally, CommandFollows, ServerKeeps
  <2>2. LocalKept
    BY <1>1, <1>2, <1>4, <2>1, MarkDeletedKept DEF DeleteLocally
  <2> QED
    BY <1>1, <1>4, <2>2, BackToPrompt, CommandNow DEF DeleteLocally
<1>5. CASE RevokeLocally(p)
  <2>1. Revoked(m)'
    BY <1>1, <1>2, <1>5, CommandNow DEF RevokeLocally, CommandFollows, ServerKeeps
  <2>2. LocalKept
    BY <1>1, <1>2, <1>5, <2>1, MarkRevokedKept DEF RevokeLocally
  <2> QED
    BY <1>1, <1>5, <2>2, BackToPrompt, CommandNow DEF RevokeLocally
<1> QED
  BY <1>3, <1>4, <1>5 DEF AnswerStep

LEMMA SyncKept ==
  ASSUME ClientInv, NEW p \in Clients,
         SyncInbox(p) \/ SyncSkip(p) \/ SyncStep(p) \/ Abandon(p)
  PROVE  ClientInv' /\ LocalKept
<1>0. UNCHANGED <<messages, revocations>>
  BY DEF SyncInbox, SyncSkip, SyncStep, SyncCheck, SyncSave, SyncRevocations,
         SyncRevokeOne, SyncDone, Abandon
<1>1. ServerKeeps
  BY <1>0, SameServerKeeps, LocalNow
<1>2. faults' \in 0 .. MaxFaults
  BY CommandNow, FaultCounted
     DEF SyncInbox, SyncSkip, SyncStep, SyncCheck, SyncSave, SyncRevocations,
         SyncRevokeOne, SyncDone, Abandon
<1>3. \A m \in MsgIds : (Stored(m)' <=> Stored(m)) /\ (Revoked(m)' <=> Revoked(m))
  BY <1>0 DEF Stored, Revoked
(* The step goes on with part of what the server answered.                 *)
<1>4. ASSUME NEW todo \in SUBSET MsgIds, \A m \in todo : Stored(m),
             Goto(p, "inbox", NoId, todo), LocalKept
      PROVE  ClientInv' /\ LocalKept
  <2>1. client'[p] = [pc |-> "inbox", id |-> NoId, todo |-> todo]
    BY <1>4, Gone
  <2>2. CommandFollows(p)'
    BY <1>3, <1>4, <2>1 DEF CommandFollows
  <2> QED
    BY <1>1, <1>2, <1>4, <2>2, CommandStep
<1>5. ASSUME NEW todo \in SUBSET MsgIds, \A m \in todo : Revoked(m),
             Goto(p, "revoked", NoId, todo), LocalKept
      PROVE  ClientInv' /\ LocalKept
  <2>1. client'[p] = [pc |-> "revoked", id |-> NoId, todo |-> todo]
    BY <1>5, Gone
  <2>2. CommandFollows(p)'
    BY <1>3, <1>5, <2>1 DEF CommandFollows
  <2> QED
    BY <1>1, <1>2, <1>5, <2>2, CommandStep
<1>6. CASE SyncInbox(p)
  <2>1. Inbox \in SUBSET MsgIds /\ \A m \in Inbox : Stored(m)
    BY DEF Inbox, Listed
  <2> QED
    BY <1>1, <1>4, <1>6, <2>1, UntouchedStoreKept DEF SyncInbox
<1>7. CASE SyncSkip(p)
  <2>1. \A m \in client[p].todo : Stored(m)
    BY <1>7, CommandNow DEF SyncSkip, CommandFollows
  <2>2. PICK m \in client[p].todo : Goto(p, "inbox", NoId, client[p].todo \ {m})
    BY <1>7 DEF SyncSkip
  <2> QED
    BY <1>1, <1>4, <1>7, <2>1, <2>2, UntouchedStoreKept, CommandNow DEF SyncSkip
<1>8. CASE SyncCheck(p)
  <2>1. \A m \in client[p].todo : Stored(m)
    BY <1>8, CommandNow DEF SyncCheck, CommandFollows
  <2>2. LocalKept
    BY <1>1, <1>8, UntouchedStoreKept DEF SyncCheck
  <2>3. PICK m \in client[p].todo :
          \/ Goto(p, "inbox", NoId, client[p].todo \ {m})
          \/ Goto(p, "save", m, client[p].todo \ {m})
    BY <1>8 DEF SyncCheck
  <2>4. m \in MsgIds /\ client[p].todo \ {m} \in SUBSET MsgIds
    BY CommandNow
  <2>5. CASE Goto(p, "inbox", NoId, client[p].todo \ {m})
    BY <1>4, <2>1, <2>2, <2>4, <2>5
  <2>6. CASE Goto(p, "save", m, client[p].todo \ {m})
    <3>1. client'[p] = [pc |-> "save", id |-> m, todo |-> client[p].todo \ {m}]
      BY <2>6, Gone
    <3>2. client'[p].pc = "save" /\ client'[p].id = m
            /\ client'[p].todo \subseteq client[p].todo
      BY <3>1
    <3>3. CommandFollows(p)'
      BY <1>0, <2>1, <3>2 DEF CommandFollows, Stored
    <3> QED
      BY <1>1, <1>2, <2>2, <2>4, <2>6, <3>3, CommandStep
  <2> QED
    BY <2>3, <2>5, <2>6
<1>9. CASE SyncSave(p)
  <2>1. \A m \in client[p].todo : Stored(m)
    BY <1>9, CommandNow DEF SyncSave, CommandFollows
  <2>2. PICK m \in MsgIds : m = client[p].id
    BY <1>9, CommandNow DEF SyncSave
  <2>3. Stored(m)'
    BY <1>3, <1>9, <2>2, CommandNow DEF SyncSave, CommandFollows
  <2>4. LocalKept
    BY <1>1, <1>9, <2>2, <2>3, SaveKept DEF SyncSave
  <2> QED
    BY <1>4, <1>9, <2>1, <2>4, CommandNow DEF SyncSave
<1>10. CASE SyncRevocations(p)
  <2>1. RevokedIds(Me) \in SUBSET MsgIds /\ \A m \in RevokedIds(Me) : Revoked(m)
    BY DEF RevokedIds
  <2> QED
    BY <1>1, <1>5, <1>10, <2>1, UntouchedStoreKept DEF SyncRevocations
<1>11. CASE SyncRevokeOne(p)
  <2>1. \A m \in client[p].todo : Revoked(m)
    BY <1>11, CommandNow DEF SyncRevokeOne, CommandFollows
  <2>2. PICK m \in client[p].todo :
          /\ MarkRevoked(m) \/ UNCHANGED store
          /\ Goto(p, "revoked", NoId, client[p].todo \ {m})
    BY <1>11 DEF SyncRevokeOne
  <2>3. m \in MsgIds /\ client[p].todo \ {m} \in SUBSET MsgIds /\ Revoked(m)'
    BY <1>3, <2>1, CommandNow
  <2>4. LocalKept
    BY <1>1, <2>2, <2>3, MarkRevokedKept, UntouchedStoreKept
  <2> QED
    BY <1>5, <2>1, <2>2, <2>3, <2>4
<1>12. CASE SyncDone(p) \/ Abandon(p)
  BY <1>1, <1>2, <1>12, UntouchedStoreKept, BackToPrompt DEF SyncDone, Abandon
<1> QED
  BY <1>6, <1>7, <1>8, <1>9, <1>10, <1>11, <1>12 DEF SyncStep

-----------------------------------------------------------------------------
LEMMA ClientInvInitially == Init => ClientInv
BY DEF Init, StoreInit, ClientInv, ClientTypeOK, StoreTypeOK, LocalFollowsServer,
       MarksOnRows, CommandFollows, Absent, Prompt, Command

LEMMA EveryStep == ClientInv /\ [Next]_clientVars => ClientInv' /\ LocalKept
<1> SUFFICES ASSUME ClientInv, [Next]_clientVars
             PROVE  ClientInv' /\ LocalKept
  OBVIOUS
<1>1. CASE UNCHANGED clientVars
  <2>1. UNCHANGED <<messages, revocations, store, client, faults>>
    BY <1>1 DEF clientVars
  <2> QED
    BY <2>1, SameServerKeeps, UntouchedStoreKept, AllFollow, LocalNow
<1> QED
  BY <1>1, PeerStep, AskStep, AnswerKept, SyncKept DEF Next, ClientStep

LEMMA ClientInvHolds == Spec => []ClientInv
<1>1. ClientInv /\ [Next]_clientVars => ClientInv'
  BY EveryStep
<1> QED
  BY <1>1, ClientInvInitially, PTL DEF Spec

(***************************************************************************)
(* Type correctness of the client, whatever is lost or killed.             *)
(***************************************************************************)
THEOREM ClientTypeCorrectness == Spec => []ClientTypeOK
<1>1. ClientInv => ClientTypeOK
  BY DEF ClientInv
<1> QED
  BY <1>1, ClientInvHolds, PTL

(***************************************************************************)
(* The rows of store.db never run ahead of the server's tables.            *)
(***************************************************************************)
THEOREM StoreFollowsServer == Spec => []LocalFollowsServer
<1>1. ClientInv => LocalFollowsServer
  BY DEF ClientInv
<1> QED
  BY <1>1, ClientInvHolds, PTL

(***************************************************************************)
(* No step of any process brings a deleted or revoked row back.            *)
(***************************************************************************)
THEOREM NothingResurrected == Spec => NeverResurrected
<1>1. LocalKept =>
        \A m \in MsgIds :
          /\ store[m].deleted => store'[m].deleted
          /\ store[m].revoked => store'[m].revoked /\ ~store'[m].plaintext
  BY DEF LocalKept
<1>2. ClientInv /\ [Next]_clientVars =>
        [\A m \in MsgIds :
          /\ store[m].deleted => store'[m].deleted
          /\ store[m].revoked => store'[m].revoked /\ ~store'[m].plaintext]_clientVars
  BY <1>1, EveryStep
<1> QED
  BY <1>2, ClientInvHolds, PTL DEF Spec, NeverResurrected

-----------------------------------------------------------------------------
(* A message is between two users, and only messages are revoked.          *)
TwoParties ==
  /\ \A m \in MsgIds : Stored(m) =>
       /\ messages[m].sender_id \in Users
       /\ messages[m].recipient_id \in Users
       /\ messages[m].sender_id # messages[m].recipient_id
  /\ \A r \in revocations : Stored(r.message_id)

(* A box by the two flags and the revocation.                              *)
BoxesShow ==
  \A u \in Users, m \in MsgIds :
    m \in Box[u] <=>
      /\ Stored(m)
      /\ ~Revoked(m)
      /\ \/ messages[m].sender_id = u    /\ ~messages[m].deleted_by_sender
         \/ messages[m].recipient_id = u /\ ~messages[m].deleted_by_recipient

ViewInv == ClientInv /\ TwoParties

LEMMA BoxesNow == TwoParties => BoxesShow
BY DEF TwoParties, BoxesShow, Box, Listed, InBox

(* Boxes are equal when they hold the same messages.                       *)
LEMMA BoxIs ==
  ASSUME NEW new \in [Users -> SUBSET MsgIds],
         \A u \in Users, m \in MsgIds : m \in Box'[u] <=> m \in new[u]
  PROVE  Box' = new
<1>1. Box' = [u \in Users |-> Box'[u]] /\ \A u \in Users : Box'[u] \subseteq MsgIds
  BY DEF Box, Listed
<1>2. \A u \in Users : Box'[u] = new[u]
  BY <1>1
<1> QED
  BY <1>1, <1>2

LEMMA BoxType == Box \in [Users -> SUBSET MsgIds]
BY DEF Box, Listed

LEMMA InsertDelivers ==
  ASSUME ViewInv, ClientInv', NEW m \in MsgIds, NEW from \in Users, NEW to \in Users,
         NEW original \in MsgIds \cup {NoMessage},
         from # to, Insert(m, from, to, original), UNCHANGED revocations
  PROVE  TwoParties' /\ R!Deliver(m, from, to)
<1>1. PICK c \in ConvIds :
        messages' = [messages EXCEPT ![m] = NewMessage(c, from, to, Clock, original)]
  BY DEF Insert
<1> DEFINE row == NewMessage(c, from, to, Clock, original)
<1>2. /\ row.sender_id = from /\ row.recipient_id = to
      /\ ~row.deleted_by_sender /\ ~row.deleted_by_recipient
  BY DEF NewMessage
<1>3. messages'[m] = row /\ \A k \in MsgIds \ {m} : messages'[k] = messages[k]
  BY <1>1, LocalNow DEF ViewInv, StoreTypeOK
<1> HIDE DEF row
<1>4. ~Stored(m) /\ Stored(m)'
  <2>1. Stored(m)'
    BY InsertKeeps, LocalNow DEF ViewInv
  <2> QED
    BY <2>1 DEF Insert
<1>5. ~Revoked(m) /\ \A k \in MsgIds : Revoked(k)' <=> Revoked(k)
  BY <1>4 DEF Revoked, ViewInv, TwoParties
<1>6. \A k \in MsgIds \ {m} : Stored(k)' <=> Stored(k)
  BY <1>3 DEF Stored
<1>7. TwoParties'
  <2>1. \A r \in revocations : r.message_id \in MsgIds
    BY LocalNow DEF ViewInv, StoreTypeOK, Revocation
  <2> QED
    BY <1>2, <1>3, <1>4, <1>6, <2>1 DEF ViewInv, TwoParties
<1>8. Author[m] = NoMessage /\ Author' = [Author EXCEPT ![m] = from]
  BY <1>2, <1>3, <1>4, <1>6 DEF Author
<1>9. Box' = [u \in Users |-> IF u \in {from, to} THEN Box[u] \cup {m} ELSE Box[u]]
  <2> DEFINE new == [u \in Users |-> IF u \in {from, to} THEN Box[u] \cup {m} ELSE Box[u]]
  <2>1. new \in [Users -> SUBSET MsgIds]
    BY BoxType
  <2>2. BoxesShow /\ BoxesShow'
    BY <1>7, BoxesNow DEF ViewInv, TwoParties, BoxesShow, Box, Listed, InBox
  <2>3. ASSUME NEW u \in Users, NEW k \in MsgIds
        PROVE  k \in Box'[u] <=> k \in new[u]
    <3>1. CASE k = m
      BY <1>2, <1>3, <1>4, <1>5, <2>2, <3>1 DEF BoxesShow
    <3>2. CASE k # m
      BY <1>3, <1>5, <1>6, <2>2, <3>2 DEF BoxesShow
    <3> QED
      BY <3>1, <3>2
  <2> HIDE DEF new
  <2>4. Box' = new
    BY <2>1, <2>3, BoxIs
  <2> QED
    BY <2>4 DEF new
<1>10. Recalled' = Recalled
  BY DEF Recalled
<1> QED
  BY <1>7, <1>8, <1>9, <1>10 DEF R!Deliver

LEMMA DeleteDiscards ==
  ASSUME ViewInv, ClientInv', NEW m \in MsgIds, Delete(Me, m)
  PROVE  TwoParties' /\ (R!Discard(m, Me) \/ UNCHANGED R!mailVars)
<1>1. /\ Stored(m) /\ Me \in Parties(m) /\ revocations' = revocations
      /\ messages' = [messages EXCEPT ![m] = FlagDeleted(Me, m)]
  BY DEF Delete
<1>2. messages[m] \in MessageRow
  BY <1>1, RowOf, LocalNow DEF ViewInv
<1>3. messages'[m] = FlagDeleted(Me, m) /\ \A k \in MsgIds \ {m} : messages'[k] = messages[k]
  BY <1>1, LocalNow DEF ViewInv, StoreTypeOK
<1>4. /\ messages'[m] \in MessageRow
      /\ messages'[m].sender_id = messages[m].sender_id
      /\ messages'[m].recipient_id = messages[m].recipient_id
      /\ messages'[m].deleted_by_sender
           = (messages[m].deleted_by_sender \/ Me = messages[m].sender_id)
      /\ messages'[m].deleted_by_recipient
           = (messages[m].deleted_by_recipient \/ Me # messages[m].sender_id)
  <2>1. CASE Me = messages[m].sender_id
    <3>1. messages'[m] = [messages[m] EXCEPT !.deleted_by_sender = TRUE]
      BY <1>3, <2>1 DEF FlagDeleted
    <3> QED
      BY <1>2, <2>1, <3>1 DEF MessageRow
  <2>2. CASE Me # messages[m].sender_id
    <3>1. messages'[m] = [messages[m] EXCEPT !.deleted_by_recipient = TRUE]
      BY <1>3, <2>2 DEF FlagDeleted
    <3> QED
      BY <1>2, <2>2, <3>1 DEF MessageRow
  <2> QED
    BY <2>1, <2>2
<1>5. \A k \in MsgIds : (Stored(k)' <=> Stored(k)) /\ (Revoked(k)' <=> Revoked(k))
  BY <1>1, <1>3, <1>4 DEF Stored, Revoked
<1>6. TwoParties'
  <2>1. \A r \in revocations : r.message_id \in MsgIds
    BY LocalNow DEF ViewInv, StoreTypeOK, Revocation
  <2> QED
    BY <1>1, <1>3, <1>4, <1>5, <2>1 DEF ViewInv, TwoParties
<1>7. Author' = Author
  BY <1>3, <1>4, <1>5 DEF Author
<1>8. Recalled' = Recalled
  BY <1>1 DEF Recalled
<1>9. Box' = [Box EXCEPT ![Me] = Box[Me] \ {m}]
  <2> DEFINE new == [Box EXCEPT ![Me] = Box[Me] \ {m}]
  <2>1. new \in [Users -> SUBSET MsgIds]
    BY BoxType
  <2>2. BoxesShow /\ BoxesShow'
    BY <1>6, BoxesNow DEF ViewInv, TwoParties, BoxesShow, Box, Listed, InBox
  <2>3. ASSUME NEW u \in Users, NEW k \in MsgIds
        PROVE  k \in Box'[u] <=> k \in new[u]
    <3>1. k \in new[u] <=> k \in Box[u] /\ ~(k = m /\ u = Me)
      BY BoxType
    <3> HIDE DEF new
    <3>2. CASE k = m
      <4>1. messages[m].sender_id # messages[m].recipient_id
        BY <1>1 DEF ViewInv, TwoParties
      <4>2. Me = messages[m].sender_id \/ Me = messages[m].recipient_id
        BY <1>1 DEF Parties
      <4>3. m \in Box[u] <=>
              /\ ~Revoked(m)
              /\ \/ messages[m].sender_id = u    /\ ~messages[m].deleted_by_sender
                 \/ messages[m].recipient_id = u /\ ~messages[m].deleted_by_recipient
        BY <1>1, <2>2 DEF BoxesShow
      <4>4. m \in Box'[u] <=>
              /\ ~Revoked(m)'
              /\ \/ messages'[m].sender_id = u    /\ ~messages'[m].deleted_by_sender
                 \/ messages'[m].recipient_id = u /\ ~messages'[m].deleted_by_recipient
        BY <1>1, <1>5, <2>2 DEF BoxesShow
      <4>5. m \in Box'[u] <=>
              /\ ~Revoked(m)
              /\ \/ /\ messages[m].sender_id = u
                    /\ ~(messages[m].deleted_by_sender \/ Me = messages[m].sender_id)
                 \/ /\ messages[m].recipient_id = u
                    /\ ~(messages[m].deleted_by_recipient \/ Me # messages[m].sender_id)
        BY <1>4, <1>5, <4>4
      <4> QED
        BY <3>1, <3>2, <4>1, <4>2, <4>3, <4>5
    <3>3. CASE k # m
      BY <1>3, <1>5, <2>2, <3>1, <3>3 DEF BoxesShow
    <3> QED
      BY <3>2, <3>3
  <2> HIDE DEF new
  <2>4. Box' = new
    BY <2>1, <2>3, BoxIs
  <2> QED
    BY <2>4 DEF new
<1>10. CASE m \in Box[Me]
  <2>1. [Box EXCEPT ![Me] = Box[Me] \ {m}] = [u \in Users |-> IF u = Me THEN Box[Me] \ {m} ELSE Box[u]]
    BY BoxType
  <2> QED
    BY <1>6, <1>7, <1>8, <1>9, <1>10 DEF R!Discard
<1>11. CASE m \notin Box[Me]
  <2>1. Box' = Box
    BY <1>9, <1>11, BoxType
  <2> QED
    BY <1>6, <1>7, <1>8, <2>1 DEF R!mailVars
<1> QED
  BY <1>10, <1>11

LEMMA RevokeRecalls ==
  ASSUME ViewInv, ClientInv', NEW u \in Users, NEW m \in MsgIds, Revoke(u, m)
  PROVE  TwoParties' /\ (R!Recall(m) \/ UNCHANGED R!mailVars)
<1>1. Stored(m) /\ messages[m].sender_id = u /\ messages' = messages
  BY DEF Revoke, MayRevoke
<1>2. Author' = Author /\ Author[m] = u /\ u # NoMessage
  BY <1>1 DEF Author, Stored
<1>3. CASE Revoked(m)
  <2>1. revocations' = revocations
    BY <1>3 DEF Revoke
  <2>2. Box' = Box /\ Recalled' = Recalled
    BY <1>1, <2>1 DEF Box, Listed, InBox, Stored, Revoked, Recalled
  <2> QED
    BY <1>1, <1>2, <2>1, <2>2 DEF R!mailVars, ViewInv, TwoParties, Stored
<1>4. CASE ~Revoked(m)
  <2> DEFINE r == [message_id |-> m, revoked_by |-> u]
  <2>1. revocations' = revocations \cup {r} /\ r.message_id = m /\ r.revoked_by = u
    BY <1>4 DEF Revoke
  <2> HIDE DEF r
  <2>2. \A call \in Recalled : call[1] # m
    BY <1>4 DEF Recalled, Revoked
  <2>3. Recalled' = Recalled \cup {<<m, u>>}
    BY <2>1 DEF Recalled
  <2>4. \A k \in MsgIds : Revoked(k)' <=> Revoked(k) \/ k = m
    BY <2>1 DEF Revoked
  <2>5. \A v \in Users : Box'[v] = Box[v] \ {m}
    BY <1>1, <2>4 DEF Box, Listed, InBox, Stored
  <2>6. Box' = [v \in Users |-> Box[v] \ {m}]
    BY <2>5 DEF Box
  <2>7. TwoParties'
    BY <1>1, <2>1 DEF ViewInv, TwoParties, Stored
  <2> QED
    BY <1>2, <2>2, <2>3, <2>6, <2>7 DEF R!Recall
<1> QED
  BY <1>3, <1>4

LEMMA SameBoxes ==
  ASSUME ViewInv, UNCHANGED <<messages, revocations>>
  PROVE  TwoParties' /\ UNCHANGED R!mailVars
BY DEF ViewInv, TwoParties, R!mailVars, Box, Author, Recalled, Listed, InBox, Stored, Revoked

-----------------------------------------------------------------------------
LEMMA SameCopies ==
  ASSUME UNCHANGED store
  PROVE  UNCHANGED R!copyVars
BY DEF R!copyVars, Held, Buried, Erased

LEMMA SaveKeeps ==
  ASSUME ViewInv, NEW m \in MsgIds, Stored(m), SaveMessage(m)
  PROVE  R!Keep(m) \/ UNCHANGED R!copyVars
<1>1. CASE HasRow(m)
  BY <1>1, SameCopies DEF SaveMessage
<1>2. CASE ~HasRow(m)
  <2>1. \A k \in MsgIds : store'[k] = IF k = m THEN Saved ELSE store[k]
    BY <1>2, LocalNow DEF SaveMessage, ViewInv, StoreType
  <2>2. Saved.row /\ Saved.plaintext /\ ~Saved.deleted
    BY DEF Saved
  <2>3. ~store[m].row /\ ~store[m].deleted
    BY <1>2, LocalNow DEF HasRow, ViewInv, MarksOnRows
  <2>4. Held' = Held \cup {m} /\ Buried' = Buried /\ Erased' = Erased
    BY <2>1, <2>2, <2>3 DEF Held, Buried, Erased
  <2>5. Author[m] # NoMessage /\ m \notin Held
    <3>1. messages[m].sender_id \in Users
      BY DEF ViewInv, TwoParties
    <3> QED
      BY <2>3, <3>1 DEF Author, Held
  <2> QED
    BY <2>4, <2>5 DEF R!Keep
<1> QED
  BY <1>1, <1>2

LEMMA MarkBuries ==
  ASSUME ViewInv, NEW m \in MsgIds, Stored(m), DeletedFor(Me, m), MarkDeleted(m)
  PROVE  R!Bury(m) \/ UNCHANGED R!copyVars
<1>1. CASE ~HasRow(m)
  BY <1>1, SameCopies DEF MarkDeleted
<1>2. CASE HasRow(m)
  <2>1. \A k \in MsgIds :
          /\ store'[k].row = store[k].row
          /\ store'[k].plaintext = store[k].plaintext
          /\ store'[k].deleted = (store[k].deleted \/ k = m)
    BY <1>2, LocalNow DEF MarkDeleted, ViewInv, StoreType
  <2>2. Held' = Held /\ Erased' = Erased /\ Buried' = Buried \cup {m}
    BY <2>1 DEF Held, Buried, Erased
  <2>3. m \in Held
    BY <1>2 DEF HasRow, Held
  <2>4. m \notin Box[Me]
    BY BoxesNow DEF ViewInv, BoxesShow, TwoParties, DeletedFor
  <2>5. CASE m \in Buried
    BY <2>2, <2>5 DEF R!copyVars
  <2>6. CASE m \notin Buried
    BY <2>2, <2>3, <2>4, <2>6 DEF R!Bury
  <2> QED
    BY <2>5, <2>6
<1> QED
  BY <1>1, <1>2

LEMMA MarkErases ==
  ASSUME ViewInv, NEW m \in MsgIds, Revoked(m), MarkRevoked(m)
  PROVE  R!Erase(m) \/ UNCHANGED R!copyVars
<1>1. CASE ~HasRow(m)
  BY <1>1, SameCopies DEF MarkRevoked
<1>2. CASE HasRow(m)
  <2>1. \A k \in MsgIds :
          /\ store'[k].row = store[k].row
          /\ store'[k].deleted = store[k].deleted
          /\ store'[k].plaintext = (store[k].plaintext /\ k # m)
    BY <1>2, LocalNow DEF MarkRevoked, ViewInv, StoreType
  <2>2. m \in Held
    BY <1>2 DEF HasRow, Held
  <2>3. Held' = Held /\ Buried' = Buried /\ Erased' = Erased \cup {m}
    BY <2>1, <2>2 DEF Held, Buried, Erased
  <2>4. \E call \in Recalled : call[1] = m
    <3>1. PICK r \in revocations : r.message_id = m
      BY DEF Revoked
    <3>2. <<r.message_id, r.revoked_by>> \in Recalled
      BY DEF Recalled
    <3> QED
      BY <3>1, <3>2
  <2>5. CASE m \in Erased
    BY <2>3, <2>5 DEF R!copyVars
  <2>6. CASE m \notin Erased
    BY <2>2, <2>3, <2>4, <2>6 DEF R!Erase
  <2> QED
    BY <2>5, <2>6
<1> QED
  BY <1>1, <1>2

-----------------------------------------------------------------------------
(* A request that the server executes is a step of the boxes.              *)
LEMMA BoxStep ==
  ASSUME ViewInv, ClientInv', NEW p \in Clients,
         \/ \E m \in MsgIds : Send(p, m) \/ AskDelete(p, m) \/ AskRevoke(p, m)
         \/ \E m, copy \in MsgIds : Forward(p, m, copy)
  PROVE  TwoParties' /\ [R!ReplicaNext]_(R!replicaVars)
<1>1. UNCHANGED R!copyVars
  BY SameCopies DEF Send, AskDelete, AskRevoke, Forward
<1>2. ASSUME NEW m \in MsgIds, NEW from \in Users, NEW to \in Users,
             NEW original \in MsgIds \cup {NoMessage},
             from # to, Insert(m, from, to, original), UNCHANGED revocations
      PROVE  TwoParties' /\ R!Next
  BY <1>2, InsertDelivers DEF R!Next
<1>3. ASSUME NEW m \in MsgIds, NEW u \in Users, Revoke(u, m)
      PROVE  TwoParties' /\ (R!Next \/ UNCHANGED R!mailVars)
  BY <1>3, RevokeRecalls DEF R!Next
<1>4. ASSUME NEW m \in MsgIds, Delete(Me, m)
      PROVE  TwoParties' /\ (R!Next \/ UNCHANGED R!mailVars)
  BY <1>4, DeleteDiscards DEF R!Next
<1>5. TwoParties' /\ (R!Next \/ UNCHANGED R!mailVars)
  BY <1>2, <1>3, <1>4 DEF Send, AskDelete, AskRevoke, Forward
<1> QED
  BY <1>1, <1>5 DEF R!ReplicaNext, R!replicaVars

(* A step on the store is one of the copies.                               *)
LEMMA CopyStep ==
  ASSUME ViewInv, NEW p \in Clients,
         AnswerStep(p) \/ SyncInbox(p) \/ SyncSkip(p) \/ SyncStep(p) \/ Abandon(p)
  PROVE  TwoParties' /\ [R!ReplicaNext]_(R!replicaVars)
<1>1. UNCHANGED <<messages, revocations>>
  BY DEF AnswerStep, SaveSent, DeleteLocally, RevokeLocally, SyncInbox, SyncSkip,
         SyncStep, SyncCheck, SyncSave, SyncRevocations, SyncRevokeOne, SyncDone, Abandon
<1>2. TwoParties' /\ UNCHANGED R!mailVars
  BY <1>1, SameBoxes
<1>3. ClientInv
  BY DEF ViewInv
<1>4. \/ UNCHANGED R!copyVars
      \/ \E m \in MsgIds : R!Keep(m) \/ R!Bury(m) \/ R!Erase(m)
  <2>1. CASE SaveSent(p) \/ SyncSave(p)
    <3>1. client[p].id \in MsgIds /\ Stored(client[p].id) /\ SaveMessage(client[p].id)
      BY <1>3, <2>1, CommandNow DEF SaveSent, SyncSave, CommandFollows
    <3> QED
      BY <3>1, SaveKeeps
  <2>2. CASE DeleteLocally(p)
    <3>1. /\ client[p].id \in MsgIds /\ Stored(client[p].id)
          /\ DeletedFor(Me, client[p].id) /\ MarkDeleted(client[p].id)
      BY <1>3, <2>2, CommandNow DEF DeleteLocally, CommandFollows
    <3> QED
      BY <3>1, MarkBuries
  <2>3. CASE RevokeLocally(p)
    <3>1. client[p].id \in MsgIds /\ Revoked(client[p].id) /\ MarkRevoked(client[p].id)
      BY <1>3, <2>3, CommandNow DEF RevokeLocally, CommandFollows
    <3> QED
      BY <3>1, MarkErases
  <2>4. CASE SyncRevokeOne(p)
    <3>1. PICK m \in client[p].todo : MarkRevoked(m) \/ UNCHANGED store
      BY <2>4 DEF SyncRevokeOne
    <3>2. m \in MsgIds /\ Revoked(m)
      BY <1>3, <2>4, CommandNow DEF SyncRevokeOne, CommandFollows
    <3> QED
      BY <3>1, <3>2, MarkErases, SameCopies
  <2>5. CASE UNCHANGED store
    BY <2>5, SameCopies
  <2> QED
    BY <2>1, <2>2, <2>3, <2>4, <2>5
    DEF AnswerStep, SyncInbox, SyncSkip, SyncStep, SyncCheck, SyncRevocations,
        SyncDone, Abandon
<1> QED
  BY <1>2, <1>4 DEF R!ReplicaNext, R!replicaVars

(***************************************************************************)
(* The processes of a client and the server they talk to implement the     *)
(* boxes and the copies of Replica: each request changes one box or, for   *)
(* a send or a recall, one message in all of them, each statement one copy *)
(* as the boxes of that moment allow, and no other step is ever seen.      *)
(***************************************************************************)
THEOREM ClientImplementsReplica == Spec => ImplementsReplica
<1>1. Init => ViewInv /\ R!ReplicaInit
  <2> SUFFICES ASSUME Init PROVE ViewInv /\ R!ReplicaInit
    OBVIOUS
  <2>1. ViewInv
    BY ClientInvInitially DEF ViewInv, TwoParties, Init, StoreInit, Stored
  <2>2. Box = [u \in Users |-> {}] /\ Author = [m \in MsgIds |-> NoMessage] /\ Recalled = {}
    BY DEF Init, StoreInit, Box, Listed, Author, Recalled, Stored
  <2>3. Held = {} /\ Buried = {} /\ Erased = {}
    BY DEF Init, Absent, Held, Buried, Erased
  <2> QED
    BY <2>1, <2>2, <2>3 DEF R!ReplicaInit, R!Init
<1>2. ViewInv /\ [Next]_clientVars => ViewInv' /\ [R!ReplicaNext]_(R!replicaVars)
  <2> SUFFICES ASSUME ViewInv, [Next]_clientVars
               PROVE  ViewInv' /\ [R!ReplicaNext]_(R!replicaVars)
    OBVIOUS
  <2>1. ClientInv'
    BY EveryStep DEF ViewInv
  <2>2. CASE UNCHANGED clientVars
    <3>1. UNCHANGED <<messages, revocations, store>>
      BY <2>2 DEF clientVars
    <3>2. TwoParties' /\ UNCHANGED R!mailVars /\ UNCHANGED R!copyVars
      BY <3>1, SameBoxes, SameCopies
    <3> QED
      BY <2>1, <3>2 DEF ViewInv, R!replicaVars
  <2>3. ASSUME NEW m \in MsgIds, PeerSends(m) \/ PeerRevokes(m)
        PROVE  TwoParties' /\ [R!ReplicaNext]_(R!replicaVars)
    <3>1. UNCHANGED R!copyVars
      BY <2>3, SameCopies DEF PeerSends, PeerRevokes
    <3>2. TwoParties' /\ (R!Next \/ UNCHANGED R!mailVars)
      BY <2>1, <2>3, InsertDelivers, RevokeRecalls DEF PeerSends, PeerRevokes, R!Next
    <3> QED
      BY <3>1, <3>2 DEF R!ReplicaNext, R!replicaVars
  <2>4. ASSUME NEW p \in Clients, ClientStep(p)
        PROVE  TwoParties' /\ [R!ReplicaNext]_(R!replicaVars)
    BY <2>1, <2>4, BoxStep, CopyStep DEF ClientStep
  <2> QED
    BY <2>1, <2>2, <2>3, <2>4 DEF ViewInv, Next
<1> QED
  BY <1>1, <1>2, PTL DEF Spec, ImplementsReplica, R!ReplicaSpec

-----------------------------------------------------------------------------
(* What a sync has in hand of the inbox, and of the list of revocations.   *)
InboxInHand(p) ==
  { m \in MsgIds : \/ client[p].pc \in {"inbox", "save"} /\ m \in client[p].todo
                   \/ client[p].pc = "save" /\ m = client[p].id }
RevokedInHand(p) == { m \in MsgIds : client[p].pc = "revoked" /\ m \in client[p].todo }

Shown(m) == GetMessage(m) /\ store[m].plaintext

(* A message goes out of a sync's hands only with a row in the store, a    *)
(* revocation only with its text off the screen, unless the step is one of *)
(* the failures that faults counts.                                        *)
DropsNothing(p) ==
  /\ \A m \in InboxInHand(p) \ InboxInHand(p)' : HasRow(m)' \/ faults' = faults + 1
  /\ \A m \in RevokedInHand(p) \ RevokedInHand(p)' : ~Shown(m)' \/ faults' = faults + 1

(* A bound on the steps before a command under way ends: two for each      *)
(* message of the inbox, one for each revocation it may be told of.        *)
StepsLeft(p) ==
  CASE client[p].pc = "prompt"  -> 0
    [] client[p].pc = "inbox"   -> 2 * Cardinality(client[p].todo) + Cardinality(MsgIds) + 2
    [] client[p].pc = "save"    -> 2 * Cardinality(client[p].todo) + Cardinality(MsgIds) + 3
    [] client[p].pc = "revoked" -> Cardinality(client[p].todo) + 1
    [] OTHER                    -> 1

(* Whatever anybody does, a command under way is left alone or comes       *)
(* nearer to its end.                                                      *)
Advances(p) ==
  \/ client'[p] = client[p]
  \/ client[p].pc = "prompt"
  \/ StepsLeft(p)' < StepsLeft(p)

LEMMA Counts ==
  ASSUME NEW T \in SUBSET MsgIds
  PROVE  /\ Cardinality(T) \in Nat /\ Cardinality(T) <= Cardinality(MsgIds)
         /\ Cardinality(MsgIds) \in Nat
         /\ \A m \in T : Cardinality(T \ {m}) = Cardinality(T) - 1
<1>1. IsFiniteSet(T) /\ Cardinality(T) <= Cardinality(MsgIds)
  BY FiniteIds, FS_Subset
<1> QED
  BY <1>1, FiniteIds, FS_CardinalityType, FS_RemoveElement

(* A process that another one's step leaves alone.                         *)
LEMMA LeftAlone ==
  ASSUME NEW p \in Clients, client'[p] = client[p]
  PROVE  DropsNothing(p) /\ Advances(p)
BY DEF DropsNothing, Advances, InboxInHand, RevokedInHand

(* A command that begins has nothing in hand yet.                          *)
LEMMA Begins ==
  ASSUME NEW p \in Clients, client[p].pc = "prompt"
  PROVE  DropsNothing(p) /\ Advances(p)
BY DEF DropsNothing, Advances, InboxInHand, RevokedInHand

LEMMA Ends ==
  ASSUME ClientInv, NEW p \in Clients, Goto(p, "prompt", NoId, {}),
         client[p].pc # "prompt"
  PROVE  Advances(p)
<1>1. client'[p].pc = "prompt"
  <2>1. client'[p] = [pc |-> "prompt", id |-> NoId, todo |-> {}]
    BY Gone
  <2> QED
    BY <2>1
<1>2. StepsLeft(p)' = 0
  BY <1>1 DEF StepsLeft
<1>3. StepsLeft(p) \in Nat /\ StepsLeft(p) > 0
  BY Counts, CommandNow DEF StepsLeft, Command
<1> QED
  BY <1>2, <1>3 DEF Advances

LEMMA AnswerDropsNothing ==
  ASSUME ClientInv, NEW p \in Clients, AnswerStep(p)
  PROVE  DropsNothing(p) /\ Advances(p)
<1>1. client[p].pc \in {"sent", "deleted", "recalled"} /\ Goto(p, "prompt", NoId, {})
  BY DEF AnswerStep, SaveSent, DeleteLocally, RevokeLocally
<1> QED
  BY <1>1, Ends DEF DropsNothing, InboxInHand, RevokedInHand

LEMMA FaultDropsNothing ==
  ASSUME ClientInv, NEW p \in Clients, SyncSkip(p) \/ Abandon(p)
  PROVE  DropsNothing(p) /\ Advances(p)
<1>1. DropsNothing(p)
  BY DEF SyncSkip, Abandon, Fault, DropsNothing
<1>2. CASE Abandon(p)
  BY <1>1, <1>2, Ends DEF Abandon
<1>3. CASE SyncSkip(p)
  <2>1. PICK m \in client[p].todo : Goto(p, "inbox", NoId, client[p].todo \ {m})
    BY <1>3 DEF SyncSkip
  <2>2. client'[p] = [pc |-> "inbox", id |-> NoId, todo |-> client[p].todo \ {m}]
    BY <2>1, Gone
  <2>3. client'[p].pc = "inbox" /\ client'[p].todo = client[p].todo \ {m}
    BY <2>2
  <2>4. client[p].pc = "inbox" /\ client[p].todo \subseteq MsgIds
    BY <1>3, CommandNow DEF SyncSkip
  <2>5. StepsLeft(p)' < StepsLeft(p)
    BY <2>3, <2>4, Counts DEF StepsLeft
  <2> QED
    BY <1>1, <2>5 DEF Advances
<1> QED
  BY <1>2, <1>3

LEMMA CheckDropsNothing ==
  ASSUME ClientInv, NEW p \in Clients, SyncCheck(p)
  PROVE  DropsNothing(p) /\ Advances(p)
<1>1. client[p].pc = "inbox" /\ client[p].todo \subseteq MsgIds /\ store' = store
  BY CommandNow DEF SyncCheck
<1>2. PICK m \in client[p].todo :
        IF GetMessage(m) THEN Goto(p, "inbox", NoId, client[p].todo \ {m})
                         ELSE Goto(p, "save", m, client[p].todo \ {m})
  BY DEF SyncCheck
<1>3. CASE GetMessage(m)
  <2>1. client'[p] = [pc |-> "inbox", id |-> NoId, todo |-> client[p].todo \ {m}]
    BY <1>2, <1>3, Gone
  <2>2. client'[p].pc = "inbox" /\ client'[p].todo = client[p].todo \ {m}
    BY <2>1
  <2>3. HasRow(m)'
    BY <1>1, <1>3 DEF HasRow, GetMessage
  <2>4. StepsLeft(p)' < StepsLeft(p)
    BY <1>1, <2>2, Counts DEF StepsLeft
  <2> QED
    BY <1>1, <2>2, <2>3, <2>4 DEF DropsNothing, Advances, InboxInHand, RevokedInHand
<1>4. CASE ~GetMessage(m)
  <2>1. client'[p] = [pc |-> "save", id |-> m, todo |-> client[p].todo \ {m}]
    BY <1>2, <1>4, Gone
  <2>2. client'[p].pc = "save" /\ client'[p].id = m /\ client'[p].todo = client[p].todo \ {m}
    BY <2>1
  <2>3. StepsLeft(p)' < StepsLeft(p)
    BY <1>1, <2>2, Counts DEF StepsLeft
  <2> QED
    BY <1>1, <2>2, <2>3 DEF DropsNothing, Advances, InboxInHand, RevokedInHand
<1> QED
  BY <1>3, <1>4

LEMMA SaveDropsNothing ==
  ASSUME ClientInv, NEW p \in Clients, SyncSave(p)
  PROVE  DropsNothing(p) /\ Advances(p)
<1>1. /\ client[p].pc = "save" /\ client[p].id \in MsgIds
      /\ client[p].todo \subseteq MsgIds
      /\ SaveMessage(client[p].id)
  BY CommandNow DEF SyncSave
<1>2. client'[p] = [pc |-> "inbox", id |-> NoId, todo |-> client[p].todo]
  BY Gone DEF SyncSave
<1>3. client'[p].pc = "inbox" /\ client'[p].todo = client[p].todo
  BY <1>2
<1> DEFINE m == client[p].id
<1>4. store'[m].row
  BY <1>1, LocalNow DEF SaveMessage, HasRow, Saved, StoreType
<1>5. StepsLeft(p)' < StepsLeft(p)
  BY <1>1, <1>3, Counts DEF StepsLeft
<1>6. \A k \in InboxInHand(p) \ InboxInHand(p)' : k = m
  BY <1>1, <1>3 DEF InboxInHand
<1>7. \A k \in InboxInHand(p) \ InboxInHand(p)' : HasRow(k)'
  BY <1>4, <1>6 DEF HasRow
<1>8. RevokedInHand(p) = {}
  BY <1>1 DEF RevokedInHand
<1> QED
  BY <1>5, <1>7, <1>8 DEF DropsNothing, Advances

LEMMA RevocationsDropNothing ==
  ASSUME ClientInv, NEW p \in Clients, SyncRevocations(p)
  PROVE  DropsNothing(p) /\ Advances(p)
<1>1. client[p].pc = "inbox" /\ client[p].todo = {} /\ RevokedIds(Me) \subseteq MsgIds
  BY DEF SyncRevocations, RevokedIds
<1>2. client'[p] = [pc |-> "revoked", id |-> NoId, todo |-> RevokedIds(Me)]
  BY Gone DEF SyncRevocations
<1>3. client'[p].pc = "revoked" /\ client'[p].todo = RevokedIds(Me)
  BY <1>2
<1>4. StepsLeft(p)' = Cardinality(RevokedIds(Me)) + 1
  <2> DEFINE T == RevokedIds(Me)
  <2>1. StepsLeft(p)' = Cardinality(client'[p].todo) + 1
    BY <1>3 DEF StepsLeft
  <2> QED
    BY <1>3, <2>1
<1>5. StepsLeft(p) = 2 * Cardinality(client[p].todo) + Cardinality(MsgIds) + 2
  BY <1>1 DEF StepsLeft
<1>6. StepsLeft(p)' < StepsLeft(p)
  BY <1>1, <1>4, <1>5, Counts
<1> QED
  BY <1>1, <1>6 DEF DropsNothing, Advances, InboxInHand, RevokedInHand

LEMMA RevokeOneDropsNothing ==
  ASSUME ClientInv, NEW p \in Clients, SyncRevokeOne(p)
  PROVE  DropsNothing(p) /\ Advances(p)
<1>1. client[p].pc = "revoked" /\ client[p].todo \subseteq MsgIds
  BY CommandNow DEF SyncRevokeOne
<1>2. PICK m \in client[p].todo :
        /\ IF GetMessage(m) /\ ~store[m].revoked THEN MarkRevoked(m) ELSE UNCHANGED store
        /\ Goto(p, "revoked", NoId, client[p].todo \ {m})
  BY DEF SyncRevokeOne
<1>3. client'[p] = [pc |-> "revoked", id |-> NoId, todo |-> client[p].todo \ {m}]
  BY <1>2, Gone
<1>4. client'[p].pc = "revoked" /\ client'[p].todo = client[p].todo \ {m}
  BY <1>3
<1>5. ~Shown(m)'
  <2>1. m \in MsgIds
    BY <1>1
  <2>2. CASE GetMessage(m) /\ ~store[m].revoked
    <3>1. store' = [store EXCEPT ![m].revoked = TRUE, ![m].plaintext = FALSE]
      BY <1>2, <2>2 DEF MarkRevoked, GetMessage, HasRow
    <3> QED
      BY <2>1, <3>1, LocalNow DEF Shown, StoreType
  <2>3. CASE ~(GetMessage(m) /\ ~store[m].revoked)
    BY <1>2, <2>1, <2>3, LocalNow DEF Shown, GetMessage, LocalFollowsServer
  <2> QED
    BY <2>2, <2>3
<1>6. StepsLeft(p)' < StepsLeft(p)
  BY <1>1, <1>4, Counts DEF StepsLeft
<1> QED
  BY <1>1, <1>4, <1>5, <1>6 DEF DropsNothing, Advances, InboxInHand, RevokedInHand

LEMMA DoneDropsNothing ==
  ASSUME ClientInv, NEW p \in Clients, SyncDone(p)
  PROVE  DropsNothing(p) /\ Advances(p)
<1>1. client[p].pc = "revoked" /\ client[p].todo = {}
  BY DEF SyncDone
<1> QED
  BY <1>1, Ends DEF SyncDone, DropsNothing, InboxInHand, RevokedInHand

LEMMA OwnStep ==
  ASSUME ClientInv, NEW p \in Clients, ClientStep(p)
  PROVE  DropsNothing(p) /\ Advances(p)
<1>1. CASE client[p].pc = "prompt"
  BY <1>1, Begins
<1>2. CASE client[p].pc # "prompt"
  BY <1>2, AnswerDropsNothing, FaultDropsNothing, CheckDropsNothing, SaveDropsNothing,
     RevocationsDropNothing, RevokeOneDropsNothing, DoneDropsNothing
  DEF ClientStep, SyncStep, Send, Forward, AskDelete, AskRevoke, SyncInbox
<1> QED
  BY <1>1, <1>2

(* A step touches the command of one process at most.                      *)
LEMMA OthersLeftAlone ==
  ASSUME ClientInv, NEW q \in Clients, ClientStep(q), NEW p \in Clients, p # q
  PROVE  client'[p] = client[p]
<1>1. client \in [Clients -> Command]
  BY CommandNow
<1>2. UNCHANGED client \/ \E pc, id, todo : Goto(q, pc, id, todo)
  BY DEF ClientStep, Send, AskDelete, AskRevoke, Forward, SyncInbox, SyncSkip, SyncStep,
     SyncCheck, SyncSave, SyncRevocations, SyncRevokeOne, SyncDone, AnswerStep, SaveSent,
     DeleteLocally, RevokeLocally, Abandon
<1> QED
  BY <1>1, <1>2 DEF Goto

LEMMA EveryStepAdvances ==
  ASSUME ClientInv, [Next]_clientVars, NEW p \in Clients
  PROVE  DropsNothing(p) /\ Advances(p)
<1>1. CASE UNCHANGED client
  BY <1>1, LeftAlone
<1>2. ASSUME NEW q \in Clients, ClientStep(q)
      PROVE  DropsNothing(p) /\ Advances(p)
  BY <1>2, OwnStep, OthersLeftAlone, LeftAlone
<1> QED
  BY <1>1, <1>2 DEF Next, PeerSends, PeerRevokes, clientVars

(***************************************************************************)
(* The safety part of NewestAreFetched and RevocationReachesThread: what   *)
(* an answer of the server names is not lost on the way to the store, in   *)
(* any interleaving, except by a failure.                                  *)
(***************************************************************************)
THEOREM SyncsDropNothing == Spec => [][\A p \in Clients : DropsNothing(p)]_clientVars
<1>1. ClientInv /\ [Next]_clientVars => \A p \in Clients : DropsNothing(p)
  BY EveryStepAdvances
<1> QED
  BY <1>1, ClientInvHolds, PTL DEF Spec

(***************************************************************************)
(* The other part that their liveness rests on: no command goes round for  *)
(* ever.  Nothing that happens, in this process, another one or at the     *)
(* server, gives a command under way more to do: the natural number of     *)
(* its steps left falls with each of them.                                 *)
(***************************************************************************)
THEOREM CommandsAdvance ==
  Spec => /\ [](\A p \in Clients : StepsLeft(p) \in Nat)
          /\ [][\A p \in Clients : Advances(p)]_clientVars
<1>1. ClientInv => \A p \in Clients : StepsLeft(p) \in Nat
  BY Counts, CommandNow DEF StepsLeft, Command
<1>2. ClientInv /\ [Next]_clientVars => \A p \in Clients : Advances(p)
  BY EveryStepAdvances
<1> QED
  BY <1>1, <1>2, ClientInvHolds, PTL DEF Spec
=============================================================================
