---------------------------- MODULE MessageStore ----------------------------
(***************************************************************************)
(* The messages and revocations tables of the backend, the handlers of     *)
(* routes/messages.js that change one row with one statement, and what     *)
(* each read endpoint reports about a message.                             *)
(***************************************************************************)
EXTENDS Naturals, FiniteSets

CONSTANTS
  Users,       (* user ids, compared as the UUIDs are                      *)
  MsgIds,      (* values of messages.id                                    *)
  ConvIds,     (* values of conversations.id                               *)
  NoMessage    (* the row of an id that is not in use; a NULL reference    *)

ASSUME UsersAssumption == Users \subseteq Nat

VARIABLES
  messages,    (* messages[m] is the row of m, or NoMessage                *)
  revocations  (* the rows of the revocations table                        *)

storeVars == <<messages, revocations>>

MessageRow ==
  [conversation_id : ConvIds, sender_id : Users, recipient_id : Users,
   sent_at : Nat, original_message_id : MsgIds \cup {NoMessage},
   read : BOOLEAN, deleted_by_sender : BOOLEAN, deleted_by_recipient : BOOLEAN]

ASSUME NoMessageAssumption == NoMessage \notin MsgIds \cup Users \cup MessageRow

Revocation == [message_id : MsgIds, revoked_by : Users]

StoreInit ==
  /\ messages = [m \in MsgIds |-> NoMessage]
  /\ revocations = {}

Stored(m)  == messages[m] # NoMessage
Revoked(m) == \E r \in revocations : r.message_id = m
Parties(m) == {messages[m].sender_id, messages[m].recipient_id}

(* The row that a send (original = NoMessage) or a forward inserts.        *)
NewMessage(c, from, to, time, original) ==
  [conversation_id |-> c, sender_id |-> from, recipient_id |-> to,
   sent_at |-> time, original_message_id |-> original, read |-> FALSE,
   deleted_by_sender |-> FALSE, deleted_by_recipient |-> FALSE]

-----------------------------------------------------------------------------
(* GET /messages: not deleted on the caller's side, and not revoked.       *)
InBox(u, m, box) ==
  \/ box # "inbox"  /\ messages[m].sender_id = u
  \/ box # "outbox" /\ messages[m].recipient_id = u

Listed(u, box) ==
  { m \in MsgIds :
      /\ Stored(m)
      /\ InBox(u, m, box)
      /\ messages[m].sender_id # u    \/ ~messages[m].deleted_by_sender
      /\ messages[m].recipient_id # u \/ ~messages[m].deleted_by_recipient
      /\ ~Revoked(m) }

(* GET /messages/revoked: no attention to deletion.                        *)
RevokedIds(u) == { m \in MsgIds : Stored(m) /\ Revoked(m) /\ u \in Parties(m) }

(* GET /messages/:id: the first test that applies decides the answer.      *)
DeletedFor(u, m) ==
  \/ messages[m].sender_id = u    /\ messages[m].deleted_by_sender
  \/ messages[m].recipient_id = u /\ messages[m].deleted_by_recipient

GetStatus(u, m) ==
  CASE ~Stored(m)                                        -> "404"
    [] Stored(m) /\ u \notin Parties(m)                  -> "403"
    [] Stored(m) /\ u \in Parties(m) /\ DeletedFor(u, m) -> "404"
    [] Stored(m) /\ u \in Parties(m) /\ ~DeletedFor(u, m)
       /\ Revoked(m)                                     -> "REVOKED"
    [] OTHER                                             -> "200"

(* The WHERE clause of GET /conversations/:id/messages and of its count.   *)
ThreadBothFlags(u, c) ==     (* mutant: one side's deletion hides it from both *)
  { m \in MsgIds :
      /\ Stored(m)
      /\ messages[m].conversation_id = c
      /\ ~messages[m].deleted_by_sender /\ ~messages[m].deleted_by_recipient
      /\ ~Revoked(m) }
Thread(u, c) ==
  { m \in MsgIds :
      /\ Stored(m)
      /\ messages[m].conversation_id = c
      /\ ~messages[m].deleted_by_sender    \/ messages[m].sender_id # u
      /\ ~messages[m].deleted_by_recipient \/ messages[m].recipient_id # u
      /\ ~Revoked(m) }

-----------------------------------------------------------------------------
(* DELETE /messages/:id: the sender's flag if the caller is the sender,    *)
(* else the recipient's.                                                   *)
FlagDeletedBoth(u, m) ==     (* mutant: deleted for everybody              *)
  [messages[m] EXCEPT !.deleted_by_sender = TRUE, !.deleted_by_recipient = TRUE]
FlagDeletedSender(u, m) ==   (* mutant: the sender's flag whoever asks     *)
  [messages[m] EXCEPT !.deleted_by_sender = TRUE]
FlagDeleted(u, m) ==
  IF u = messages[m].sender_id
  THEN [messages[m] EXCEPT !.deleted_by_sender = TRUE]
  ELSE [messages[m] EXCEPT !.deleted_by_recipient = TRUE]

Delete(u, m) ==
  /\ Stored(m)
  /\ u \in Parties(m)
  /\ messages' = [messages EXCEPT ![m] = FlagDeleted(u, m)]
  /\ UNCHANGED revocations

(* DELETE /messages/:id/revoke: by the sender of this row; once revoked,   *)
(* ON CONFLICT DO NOTHING.                                                 *)
MayRevoke(u, m) == Stored(m) /\ messages[m].sender_id = u

Revoke(u, m) ==
  /\ MayRevoke(u, m)
  /\ revocations' = IF Revoked(m) THEN revocations
                    ELSE revocations \cup {[message_id |-> m, revoked_by |-> u]}
  /\ UNCHANGED messages

-----------------------------------------------------------------------------
StoreTypeOK ==
  /\ messages \in [MsgIds -> MessageRow \cup {NoMessage}]
  /\ revocations \in SUBSET Revocation
=============================================================================
