----------------------------- MODULE ClientSync -----------------------------
(***************************************************************************)
(* The C++ client of one user against the server: processes that share one *)
(* store.db (two terminals, say), each doing one blocking command at a     *)
(* time.  A command is a sequence of HTTP requests and of statements on    *)
(* the store; other processes and the peer go on between them, a request   *)
(* may fail before or after the server has acted on it, and a process may  *)
(* be killed anywhere.                                                     *)
(***************************************************************************)
EXTENDS MessageStore

CONSTANTS
  Me, Peer,     (* the user of these processes, and the one they talk to   *)
  Clients,      (* client processes of Me                                  *)
  NoId,         (* no message id                                           *)
  InboxLimit,   (* the LIMIT of GET /messages, 50 by default               *)
  MaxFaults     (* bound on failed requests, skipped messages and kills    *)

ASSUME PeersAssumption == Me \in Users /\ Peer \in Users /\ Me # Peer
ASSUME ClientBounds == InboxLimit \in Nat \ {0} /\ MaxFaults \in Nat /\ ConvIds # {}
ASSUME FiniteIds == IsFiniteSet(MsgIds)
ASSUME NoIdAssumption == NoId \notin MsgIds

VARIABLES
  store,    (* the rows of store.db                                        *)
  client,   (* the command that each process is executing                  *)
  faults    (* failures so far                                             *)

clientVars == <<messages, revocations, store, client, faults>>

(* A row of the store; plaintext says whether the text is still there.     *)
Absent == [row |-> FALSE, plaintext |-> FALSE, deleted |-> FALSE, revoked |-> FALSE]
Saved  == [row |-> TRUE,  plaintext |-> TRUE,  deleted |-> FALSE, revoked |-> FALSE]

Prompt == [pc |-> "prompt", id |-> NoId, todo |-> {}]

Init ==
  /\ StoreInit
  /\ store = [m \in MsgIds |-> Absent]
  /\ client = [p \in Clients |-> Prompt]
  /\ faults = 0

Goto(p, pc, id, todo) ==
  client' = [client EXCEPT ![p] = [pc |-> pc, id |-> id, todo |-> todo]]

Fault == faults < MaxFaults /\ faults' = faults + 1

-----------------------------------------------------------------------------
(* LocalStore.                                                             *)
HasRow(m)     == store[m].row
GetMessage(m) == store[m].row /\ ~store[m].deleted      (* deleted = 0     *)

ReplaceMessage(m) ==         (* mutant: INSERT OR REPLACE                  *)
  store' = [store EXCEPT ![m] = Saved]
SaveMessage(m) ==            (* INSERT OR IGNORE                           *)
  store' = IF HasRow(m) THEN store ELSE [store EXCEPT ![m] = Saved]

MarkDeleted(m) ==
  store' = IF HasRow(m) THEN [store EXCEPT ![m].deleted = TRUE] ELSE store

FlagRevoked(m) ==            (* mutant: the text is kept                   *)
  store' = IF HasRow(m) THEN [store EXCEPT ![m].revoked = TRUE] ELSE store
MarkRevoked(m) ==
  store' = IF HasRow(m)
           THEN [store EXCEPT ![m].revoked = TRUE, ![m].plaintext = FALSE]
           ELSE store

-----------------------------------------------------------------------------
(* The server's side of a send or a forward; sent_at orders the inbox.     *)
Clock == Cardinality({ m \in MsgIds : Stored(m) })

Insert(m, from, to, original) ==
  /\ ~Stored(m)
  /\ \E c \in ConvIds :
       messages' = [messages EXCEPT ![m] = NewMessage(c, from, to, Clock, original)]

PeerSends(m) ==
  /\ Insert(m, Peer, Me, NoMessage)
  /\ UNCHANGED <<revocations, store, client, faults>>

PeerRevokes(m) ==
  /\ Revoke(Peer, m)
  /\ UNCHANGED <<store, client, faults>>

(* GET /messages?box=inbox: ORDER BY sent_at DESC LIMIT.                   *)
InboxOldest ==                       (* mutant: ORDER BY sent_at ASC       *)
  { m \in Listed(Me, "inbox") :
      Cardinality({ k \in Listed(Me, "inbox") :
                      messages[k].sent_at < messages[m].sent_at }) < InboxLimit }
Inbox ==
  { m \in Listed(Me, "inbox") :
      Cardinality({ k \in Listed(Me, "inbox") :
                      messages[k].sent_at > messages[m].sent_at }) < InboxLimit }

-----------------------------------------------------------------------------
(* send_message: POST /messages, then the answer goes to the outbox.       *)
SendNoId(p, m) ==                    (* mutant: message_id not read back   *)
  /\ client[p].pc = "prompt"
  /\ Insert(m, Me, Peer, NoMessage)
  /\ Goto(p, "sent", NoId, {})
  /\ UNCHANGED <<revocations, store, faults>>
Send(p, m) ==
  /\ client[p].pc = "prompt"
  /\ Insert(m, Me, Peer, NoMessage)
  /\ Goto(p, "sent", m, {})
  /\ UNCHANGED <<revocations, store, faults>>

SaveSent(p) ==
  /\ client[p].pc = "sent"
  /\ SaveMessage(client[p].id)
  /\ Goto(p, "prompt", NoId, {})
  /\ UNCHANGED <<messages, revocations, faults>>

(* forward_message: the copy is not saved.                                 *)
Forward(p, m, copy) ==
  /\ client[p].pc = "prompt"
  /\ GetMessage(m)
  /\ store[m].plaintext
  /\ Insert(copy, Me, Peer, m)
  /\ UNCHANGED <<revocations, store, client, faults>>

(* delete_message, of a line of the printed thread, from which another     *)
(* process may have deleted it meanwhile.                                  *)
AskDelete(p, m) ==
  /\ client[p].pc = "prompt"
  /\ HasRow(m)
  /\ Delete(Me, m)
  /\ Goto(p, "deleted", m, {})
  /\ UNCHANGED <<store, faults>>

DeleteLocally(p) ==
  /\ client[p].pc = "deleted"
  /\ MarkDeleted(client[p].id)
  /\ Goto(p, "prompt", NoId, {})
  /\ UNCHANGED <<messages, revocations, faults>>

(* revoke_message, of a message of one's own.                              *)
AskRevoke(p, m) ==
  /\ client[p].pc = "prompt"
  /\ GetMessage(m)
  /\ messages[m].sender_id = Me
  /\ Revoke(Me, m)
  /\ Goto(p, "recalled", m, {})
  /\ UNCHANGED <<store, faults>>

RevokeLocally(p) ==
  /\ client[p].pc = "recalled"
  /\ MarkRevoked(client[p].id)
  /\ Goto(p, "prompt", NoId, {})
  /\ UNCHANGED <<messages, revocations, faults>>

-----------------------------------------------------------------------------
(* sync: the inbox first.                                                  *)
SyncInbox(p) ==
  /\ client[p].pc = "prompt"
  /\ Goto(p, "inbox", NoId, Inbox)
  /\ UNCHANGED <<messages, revocations, store, faults>>

(* The next message of the answer: the sender's key does not check out or  *)
(* the ciphertext does not open, it is there already, or it will be saved. *)
SyncSkip(p) ==
  /\ client[p].pc = "inbox"
  /\ Fault
  /\ \E m \in client[p].todo : Goto(p, "inbox", NoId, client[p].todo \ {m})
  /\ UNCHANGED <<messages, revocations, store>>

SyncCheck(p) ==
  /\ client[p].pc = "inbox"
  /\ \E m \in client[p].todo :
       IF GetMessage(m)
       THEN Goto(p, "inbox", NoId, client[p].todo \ {m})
       ELSE Goto(p, "save", m, client[p].todo \ {m})
  /\ UNCHANGED <<messages, revocations, store, faults>>

SyncSave(p) ==
  /\ client[p].pc = "save"
  /\ SaveMessage(client[p].id)
  /\ Goto(p, "inbox", NoId, client[p].todo)
  /\ UNCHANGED <<messages, revocations, faults>>

(* Then GET /messages/revoked, and each id that is held and not marked.    *)
SyncRevocations(p) ==
  /\ client[p].pc = "inbox"
  /\ client[p].todo = {}
  /\ Goto(p, "revoked", NoId, RevokedIds(Me))
  /\ UNCHANGED <<messages, revocations, store, faults>>

SyncRevokeOne(p) ==
  /\ client[p].pc = "revoked"
  /\ \E m \in client[p].todo :
       /\ IF GetMessage(m) /\ ~store[m].revoked
          THEN MarkRevoked(m)
          ELSE UNCHANGED store
       /\ Goto(p, "revoked", NoId, client[p].todo \ {m})
  /\ UNCHANGED <<messages, revocations, faults>>

SyncDone(p) ==
  /\ client[p].pc = "revoked"
  /\ client[p].todo = {}
  /\ Goto(p, "prompt", NoId, {})
  /\ UNCHANGED <<messages, revocations, store, faults>>

(* An answer is lost, a statement throws or the process is killed: the     *)
(* rest of the command does not happen, what it has done stays.            *)
Abandon(p) ==
  /\ client[p].pc # "prompt"
  /\ Fault
  /\ Goto(p, "prompt", NoId, {})
  /\ UNCHANGED <<messages, revocations, store>>

SyncStep(p) ==
  \/ SyncCheck(p) \/ SyncSave(p)
  \/ SyncRevocations(p) \/ SyncRevokeOne(p) \/ SyncDone(p)

AnswerStep(p) == SaveSent(p) \/ DeleteLocally(p) \/ RevokeLocally(p)

ClientStep(p) ==
  \/ \E m \in MsgIds : Send(p, m) \/ AskDelete(p, m) \/ AskRevoke(p, m)
  \/ \E m, copy \in MsgIds : Forward(p, m, copy)
  \/ SyncInbox(p) \/ SyncSkip(p) \/ SyncStep(p)
  \/ AnswerStep(p)
  \/ Abandon(p)

Next ==
  \/ \E m \in MsgIds : PeerSends(m) \/ PeerRevokes(m)
  \/ \E p \in Clients : ClientStep(p)

Spec == Init /\ [][Next]_clientVars

(***************************************************************************)
(* Fairness.  A process finishes the command it executes, and the chat     *)
(* loop of main.cpp starts a sync whenever 5 s have passed without input,  *)
(* so it starts one again and again unless its user never stops typing.    *)
(***************************************************************************)
FairSpec ==
  /\ Spec
  /\ \A p \in Clients :
       /\ WF_clientVars(SyncStep(p) \/ AnswerStep(p))
       /\ SF_clientVars(SyncInbox(p))

-----------------------------------------------------------------------------
Command ==
  [pc : {"prompt", "sent", "deleted", "recalled", "inbox", "save", "revoked"},
   id : MsgIds \cup {NoId}, todo : SUBSET MsgIds]

(* The command in progress has an id when its next statement needs one,    *)
(* and every local row is of a message the server has.                     *)
ClientTypeOK ==
  /\ StoreTypeOK
  /\ store \in [MsgIds -> [row : BOOLEAN, plaintext : BOOLEAN,
                           deleted : BOOLEAN, revoked : BOOLEAN]]
  /\ client \in [Clients -> Command]
  /\ faults \in 0 .. MaxFaults
  /\ \A p \in Clients :
       client[p].pc \in {"sent", "deleted", "recalled", "save"} => client[p].id \in MsgIds

(***************************************************************************)
(* The store never runs ahead of the server: a row marked deleted is one   *)
(* that the server hides from this user, a row marked revoked one that the *)
(* server has revoked, whatever answers are lost.  A tombstone holds no    *)
(* text.                                                                   *)
(***************************************************************************)
LocalFollowsServer ==
  \A m \in MsgIds :
    /\ store[m].row => Stored(m)
    /\ store[m].deleted => DeletedFor(Me, m)
    /\ store[m].revoked => Revoked(m) /\ ~store[m].plaintext

(***************************************************************************)
(* The comment in LocalStore.cpp on save_message: re-saving never          *)
(* resurrects a locally deleted or revoked row, not even when the inbox in *)
(* hand is older than the deletion by another process.                     *)
(***************************************************************************)
NeverResurrected ==
  [][\A m \in MsgIds :
       /\ store[m].deleted => store'[m].deleted
       /\ store[m].revoked => store'[m].revoked /\ ~store'[m].plaintext]_clientVars

(***************************************************************************)
(* A revocation reaches the thread of every client that goes on syncing:   *)
(* the revoked text is in the end not shown any more.                      *)
(***************************************************************************)
RevocationReachesThread ==
  \A m \in MsgIds : Revoked(m) ~> ~(GetMessage(m) /\ store[m].plaintext)

(***************************************************************************)
(* cpp_client/README.md on sync: it fetches new ciphertexts and saves them *)
(* locally.  What stays among the newest InboxLimit messages listed to the *)
(* user gets a local row, though commands fail and messages are skipped;   *)
(* of an older one that was never fetched nothing is promised, since every *)
(* sync asks for the newest again.                                         *)
(***************************************************************************)
NewestAreFetched ==
  \A m \in MsgIds :
    LET newer == { k \in Listed(Me, "inbox") : messages[k].sent_at > messages[m].sent_at }
        newest == m \in Listed(Me, "inbox") /\ Cardinality(newer) < InboxLimit
    IN  []<>(newest => HasRow(m))
=============================================================================
