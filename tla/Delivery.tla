------------------------------ MODULE Delivery ------------------------------
(***************************************************************************)
(* Messages from end to end: one user's C++ client seals what it sends and *)
(* opens what it fetches, with the keys that trust on first use gives it   *)
(* (module Trust) and the construction of module Envelope, through a       *)
(* server whose rows may come back mixed up: the labels, the encapsulated  *)
(* key and the ciphertext of a row may each be another row's.              *)
(***************************************************************************)
EXTENDS Trust, Envelope

CONSTANTS
  Me,           (* the user of the client, with the key pair MyKey         *)
  MyKey,
  Texts,
  Times,        (* values of sent_at_ms, and those that only a mixed-up    *)
  OtherTimes,   (* row has                                                 *)
  NoTime,       (* a row without sent_at_ms                                *)
  MsgIds,
  NoRow,
  Ephemerals,   (* ephemeral key pairs: bounds the messages sealed         *)
  MaxMixed      (* bound on the mixed-up answers                           *)

ASSUME DeliveryConstants ==
  /\ Me \notin Peers
  /\ MyKey \notin Keys
  /\ NoTime \notin Times \cup OtherTimes
  /\ MaxMixed \in Nat

VARIABLES
  rows,         (* messages on the server                                  *)
  mixed,        (* rows mixed up so far                                    *)
  sealings,     (* every message sealed so far, by anyone                  *)
  messages,     (* messages in store.db                                    *)
  task          (* the send or sync each process is executing              *)

mailVars == <<rows, mixed, sealings>>
vars == <<trustVars, mailVars, messages, task>>

Users == Peers \cup {Me}

AnyTime == Times \cup OtherTimes \cup {NoTime}

KeyOf(n) == IF n = Me THEN MyKey ELSE published[n].key

kMsgInfo == "eternal-blue-msg-v1"

(* make_aad, of a row or of a sealing.                                     *)
AadWithoutSender(m) == <<m.recipient_id, m.sent_at_ms>>          (* mutant *)
Aad(m) == <<m.sender_id, m.recipient_id, m.sent_at_ms>>

(* What somebody sealed: the labels, the text, and the keys of the sender, *)
(* of the recipient and of the envelope.                                   *)
Sealing(from, to, time, text, skS, pkR, skE) ==
  [sender_id |-> from, recipient_id |-> to, sent_at_ms |-> time,
   plaintext |-> text, skS |-> skS, pkR |-> pkR, skE |-> skE]

EnvelopeOf(s) == SealAuth(s.pkR, s.skS, s.skE, kMsgInfo, Aad(s), s.plaintext)

(* The row the server keeps of a sealing.                                  *)
RowOf(id, s) ==
  [message_id |-> id, sender_id |-> s.sender_id, sender_username |-> s.sender_id,
   recipient_id |-> s.recipient_id, sent_at_ms |-> s.sent_at_ms,
   enc |-> EnvelopeOf(s).enc, ciphertext |-> EnvelopeOf(s).ciphertext]

(* The row as store.db keeps it, with its text.                            *)
Stored(m, text) == [row |-> m, plaintext |-> text]

Idle == [kind |-> "idle", mail |-> NoRow, batch |-> {}, tried |-> {}, cache |-> {}]

Fresh == { e \in Ephemerals : \A s \in sealings : s.skE # e }

DeliveryInit ==
  /\ Init
  /\ rows = [i \in MsgIds |-> NoRow]
  /\ mixed = 0
  /\ sealings = {}
  /\ messages = [i \in MsgIds |-> NoRow]
  /\ task = [p \in Processes |-> Idle]

Into(p, t) == task' = [task EXCEPT ![p] = t]

-----------------------------------------------------------------------------
(* The rest of the world: owners rotate their keys, peers' clients seal    *)
(* and post with theirs, and rows are mixed up.                            *)
OthersKeep(n) == \A q \in Peers \ {n} : published[q].version = 1        (* bound *)

PeerRotates ==
  /\ \E n \in Peers, key \in Keys : OthersKeep(n) /\ UpdateKey(n, key)
  /\ UNCHANGED <<mailVars, messages, task>>

PeerSends ==
  /\ \E n \in Peers, to \in Users, time \in Times, text \in Texts, e \in Fresh,
        id \in MsgIds :
       LET s == Sealing(n, to, time, text, KeyOf(n), KeyOf(to), e)
       IN /\ n # to
          /\ rows[id] = NoRow
          /\ rows' = [rows EXCEPT ![id] = RowOf(id, s)]
          /\ sealings' = sealings \cup {s}
  /\ UNCHANGED <<trustVars, mixed, messages, task>>

Misread(m, other) ==
  { [m EXCEPT !.sender_id = n] : n \in Peers }
    \cup { [m EXCEPT !.sender_username = n] : n \in Peers }
    \cup { [m EXCEPT !.recipient_id = n] : n \in Users }
    \cup { [m EXCEPT !.sent_at_ms = time] : time \in AnyTime }
    \cup { [m EXCEPT !.enc = other.enc], [m EXCEPT !.ciphertext = other.ciphertext] }

RowsMixUp ==
  /\ mixed < MaxMixed
  /\ \E i \in MsgIds, j \in MsgIds, id \in MsgIds :
       /\ rows[i] # NoRow /\ rows[j] # NoRow
       /\ \E m \in Misread(rows[i], rows[j]) :
            rows' = [rows EXCEPT ![id] = [m EXCEPT !.message_id = id]]
  /\ mixed' = mixed + 1
  /\ UNCHANGED <<trustVars, sealings, messages, task>>

-----------------------------------------------------------------------------
(* send_message and forward_message: look the recipient up, seal, post; a  *)
(* message sent is kept in the store, a forwarded one is not.              *)
Prepare(p, n, kind, text) ==
  /\ task[p] = Idle
  /\ LookupUser(p, n)
  /\ Into(p, [Idle EXCEPT !.kind = kind, !.mail = text])
  /\ UNCHANGED <<mailVars, messages>>

SendMessage(p, n, text) == Prepare(p, n, "send", text)

ForwardMessage(p, n, id) ==
  messages[id] # NoRow /\ Prepare(p, n, "forward", messages[id].plaintext)

SealForPublished(p, time, e) ==      (* mutant: not the key looked up      *)
  LET s == Sealing(Me, command[p].peer, time, task[p].mail, MyKey,
                   published[command[p].peer].key, e)
  IN /\ task[p].kind \in {"send", "forward"}
     /\ UseKey(p)
     /\ sealings' = sealings \cup {s}
     /\ Into(p, [task[p] EXCEPT !.kind = IF @ = "send" THEN "post" ELSE "repost",
                                !.mail = s])
     /\ UNCHANGED <<rows, mixed, messages>>
Seal(p, time, e) ==
  LET s == Sealing(Me, command[p].peer, time, task[p].mail, MyKey,
                   command[p].fetched.key, e)
  IN /\ task[p].kind \in {"send", "forward"}
     /\ UseKey(p)
     /\ sealings' = sealings \cup {s}
     /\ Into(p, [task[p] EXCEPT !.kind = IF @ = "send" THEN "post" ELSE "repost",
                                !.mail = s])
     /\ UNCHANGED <<rows, mixed, messages>>

(* The message is created; its answer, 201 with its id, may be lost.       *)
Post(p, id, answered) ==
  /\ task[p].kind \in {"post", "repost"}
  /\ rows[id] = NoRow
  /\ rows' = [rows EXCEPT ![id] = RowOf(id, task[p].mail)]
  /\ messages' =
       IF answered /\ task[p].kind = "post"
       THEN [messages EXCEPT ![id] = Stored(RowOf(id, task[p].mail), task[p].mail.plaintext)]
       ELSE messages
  /\ Into(p, Idle)
  /\ UNCHANGED <<trustVars, mixed, sealings>>

(* The lookup throws, with a changed key or otherwise; a post is refused;  *)
(* the store throws; the process ends: nothing more of the task happens.   *)
(* A sync that has handled every row ends too.                             *)
TaskEnds(p) ==
  /\ task[p] # Idle
  /\ \/ command[p] = Prompt /\ UNCHANGED trustVars
     \/ task[p].kind # "sender" /\ KeyChanged(p)
     \/ GiveUp(p)
  /\ Into(p, Idle)
  /\ UNCHANGED <<mailVars, messages>>

-----------------------------------------------------------------------------
(* sync: one inbox is fetched, then each row is parsed, its sender looked  *)
(* up unless the cache of this sync has the name, opened and saved.  batch *)
(* is what is left of it and tried what it came to open.  A row under the  *)
(* user's own name is left out: it would carry what this user sealed for a *)
(* peer, which does not open with the user's own key.                      *)
Inbox ==
  { m \in { rows[i] : i \in MsgIds } :
      m # NoRow /\ m.recipient_id = Me /\ m.sender_username # Me }

Sync(p) ==
  /\ task[p] = Idle
  /\ command[p] = Prompt
  /\ Into(p, [Idle EXCEPT !.kind = "sync", !.batch = Inbox])
  /\ UNCHANGED <<trustVars, mailVars, messages>>

(* from_json rejects a row without sent_at_ms: sent_at comes with          *)
(* milliseconds, which the fallback's pattern does not take.               *)
Malformed(m) == m.sent_at_ms = NoTime

SkipMalformed(p, m) ==
  /\ task[p].kind = "sync"
  /\ m \in task[p].batch
  /\ Malformed(m)
  /\ Into(p, [task[p] EXCEPT !.batch = @ \ {m}])
  /\ UNCHANGED <<trustVars, mailVars, messages>>

CachedAny(p, m) == task[p].cache     (* mutant: the name is not compared   *)
Cached(p, m) == { c \in task[p].cache : c.name = m.sender_username }

LookupSender(p, m) ==
  /\ task[p].kind = "sync"
  /\ m \in task[p].batch
  /\ ~Malformed(m)
  /\ Cached(p, m) = {}
  /\ LookupUser(p, m.sender_username)
  /\ Into(p, [task[p] EXCEPT !.kind = "sender", !.mail = m])
  /\ UNCHANGED <<mailVars, messages>>

SenderUnknown(p) ==
  /\ task[p].kind = "sender"
  /\ KeyChanged(p) \/ (command[p].pc # "use" /\ GiveUp(p))
  /\ Into(p, [task[p] EXCEPT !.kind = "sync", !.mail = NoRow,
                             !.batch = @ \ {task[p].mail}])
  /\ UNCHANGED <<mailVars, messages>>

(* What opens and is not in the store yet is saved.                        *)
OpenOrKeep(m, key) ==                (* mutant: what does not open is kept *)
  LET opened == OpenAuth(m.enc, MyKey, key, kMsgInfo, Aad(m), m.ciphertext)
  IN /\ messages[m.message_id] = NoRow
     /\ messages' = [messages EXCEPT ![m.message_id] =
          Stored(m, IF opened = {} THEN NoRow ELSE CHOOSE text \in opened : TRUE)]
Open(m, key) ==
  LET opened == OpenAuth(m.enc, MyKey, key, kMsgInfo, Aad(m), m.ciphertext)
  IN \/ /\ opened = {} \/ messages[m.message_id] # NoRow
        /\ UNCHANGED messages
     \/ /\ messages[m.message_id] = NoRow
        /\ \E text \in opened :
             messages' = [messages EXCEPT ![m.message_id] = Stored(m, text)]

OpenFirst(p) ==
  /\ task[p].kind = "sender"
  /\ UseKey(p)
  /\ Open(task[p].mail, command[p].fetched.key)
  /\ Into(p, [task[p] EXCEPT
                !.kind = "sync", !.mail = NoRow,
                !.batch = @ \ {task[p].mail}, !.tried = @ \cup {task[p].mail},
                !.cache = @ \cup {[name |-> command[p].peer, key |-> command[p].fetched.key]}])
  /\ UNCHANGED mailVars

OpenCached(p, m) ==
  /\ task[p].kind = "sync"
  /\ m \in task[p].batch
  /\ ~Malformed(m)
  /\ \E c \in Cached(p, m) : Open(m, c.key)
  /\ Into(p, [task[p] EXCEPT !.batch = @ \ {m}, !.tried = @ \cup {m}])
  /\ UNCHANGED <<trustVars, mailVars>>

-----------------------------------------------------------------------------
(* The steps of a lookup, and trust NAME --confirm-rotation between tasks. *)
Lookup(p) ==
  /\ FirstContact(p) \/ PinFetched(p) \/ KeyMatches(p)
  /\ UNCHANGED <<mailVars, messages, task>>

Confirm(p) ==
  /\ task[p] = Idle
  /\ \/ \E n \in Peers : ConfirmRotation(p, n)
     \/ ConfirmFirst(p) \/ PinFirst(p) \/ NothingToConfirm(p)
     \/ Ask(p) \/ AnswerYes(p) \/ GiveUp(p)
  /\ UNCHANGED <<mailVars, messages, task>>

Client(p) ==
  \/ \E n \in Peers, text \in Texts : SendMessage(p, n, text)
  \/ \E n \in Peers, id \in MsgIds : ForwardMessage(p, n, id)
  \/ \E time \in Times, e \in Fresh : Seal(p, time, e)
  \/ \E id \in MsgIds, answered \in BOOLEAN : Post(p, id, answered)
  \/ TaskEnds(p) \/ Sync(p)
  \/ \E m \in task[p].batch :
       SkipMalformed(p, m) \/ LookupSender(p, m) \/ OpenCached(p, m)
  \/ SenderUnknown(p) \/ OpenFirst(p)
  \/ Lookup(p) \/ Confirm(p)

DeliveryNext ==
  \/ PeerRotates \/ PeerSends \/ RowsMixUp
  \/ \E p \in Processes : Client(p)

DeliverySpec == DeliveryInit /\ [][DeliveryNext]_vars

-----------------------------------------------------------------------------
KeyPairs == Keys \cup {MyKey}

SealingRecord ==
  [sender_id : Users, recipient_id : Users, sent_at_ms : Times, plaintext : Texts,
   skS : KeyPairs, pkR : KeyPairs, skE : Ephemerals]

Ciphertexts == { EnvelopeOf(s).ciphertext : s \in SealingRecord }

Row ==
  [message_id : MsgIds, sender_id : Users, sender_username : Users,
   recipient_id : Users, sent_at_ms : AnyTime, enc : Ephemerals, ciphertext : Ciphertexts]

StoredMessage == [row : Row, plaintext : Texts]

ASSUME NoRowAssumption == NoRow \notin Row \cup StoredMessage

(* What a task holds of the mail it is about.                              *)
MailOf(kind) ==
  CASE kind \in {"send", "forward"} -> Texts
    [] kind \in {"post", "repost"}  -> SealingRecord
    [] kind = "sender"              -> Row
    [] OTHER                        -> {NoRow}

TaskRecord(kind) ==
  [kind : {kind}, mail : MailOf(kind), batch : SUBSET Row, tried : SUBSET Row,
   cache : SUBSET [name : Peers, key : Keys]]

TaskKinds == {"idle", "send", "forward", "post", "repost", "sync", "sender"}

DeliveryTypeOK ==
  /\ TrustTypeOK
  /\ rows \in [MsgIds -> Row \cup {NoRow}]
  /\ mixed \in 0 .. MaxMixed
  /\ sealings \in SUBSET SealingRecord
  /\ messages \in [MsgIds -> StoredMessage \cup {NoRow}]
  /\ DOMAIN task = Processes
  /\ \A p \in Processes : \E kind \in TaskKinds : task[p] \in TaskRecord(kind)

(* Row m carries sealing s as it was sealed.                               *)
Carries(m, s) ==
  /\ m.sender_id = s.sender_id
  /\ m.recipient_id = s.recipient_id
  /\ m.sent_at_ms = s.sent_at_ms
  /\ m.enc = EnvelopeOf(s).enc
  /\ m.ciphertext = EnvelopeOf(s).ciphertext

(***************************************************************************)
(* docs/protocol.draft.md, why the AAD has sender, recipient and time: an  *)
(* envelope cannot be re-routed and history cannot be rewritten.  What a   *)
(* sync saves is what somebody sealed, with these labels and this text,    *)
(* for this user's key, and with the key pinned for the name the message   *)
(* is shown under, whatever the rows of the answer were mixed up to.       *)
(***************************************************************************)
SavedIsAuthentic ==
  [][\A i \in MsgIds :
       messages[i] = NoRow /\ messages'[i] # NoRow /\ messages'[i].row.sender_id # Me
         => \E s \in sealings :
              /\ Carries(messages'[i].row, s)
              /\ s.plaintext = messages'[i].plaintext
              /\ s.recipient_id = Me
              /\ s.pkR = MyKey
              /\ s.skS = pinned[messages'[i].row.sender_username].key]_vars

(***************************************************************************)
(* Nothing that can be opened is skipped: a row a sync has tried to open   *)
(* is in the store if it carries a message sealed for this user's key with *)
(* the key pinned for its sender, whichever of the two lookups, the fetch  *)
(* or the cache, the key came from.                                        *)
(***************************************************************************)
SyncSavesWhatOpens ==
  \A p \in Processes : \A m \in task[p].tried :
    (\E s \in sealings : /\ Carries(m, s)
                         /\ s.pkR = MyKey
                         /\ pinned[m.sender_username] # NoPin
                         /\ s.skS = pinned[m.sender_username].key)
      => messages[m.message_id] # NoRow

(***************************************************************************)
(* cpp_client/README.md: a lookup must match the pin or the operation      *)
(* aborts.  What this user seals, sent or forwarded, is sealed for the key *)
(* pinned for the recipient at that moment.                                *)
(***************************************************************************)
SealsForThePinned ==
  [][\A s \in sealings' \ sealings :
       s.skS = MyKey => s.pkR = pinned[s.recipient_id].key]_vars
=============================================================================
