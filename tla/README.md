# Eternal Blue, specified in TLA+

Eternal Blue is an end-to-end encrypted messenger: a Node.js backend over
PostgreSQL, a service that anchors digests of the ciphertexts on the Sepolia
chain, a public page that verifies them, a C++ terminal client and a web app.
This directory holds TLA+ models of its stateful parts, the TLC configurations
that check them on small instances, and TLAPS proofs of their main properties
for every instance.  `PROJECT.json` lists, for every definition that models
code, the lines it stands for.  Paths below are relative to the repository.

## 1. Inventory

| Component | State | Operations | Talks to |
|---|---|---|---|
| Message handlers, `backend/routes/messages.js`, `conversations.js` | tables `conversations`, `messages`, `revocations`, `digest_queue` | send, forward, delete (one side), revoke, mark read, list, get, thread, revoked ids | both clients (HTTP), the digest service (table) |
| Digest service, `backend/digest-service/index.js`, `flush.js`, `MessageDigest.sol` | `digest_queue.batch_id`, `blockchain_records`, the chain, one local state per invocation | select, hash, submit, wait, record, stamp, retry | the message handlers (table), an RPC node |
| Verification, `backend/routes/blockchain.js`, `frontend/verification/index.html` | none but the page's check in progress | three requests and a verdict | the tables above, the chain |
| Accounts, `backend/routes/auth.js` | table `users`: password hash, public key, wrapped private key | register, login, change password | both clients |
| Key publication, `backend/routes/keys.js` | `users.public_key`, `key_version` | look up, rotate | both clients |
| C++ client: store and sync, `cpp_client/src/Client.cpp`, `LocalStore.cpp` | table `messages` of `store.db` | send, forward, delete, revoke, sync | the message handlers |
| C++ client: session and keystore, `Client.cpp`, `Keystore.cpp` | `keys.bin`; token, user id, user name, key and `logged_in_` in memory | signup, login, logout | accounts |
| C++ client: trust, `Client.cpp`, `TrustStore.cpp` | table `pinned_keys` of `store.db` | look up or pin, confirm a rotation | key publication |
| C++ client: prompt and chat loop, `main.cpp` | the line being typed, the displayed thread, `pending_refresh` | REPL commands, 5 s idle sync | the client's other parts |
| C++ client: cryptography, encoding, `CryptoContext.cpp`, `Message.cpp`, `User.cpp`, `Base64.cpp` | none between calls | seal, open, wrap, unwrap, encode, parse | |
| C++ client: transport, `HttpClient.cpp`, `TlsConnection.cpp` | during a request: a descriptor, an `SSL_CTX`, an `SSL`, what was written and read | connect, handshake, write, read to the end, parse | the server (TLS) |
| Web app, `frontend/app/app.js` | the object `S`; `eb_key:<user>`, `eb_tofu`, `eb_sent` in `localStorage` | register, login, change password, log out; open, send, forward, delete, revoke | the backend |
| Server shell, `backend/server.js`, `db/index.js` | a pool, rate limit counters | plugins, static files | |

What is hard here, and what a unit test hardly reaches:

* **Interleaving.**  The backend is one Node.js process over a pool of
  connections: at every `await` of a query other handlers run.  `setInterval`
  starts `flushDigestBatch` again without waiting for the earlier invocation,
  and `flush.js` can run beside `index.js`.  Two terminals of one user share a
  `store.db` and a `keys.bin`.  Two browsers change one password.
* **Partial failure.**  A flush is a chain transaction and two separate SQL
  statements; a change of password is a row on the server and an item in
  `localStorage`; a signup is a file and a row.  Any of these can stop between.
* **Lost answers.**  A request can fail after the server acted on it, for every
  client.
* **Staleness.**  An inbox in hand, a pin just read, a hash just verified, a
  local wrapped key: each is used after it may have changed.
* **Bounds.**  `LIMIT 50` on the inbox and on a thread; `MAX_ATTEMPTS` retries;
  128 bytes of the terminal's input at a time.
* **A page between two awaits.**  Every handler of the web app stops at each
  request and each cryptographic call, and any other may run: the user types,
  opens another conversation, logs out.
* **A blocked loop.**  The chat loop is one thread: while it waits for the server
  the terminal collects what is typed, and the user goes by a screen that is
  about to change.

`PROJECT.json` lists each of these at its line under `hazards`.  What makes each
component correct:

* handlers: one conversation per pair; a message and its digest together; the
  three visibility filters agree; boxes change only as the mailbox promises;
* pipeline: a stamp leads to a real anchor; a batch verifies; every digest is
  anchored in the end;
* page: PASS is sound; a genuine message is never given FAIL;
* store: local marks are backed by the server; nothing comes back; revocations
  and the newest messages arrive;
* session: a published key can be recovered; token and user id are one user's;
* trust: only pinned keys are used; only a confirmation replaces a pin;
* delivery: what is saved was sealed as it is shown, what opens is saved, and
  what is sent is sealed for the pinned key;
* chat loop: the line on the screen is the line that will be executed, a number
  means the message it stood beside, no change goes unnoticed;
* transport: no handle is lost, nobody but the verified server is told anything,
  and an outcome is true: a success has taken effect, a 4xx has not;
* web conversations: the texts kept and shown for a message are its own, what is
  posted opens for its recipient, no spinner stays for ever, and the conversation
  a page is in is one the server has, with the peer it shows;
* web accounts: the server's copy of the key opens with the password that logs
  in; a page has a token only of an account there is.

## 2. Modules

```
MessageStore ── MessageServer ── MessageRefinement ─(INSTANCE)─ Mailbox
     │                                  └──────────(INSTANCE)─ DigestService ── VerificationPage
     │                                                              └── AnchoringRefinement ─(INSTANCE)─ Anchoring
     └── ClientSync ── ReplicaRefinement ─(INSTANCE)─ Replica ── Mailbox
Accounts ── WebAccount
        └── ClientSession
Trust ────┐
Envelope ─┴─ Delivery
ChatLoop        Transport        WebChat
```

**MessageStore** holds the two tables that handlers and clients share and every
one-statement operation on them: `Delete` and `Revoke`, and what `GET
/messages`, `GET /messages/:id`, `GET /messages/revoked` and the thread endpoint
report (`Listed`, `GetStatus`, `RevokedIds`, `Thread`).  The SELECT
that `Delete` and `Revoke` begin with reads only columns that never change
(sender and recipient), so check and update are one step.

**MessageServer** splits a send and a forward at each `await`: receive, SELECT
the conversation, INSERT it under the table's UNIQUE and CHECK, BEGIN (which
fixes `NOW()`), UPDATE the conversation (which waits for the row lock), COMMIT.
What a transaction has written becomes visible at COMMIT; `Fail` is an error or
a rollback at any point.  Ids of users are numbers because the code orders them;
a digest is identified with its message.  The lookup of the recipient is part of
receiving, since users are never deleted.

**Mailbox** is the abstract specification: boxes, authors and recalls, with no
tables or requests.  **MessageRefinement** maps the tables to it
(`ImplementsMailbox`) and shows that each commit is an `Enqueue` of the pipeline
(`FeedsPipeline`).

**DigestService** models every invocation of `flushDigestBatch` as a flusher
with a program counter; each call to the database or the chain succeeds, fails
before its effect, or fails after it.  A batch hash is the set of rows with the
order they were concatenated in: what keccak256 can tell apart.  The chain is
the set of mined transactions.  Times of retries are left out, so that an
invocation may last longer than the interval.

**Anchoring** is what the pipeline promises: items wait, batches of them get on a
chain, an item stops waiting with all of a batch that is there, which is its
evidence until another batch replaces it.  **AnchoringRefinement** maps the tables
and the chain to it (`ImplementsAnchoring`): the evidence of a row is what its
stamp leads to through `blockchain_records`.

**VerificationPage** adds one check by the page, with its three requests as
three steps beside the pipeline.

**ClientSync** extends MessageStore with one user's client processes: each
command is a sequence of requests and statements on the store, one action each.
The peer acts between them, and `Abandon` ends a command anywhere, which is what
a lost answer, an exception or a kill does.  A peer is modelled on the server
only.  `sent_at` is the number of messages stored before.

**Replica** is what all those processes together promise: the boxes of Mailbox,
and copies that lag behind them.  A message gets a copy once; the copy is put out
of sight only when the message is not in the user's box, loses its text only when
the message was recalled, both for ever.  **ReplicaRefinement** maps the rows of
`store.db` to it (`ImplementsReplica`), and the server's tables to Mailbox as
MessageRefinement does.

**Accounts** is the `users` table with `/auth`.  A hash is the password it
verifies, a key pair is one value, a wrapped key is a pair of key and password.
**WebAccount** is the account half of `app.js`: `tasks` are the handlers
`doRegister`, `doLogin` and `doChangePassword` under way, each a record of the
await it is at and of what it has captured; `S` is the page's object and `eb_key`
its `localStorage`.  Handlers of one page overlap, as Enter starts another while a
button is disabled.  `Logout` is the button, or the 401 that answers any request
the page has sent since it first showed the app: it comes at any await, those of
a login included (`screen` = "left" is the login screen after the app), and a
login goes on with what it left of `S`: `PrivateKeyRead` sets the private key
behind the login screen, ends the handler if the suite is gone, and `PublicKeyRead`
shows the app whoever is logged in by then.  Login and PATCH are each split into
reading the row and what follows the verification.
**ClientSession** is `signup`, `login` and `logout` with the `keys.bin` of one
machine: opening the file with `O_TRUNC` and writing it are two steps.

**Trust** is `lookup_or_pin` and `confirm_rotation`: the fetch, the reading of
the pin and the writing of the pin are separate steps, and owners rotate their
keys between them.

**Envelope** is `CryptoContext`: HPKE in Mode_Auth, step by step from the
labelled HKDF calls up to `seal_auth` and `open_auth`, and the wrapping of the
secret key.  Only libsodium's primitives are symbolic: a hash is the tuple of its
inputs, a Diffie-Hellman secret the set of the two key pairs, and a ciphertext
opens for the key, nonce and associated data it was made with.

**Delivery** composes Trust and Envelope into `send_message`, `forward_message`
and `sync` of one user's client: the lookup of Trust, then sealing, then the
POST; or one inbox, whose rows are each parsed, their sender looked up unless
this sync has the name in its cache, opened and saved.  Peers send and rotate
their keys between any two steps.  `sealings` is a history of everything sealed,
by which the properties speak of what a row should be; `RowsMixUp` lets the
answer of the server confuse any two rows.  Nothing is written twice: a task is
Trust's `command` together with what the client does before and after it.

**ChatLoop** is `run_chat`.  Its state is that function's (`displayed`,
`input`, `pending_refresh`, the bytes in `buf`), the line of the screen the
cursor is on, and the thread of `store.db`, which changes at any time.  A word is
typed and erased as a whole.  Each typed number carries, for the properties
only, the message that stood beside it and whether the loop had echoed
everything typed before.

**Transport** is `HttpClient::request` with its `TlsConnection`: each address,
each call of the constructor, the loops of `write` and `read_all` and
`parse_http_response`, with the place every exception leaves from.  `link` is the
other end, which may be another server, and otherwise does what a handler of the
backend does: it refuses with a 4xx before it writes anything (`Refuses`); it
answers a success when the COMMIT, or the only statement, has been acknowledged
(`Executes`); or a statement throws and it answers 500 (`Errs`), which says
nothing, since what was lost may be the acknowledgement of a COMMIT that is
durable (`TakesEffect`).  A handler whose connection has ended goes on.  The
connection closes with or without close_notify, or fails.  `held` counts what the process has open and `conn.own` what the object
knows of.

**WebChat** is the other half of `app.js`: one page, the `eb_tofu` and `eb_sent`
of its browser, and the server.  `tasks` holds the handlers under way, each a
record of the place it waits at and the values it has captured; what a handler
reads from `S`, `localStorage` or the input after an await is read from the
variable of that name.  A request whose answer matters to more than one step
(the key, the POST, the deletion) is served and answered in two steps, so that
answers overtake each other; a thread is read when its answer arrives, and is
old by the time it has been rendered.  Every request can fail, before or after
the server has acted, or come back with a 401, which logs out.  A logout meets
handlers at any await.  `doLogin` and `doRegister` are handlers like the others as
far as they change `S`: another account may log in before the others go on, and
overlapping logins leave two halves of two key pairs (`KeyPair`).  A login takes
the key kept in this browser to be the account's own; WebAccount says when it is.
What stands in a modal can be pressed at any time, also behind the login screen.
`fetchPeerKey` pins in one step and imports the key in the next (`KeyArrives`, then
`OpenExisting`, `NewConversation`, `Seal` or `Decrypt`); nothing looks at `S` in
between, so that a conversation can be opened on a page nobody is logged in to,
or for the next account.  A conversation's id is the pair of its account and its
peer, so that an id left from another account is one the server refuses
(`ThreadRefused`).  Rows of `messages` carry their envelope as the two keys and the
two ids it binds.  The list of conversations on the screen may be older than the
conversations, and another account's (`Listed`).  Toasts are left out.

The `MC*` modules add symmetry sets for TLC.  Definitions marked `mutant` in a
module are plausible wrong versions of the definition after them; each property
was seen to fail with one of them, and no specification refers to them.

## 3. Runs

Runs that pass:

| Run | Instance | What it shows |
|---|---|---|
| PageSequential | 3 rows, 1 invocation, 2 failures or crashes, 2 attempts, the page | every stamped row verifies (`VerificationPasses`); PASS is sound, no false alarm |
| Digest | 2 rows, 1 invocation of `index.js` and `flush.js`, equal times, 1 failure or crash | the service implements `Anchoring`: a row stops waiting only with the whole of a batch that is on chain; every digest is anchored in the end |
| Server | 3 users, 2 messages, 2 concurrent requests | one conversation per pair; the visibility filters agree; every message queued once; commits feed the pipeline; the handlers implement `Mailbox` |
| ClientStore | 2 processes, 2 messages, inbox limit 1, 2 failures | the store follows the server; every step of every process is one of `Replica`, so nothing is resurrected; revocations and the newest messages arrive |
| WebTwoBrowsers | 2 browsers, 2 overlapping handlers, 1 name, 2 passwords, 2 keys, any number of losses and of 401s | the server's copy opens with the password that logs in; a token is of an account there is |
| SessionOneSignup | 2 processes, 1 signup, 2 losses or kills | a published key is in `keys.bin` |
| DeliveryOneProcess | 2 peers, 2 keys, 1 rotation, 2 rows, 2 envelopes, 1 mixed-up answer | only pinned keys are used; only a confirmation replaces pins; what is saved is authentic, what opens is saved, what is sent is sealed for the pin |
| ChatDeferred | 1 own and 1 received message, 3 keys pressed, buffer of 2, 2 changes, 1 failure | the prompt is the line; numbers keep their meaning; changes are noticed |
| Transport | 2 requests (a POST whose answer is parsed, a DELETE of which the status is read), 2 addresses | no handle is lost; only the verified server is told; outcomes are true; a call returns |
| WebChat | 2 accounts, 2 peers, 2 texts, 2 handlers, 2 messages, 2 versions of a key, 5 things done (logins and registrations among them), 1 failure | the conversation a page is in exists, with the peer shown; texts are true to their messages; what is posted opens for its recipient; no spinner or disabled button is orphaned, no handler stuck |

Runs in which TLC finds the stated property violated, because the code does not
do what a comment or a document of the repository says:

| Run | What happens | Statement |
|---|---|---|
| PageOverlap | an overlapping flush takes rows out of an anchored batch, and the page shows FAIL for a genuine message | blockchain.js:50 |
| SessionTwoSignups | a signup repeated after a lost answer destroys the published key | Client.cpp:91, protocol.draft.md:63 |

The properties above are stated so that they hold of the code.  While they were
written, these other differences between code and documents came up; no run is
devoted to them, but except for the window of a thread and the toasts, which are
not modelled, the models behave as the code does:

| Code | What it does | Document |
|---|---|---|
| digest-service/index.js:81 | a failed SELECT is an unhandled rejection and ends the service; `EveryDigestAnchored` therefore ends when `index.js` does | SCHEMA.md:148 |
| messages.js:372 | the forwarder recalls a forwarded copy, the original sender cannot (`Mailbox!Recall` by the author of the row) | SCHEMA.md:123 |
| conversations.js:99 | without a cursor a thread starts with its oldest messages | conversations.js:43 |
| Client.cpp:335 | the text of a locally deleted message survives its revocation; `RevocationReachesThread` is about what is shown | Client.cpp:326 |
| Client.cpp:261 | with more new messages than the limit the oldest are never fetched; `NewestAreFetched` promises the newest only | cpp_client/README.md:100 |
| Client.cpp:125 | a failed second login leaves the new user's token under the old one's name | cpp_client/README.md:112 |
| Client.cpp:112 | a signup refused with 409 writes a keystore, so that login accepts an unpublished key | Client.cpp:113 |
| auth.js:135 | two concurrent changes verify one hash, and the later overwrites a password it was not given | API.md:117 |
| app.js:364 | the local wrapper is written under whoever is logged in when the answer arrives, or not at all | FRONTEND.md:105 |
| app.js:235 | after a change in another browser the stale local wrapper is preferred and login fails | FRONTEND.md:59 |
| app.js:288 | a registration tried again keeps a key the server does not publish; a later change of password sends it to the server | FRONTEND.md:59 |
| app.js:260 | the private key is in `S` while the login screen is shown, and stays when line 261 throws (`PrivateKeyRead`) | FRONTEND.md:101 |
| app.js:263 | a 401 that answers an older request during a login clears `S` before `showApp`, which then shows the app without a user (`PublicKeyRead`) | FRONTEND.md:101 |
| app.js:196 | the token of a change of password is read after the key was wrapped: if another account has logged in, with the same current password, its row gets the first account's key (`SendChange`); `ServerCopyOpens` says that it opens, not whose it is | FRONTEND.md:105 |
| app.js:113 | a logout while the key of a new peer is imported: the conversation is opened on the page that is logged out, and stays for the next account (`NewConversation`) | FRONTEND.md:101 |
| app.js:379 | logging out leaves `S.forwardTargetMsgId` as it is (`LoggedOut`) | FRONTEND.md:101 |
| app.js:112 | the new key is pinned before anything has warned: Enter can start a second send meanwhile, which finds no change and posts before the first has warned | FRONTEND.md:85 |
| app.js:672 | the id of the original is read again after the encryption: if the modal was cancelled and opened for another message, the copy is recorded as one of that message (`Post`) | protocol.draft.md:138 |
| app.js:678 | the text of a forwarded copy is stored under a key that is no message id (`ForwardAnswered` leaves `eb_sent` alone) | FRONTEND.md:78 |
| app.js:481 | a message being decrypted at a logout is put into the cleared cache (`BuildTheirs`) | FRONTEND.md:101 |
| main.cpp:186 | the sync reprints and renumbers the thread under a command that was typed while it ran: not in `input` yet, the command then acts on the new numbers (`NumberMeansWhatWasShown` is about numbers typed on a line that was echoed) | main.cpp:186 |
| TrustStore.cpp:14 | an increased `key_version` with the same key is not noticed | API.md:153 |

Why the bounds are enough.  Two of a kind (flushers, requests, processes,
browsers) are what it takes to interleave, and no step looks at more than one
other of its kind.  Two rows make an order and a proper part of a batch; a third
leaves one for a later batch.  Three users make a forward to someone who is not
a party to the original.  Two messages make an original and its copy, or a
backlog with `InboxLimit = 1` (50 in the code).  `MaxAttempts = 2` (5 in the
code) has a retry and a last attempt.  A rotation
of one peer is enough for every comparison of Trust (`MaxVersion = 2`, and
`OthersKeep` lets one peer rotate), since no step looks at two peers; two rows
and one mixed-up answer make every pair of a row and a wrong part of another.
Three keys are a command, its number and the end of its line, and with
`BufSize = 2` an arrow key or a command is cut between two reads.  Two addresses
are one that fails and one that answers; a second request meets what the first
has left, and a third would take TLC more than five minutes.  In WebChat whatever the user does counts
towards `MaxClicks`, and so does a peer's message or rotation: five suffice to
choose a peer, type, send, and do two more things while the send is under way, to
receive, open, forward and do one more, and for every action to happen.  In Server a second request is under
way only while the first conversation is being made (`InBounds`: the time left
bounds the requests accepted), which is where requests interfere.  `MaxFaults`,
`MaxSignups`, `MaxVersion`, `MaxMixed`, `MaxKeys`, `MaxChanges`, `MaxTime`,
`MaxMessages` (with room kept for what is on its way), `MaxClicks` and
the sizes of `Txs`, `BatchIds`, `Keys`, `MsgIds` bound what would
grow without end; the proofs
hold for every value of those of the modules they are about.  The models
stop when a bound is reached, and the system has states with nothing left to do,
so the configurations do not check for deadlock, except DeliveryOneProcess,
whose client never stops.

Two assumptions are visible in the configurations.  `VerificationPasses` and
`NoFalseAlarm` are checked with `TiesPossible = FALSE`: with equal timestamps
SQL promises no order and the flush and the page may hash different ones.
`OneProcess` limits Trust and Delivery to one client at a time per store; with
two, both may find no pin and the later overwrites the earlier without asking,
which breaks `UsedKeyIsPinned` and `PinsChangeByConfirmation`.  One exception is
part of a property: `SentOpensForRecipient` leaves out a message that was sealed
with the key pair or the user id of one account and posted with the token of
another that logged in meanwhile.

### Fairness

* `DigestService!FairSpec`: weak fairness of each invocation's successful steps
  and of mining.  `setInterval` keeps starting flushes, an invocation runs until
  it ends, the chain includes what it accepted.  Nothing is assumed of restarts,
  of `flush.js` or of failures; their number is bounded, as a failure that
  repeats for ever can of course keep a digest from the chain.  A failure of the
  SELECT or a crash ends `index.js`, after which nothing starts it again, and
  `EveryDigestAnchored` promises nothing more.
* `ClientSync!FairSpec`: weak fairness of the steps of a command, which blocks
  the process until it ends, and strong fairness of starting a sync: the chat
  loop syncs after every 5 s without input (`main.cpp`, `run_chat`), so it does
  again and again unless its user never stops typing.  Strong, since commands
  in between disable it.  Nothing is assumed of the user or of the peer.
* `ChatLoop!FairSpec`: weak fairness of the loop's own steps: `poll` returns,
  a request ends.  Nobody is obliged to type, to finish a line or to let a sync
  succeed; `MaxFaults` bounds the syncs that fail in a row.
* `Transport!FairSpec`: weak fairness of the client's steps, which block only in
  system calls, and of a server that has the whole request: it executes, answers
  and closes, as `Connection: close` asks it to.  The client itself has no
  timeout, so `CallReturns` needs this; a connection that fails instead also
  ends the call.

WebChat states no fairness: `SpinnerHasHandler` is an invariant.  With
`HandlersAdvance` (section 4) the end of every spinner follows, if a request ends,
well or badly, and the page goes on after each await.

## 4. Proofs

Every theorem is proved for all values of the constants, under the `ASSUME`s
that the modules state (a `None` value is not a member of the sets it is used
beside, bounds are naturals, user ids are ordered, `MsgIds` is finite in
ClientSync).

* **DigestServiceProofs.**  `TypeCorrectness`; `StampsAreAnchored` with any
  number of overlapping flushers, failures and crashes;
  `SequentialFlushesVerify` for one flusher and no ties (`Sequential`).
  `StampedIsAnchored` alone is not inductive: `AnchorInv` adds how far each
  flusher has come (`FlusherInv`: in "insert" its transaction is mined, in
  "stamp" its record exists) and what records say (`RecordInv`).  `WholeInv`
  adds that recorded batches are whole or empty (`BatchesWhole`) and that the
  rows a flusher has selected are in one batch or in none (`SelectionWhole`):
  after a lost answer to the UPDATE a retry re-stamps them all together.  That
  two orders by distinct timestamps are equal is `OneOrder`.
  `PipelineImplementsAnchoring`, again with any overlap, needs that every hash
  sent to the chain is one of queued rows (`HashesInv`) and that a stamp leads to
  the same batch for ever (`EvidenceStays`), as ids of records are never used
  twice.  Only a stamp proves anything (`StampProves`), a new row hands in, a
  block anchors, and every other step is a stutter.
  Of the page: `PageTypeCorrectness`; `OwnPassIsSound`, with any number of
  flushers, for a page that asks about the transaction of the message's own
  record (`QueriesOwnTx`); `SequentialPassIsSound` and `SequentialNoFalseAlarm`
  for any transaction the user types, under `Sequential`.  A pass needs that a
  verdict is kept with the record it was computed from (`FollowsRecord`,
  `VerdictStands`); that there is no false alarm needs `WholeInv`, since the
  page recomputes the root from what the routes return (`RecomputesRecord`).
  Without `Sequential` a batch can be stamped in two halves and the false alarm
  is real: that is what the run PageOverlap is about.  `FalseAlarmsMissRows` says
  that this is its only cause: with any overlap, a FAIL for a genuine message was
  computed from a proper part of the anchored rows (`RecomputesPart`: what the page
  hashes is some of the rows of its record, in their order).
  `FlushesAdvance` is what `EveryDigestAnchored` rests on besides fairness: an
  invocation waits only for what the chain has, each of its steps lowers
  `StepsLeft`, it ends with its rows stamped or in a counted failure, and stamps
  stay.
* **MessageServerProofs.**  `ServerTypeCorrectness`, `PairsHaveOneConversation`,
  `MessagesAreQueued`, `ViewsAgree`, `HandlersImplementMailbox`,
  `HandlersFeedPipeline`.  `ServerInv`
  joins the table constraints (`PairInv`), the conversation each request and
  each message belongs to (`RequestInv`, `MessageInv`), who revoked what
  (`RevocationInv`) and the uniqueness of transaction times (`ClockInv`).  The
  refinement has one step per action: a commit is `Deliver`, a deletion
  `Discard` or a stutter, a revocation `Recall` or a stutter.  That the handlers
  do to `digest_queue` what DigestService takes them to do follows from
  `CommitEnqueues`: a commit queues its message for the first time, at a time no
  other row has, which is that of its transaction's begin (`StartedInv`).
* **ClientSyncProofs.**  `ClientTypeCorrectness`, `StoreFollowsServer`,
  `NothingResurrected` (of `NeverResurrected`), `ClientImplementsReplica`.
  `CommandFollows` says that what a command took from the server stays true there
  until it writes it to the store: rows, deletions and revocations are never taken
  back.  The refinement has one lemma for each statement on the tables
  (`InsertDelivers`, `DeleteDiscards`, `RevokeRecalls`, `SaveKeeps`, `MarkBuries`,
  `MarkErases`); every other step is a stutter.  It needs that messages go
  between Me and the peer, each recalled by its author (`ViewInv`).
  `SyncsDropNothing` and `CommandsAdvance` are the part of `NewestAreFetched`
  and `RevocationReachesThread` that needs no fairness: what an answer names is
  lost between the answer and the store by a counted failure only, and a command
  under way comes nearer to its end with every step (`StepsLeft`), whatever the
  other processes and the peer do.
* **WebAccountProofs.**  `WebTypeCorrectness`, `ServerCopyAlwaysOpens`.  The
  server's copy opens because hash and wrapper are written by one statement;
  that a wrapper reaches it at all needs that every handler has captured what
  its next step uses (`Fits`): a key between its generation or the pressing of
  the button and the PATCH, whatever a 401 has made of `S` meanwhile.  A token is
  of a registered account because it is set after the answer of a login, and
  rows are never deleted (`RowsKept`).
* **DeliveryProofs.**  Of Trust: `TrustTypeCorrectness`; `OnlyPinnedKeysAreUsed`
  and `OnlyConfirmationReplacesPins` for one process.  `ReadPinStands` says that a
  pin read stands until it is acted upon, which a second process would break.
  Of Envelope: `SealedOpens`, `OpenedWasSealed`,
  `WrappedKeyOpensForItsPassword`.  That Delivery implements Trust
  (`DeliveryImplementsTrust`): every step of a task is a step of Trust or leaves
  its variables alone; so what is proved of Trust holds of the whole client.
  Types (`DeliveryTypeCorrectness`), and for one process `DeliveryUsesPinnedKeys`,
  `WhatIsSavedIsAuthentic`, `NothingIsSkipped` and `SealedForThePinnedKey`.
  `DeliveryInv` adds to Trust's invariant that whatever a row has been mixed up
  to, its encapsulated key and its ciphertext each come from a sealing
  (`RowsInv`), and that a process in a task has pins equal to its cache and to
  the key in hand (`TaskInv`).  Authenticity then follows from
  `OpenedWasSealed`: what opens has the labels, keys and text of the sealing its
  ciphertext came from.
* **ChatLoopProofs.**  `ChatTypeCorrectness`, `PromptAlwaysShowsLine` and
  `NumbersKeepTheirMeaning`.  What a number meant when it was typed still stands
  beside it as long as its line is in `input` or in the terminal behind a line
  that is: `displayed` changes only when `input` is empty.  Under
  `ChangesAreNoticed` lie `ChangesAreNotHidden` (but for a counted failure a sync
  ends with the thread current or announced, a command with the thread current,
  and "(new)" disappears with the redraw it stands for) and `LoopReturnsToPoll`
  (each step outside `poll` lowers `StepsToPoll`).
* **ClientProofs.**  Of Transport: `TransportTypeCorrectness`, `HandlesAreFreed`,
  `OnlyTheVerifiedServerIsTold`, `OutcomesAreTrue` (of a 4xx it needs that a request
  refused is never executed later, not even by a handler that has lost its
  connection).  `Sound` and `InHand` relate
  the two ends: what arrived is at most what was sent, what was read at most what
  was answered, and a connection written to is genuine.  `HandlesInv` says what
  the object owns at each stage of the constructor.  Two theorems reduce
  `CallReturns` to its fairness: `EveryStepAdvancesTheCall` (each step ends the
  call under way, lowers a count of what it has before it, `StepsLeft`, or does
  not concern it) and `NobodyWaitsForEachOther` (a reader with nothing to read
  waits for a server that has begun to answer or has the whole request; by
  `SendInv`, an open connection has brought all that was written).
  Of ClientSession: `SessionTypeCorrectness`, for any number of signups, and
  `FirstSignupRecoverable`, for one.  `signup` writes `keys.bin` before it sends
  the request, so until a second signup starts the file holds the one key that
  can be published from here (`OneSignupInv`); the run SessionTwoSignups shows what a
  second signup does to the file.
* **WebChatProofs.**  `WebChatTypeCorrectness`, `TextsStayTrue`,
  `PostedOpensForRecipient`, `SpinnersAreServed`, `HandlersAdvance`.  Every await of the page ends
  with the page, the storage and the server changed by others, so `WebChatInv`
  says of each handler what it has in hand: it fits its step (`Fits`), the rows
  and keys it carries are ones the server had (`Carries`) and what a rendering
  has opened so far is the text of its row (`Renders`).  It all stands because
  rows and key versions are only added (`Grows`).  Texts and bubbles are then true by
  what was written to them (`TrueTexts`, `TrueBubbles`), and `RoomInv` says that
  each row on its way has its place in the bound.  That the rows left to render
  have an oldest (`Oldest`) is `LeastExists`, from the order of finite sets.
  `GoesOn` says of each place a handler can wait at that its next step has what it
  reads.  That is `SpinnersAreServed`; `HandlersAdvance` adds that each step of a
  handler, a failure too, lowers what it has before it (`Left`: five steps for
  each row to render), and that no step of another one changes it.

Every invariant, action property and refinement of the passing runs is proved.
Only model-checked, since TLAPS does not treat fairness, are the five liveness
properties: `EveryDigestAnchored`, `RevocationReachesThread`, `NewestAreFetched`,
`ChangesAreNoticed` and `CallReturns`.  Proved of each is what it rests on besides
fairness: a measure that every step lowers (`FlushesAdvance`, `CommandsAdvance`,
`LoopReturnsToPoll`, `EveryStepAdvancesTheCall`) and that what it promises is not
lost on the way.  Both violations are of the code, and are found by TLC: there the
theorems have the hypothesis that the run breaks (`Sequential`,
`FirstSignupRecoverable`'s one signup).

## 5. Not modelled

* The primitives of libsodium and OpenSSL, base64url and most of the JSON
  conversion: functions over bytes that keep no state.  The unit tests of the
  client cover them.
* Rate limits and expiry of tokens: to a command these are a refused request,
  which every client module has.
* `run_repl`: it starts one command after another and keeps nothing between two.
* Rendering and wording; `unread_count`; the window of a thread (`before`,
  `limit`); the `since` parameter, which neither client sends.
* In the web app: `pollNewMessages`, which has no caller; the mark-as-read request
  and `loadConversations`, whose answers change nothing that is modelled; two
  pages of one browser.  That messages-area shows the conversation that is open
  is not stated: `openConv` renders the last answer whichever conversation is
  open by then, and no document says otherwise.
* The server shell: plugins, headers, a pool and static files.

## 6. Plan

The order followed: the pipeline and its page (the product's claim), the
message handlers and their refinement, the store of the C++ client, accounts and
sessions, trust; then the chat loop, the delivery of messages with its
cryptography, the transport, and the conversations of the web app.  What is next:

1. Delivery with ClientSession: which rotations and lost keystores keep a
   message from being opened.
2. WebChat for one account: two pages sharing one `localStorage`.
3. Trust with several processes on one `store.db`: what is left of its two
   properties when pins can be overwritten unasked.
