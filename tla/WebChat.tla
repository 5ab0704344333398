------------------------------- MODULE WebChat -------------------------------
(***************************************************************************)
(* The conversations of the web app: one page of app.js, the localStorage  *)
(* of its browser and the server behind it.  A handler of the page runs up *)
(* to its next await; between two awaits any other handler may run, the    *)
(* user may log out or be logged out by a 401, and another may log in or   *)
(* register, whose handlers are handlers like the others.                  *)
(***************************************************************************)
EXTENDS Naturals, Sequences, FiniteSets

CONSTANTS
  Accounts,     (* users who log in on this page                           *)
  Peers,        (* users elsewhere                                         *)
  Texts,        (* plaintexts                                              *)
  None,         (* null, and "not there"                                   *)
  Tasks,        (* handlers of the page that can be under way              *)
  MaxMessages,  (* bound on the rows of messages                           *)
  MaxVersion,   (* bound on key_version                                    *)
  MaxClicks,    (* bound on what the user and the peers do                 *)
  MaxFaults     (* bound on requests that fail                             *)

ASSUME WebChatBounds ==
  {MaxMessages, MaxClicks, MaxFaults} \subseteq Nat /\ MaxVersion \in Nat \ {0}
ASSUME WebChatUsers == Accounts \cap Peers = {} /\ None \notin Accounts \cup Peers \cup Texts

VARIABLES
  version,      (* server: the key_version a user has published            *)
  messages,     (* server: the rows of messages, oldest first              *)
  hidden,       (* server: rows this page's user deleted or recalled       *)
  eb_tofu,      (* localStorage: the version pinned, 0 for none            *)
  eb_sent,      (* localStorage: plaintext of a sent message               *)
  S,            (* the page's object: user (its token, id and name), suite, *)
                (* private and public key, each by its account, conversa-  *)
                (* tion, peer, and the message to forward                  *)
  app,          (* is the app shown, or the login screen?                  *)
  lists,        (* the accounts whose conversations conv-list may show     *)
  plaintextCache,
  area,         (* messages-area                                           *)
  input,        (* compose-input                                           *)
  disabled,     (* is the send button?                                     *)
  tasks,        (* handlers under way                                      *)
  clicks, faults

server  == <<version, messages, hidden>>
storage == <<eb_tofu, eb_sent>>
screen  == <<app, lists>>
page    == <<S, screen>>
compose == <<input, disabled>>
bounds  == <<clicks, faults>>

webChatVars == <<server, storage, page, plaintextCache, area, compose, tasks, bounds>>

-----------------------------------------------------------------------------
Ids == 1 .. MaxMessages
Users == Accounts \cup Peers
Key(u, v) == [owner |-> u, version |-> v]

(* A row with its envelope: the key it is for, the key that authenticates  *)
(* it, and the two user ids of its additional data.                        *)
Row(from, to, text, for, by, aad) ==
  [from |-> from, to |-> to, text |-> text, for |-> for, by |-> by, aad |-> aad]

Stored(m) == m \in DOMAIN messages
Between(m, u, p) == {messages[m].from, messages[m].to} = {u, p}
HasConversation(u, p) == \E m \in DOMAIN messages : Between(m, u, p)
ThreadOf(u, p) == { m \in DOMAIN messages : Between(m, u, p) /\ m \notin hidden }
Oldest(ids) == CHOOSE m \in ids : \A k \in ids : m <= k

OpensWith(m, mine, theirs) ==
  /\ messages[m].for = mine /\ messages[m].by = theirs
  /\ messages[m].aad = <<messages[m].from, messages[m].to>>

NoTask ==
  [kind |-> "none", at |-> "none", token |-> None, peer |-> None, text |-> None,
   version |-> 0, by |-> None, uid |-> None, msg |-> 0, todo |-> {}, bubbles |-> {}]

LoggedOut ==
  [S EXCEPT !.user = None, !.suite = FALSE, !.private = None, !.public = None,
            !.conv = None, !.peer = None]

Showing(at, bubbles) == [at |-> at, bubbles |-> bubbles]

Init ==
  /\ version = [u \in Users |-> 1]
  /\ messages = <<>> /\ hidden = {}
  /\ eb_sent = [m \in Ids |-> None]
  /\ \E u \in Accounts :
       /\ S = [user |-> u, suite |-> TRUE, private |-> u, public |-> u,
               conv |-> None, peer |-> None, forward |-> 0]
       /\ lists = {u}
       /\ eb_tofu = [v \in Users |-> IF v = u THEN 1 ELSE 0]
  /\ app = TRUE
  /\ plaintextCache = [m \in Ids |-> None]
  /\ area = Showing("none", {})
  /\ input = None /\ disabled = FALSE
  /\ tasks = [t \in Tasks |-> NoTask]
  /\ clicks = 0 /\ faults = 0

Becomes(t, task) == tasks' = [tasks EXCEPT ![t] = task]
Ends(t) == Becomes(t, NoTask)

-----------------------------------------------------------------------------
(* Others: a peer sends a message, or publishes another key.               *)
(* There is room for whatever is on its way.                               *)
Insert(row) == messages' = Append(messages, row)

Outgoing ==
  { t \in Tasks : tasks[t].kind \in {"send", "forward"}
                   /\ tasks[t].at \in {"key", "pin", "import", "sealed", "post"} }
Room == Len(messages) + Cardinality(Outgoing) < MaxMessages

Acts == clicks < MaxClicks /\ clicks' = clicks + 1

PeerSends(p, u, text) ==
  /\ Room
  /\ Acts
  /\ Insert(Row(p, u, text, Key(u, 1), Key(p, version[p]), <<p, u>>))
  /\ UNCHANGED <<version, hidden, storage, page, plaintextCache, area, compose, tasks, faults>>

Rotate(p) ==
  /\ version[p] < MaxVersion
  /\ Acts
  /\ version' = [version EXCEPT ![p] = @ + 1]
  /\ UNCHANGED <<messages, hidden, storage, page, plaintextCache, area, compose, tasks, faults>>

-----------------------------------------------------------------------------
(* doLogout: what stands in messages-area, conv-list and the modals stays  *)
(* there.                                                                  *)
Forget ==
  /\ S' = LoggedOut
  /\ app' = FALSE
  /\ plaintextCache' = [m \in Ids |-> None]
  /\ UNCHANGED lists

(* By the button, or by a 401 that answers a request nobody waits for,     *)
(* which may come whatever the page does by then.                          *)
Logout ==
  /\ Acts
  /\ Forget
  /\ UNCHANGED <<server, storage, area, compose, tasks, faults>>

(* What stands in #app can be pressed while it is shown, what stands in a  *)
(* modal always.                                                           *)
Click == app /\ Acts /\ UNCHANGED faults
Press == Acts /\ UNCHANGED faults

Free(t) == tasks[t] = NoTask

(* A handler starts, and asks the server for something.                    *)
Starts(t, kind, at, peer) ==
  [NoTask EXCEPT !.kind = kind, !.at = at, !.peer = peer, !.token = S.user]

Type(text) ==
  /\ Click
  /\ input' = text
  /\ UNCHANGED <<server, storage, page, plaintextCache, area, disabled, tasks>>

(* openConv as far as its request; a conversation has an id of its own for *)
(* each account and peer.                                                  *)
OpenConv(t, kind, c) ==
  /\ S' = [S EXCEPT !.conv = c, !.peer = c[2]]
  /\ area' = Showing("loading", {})
  /\ Becomes(t, [Starts(t, kind, "thread", c[2]) EXCEPT !.by = c[1]])
  /\ UNCHANGED screen

(* The list may have been asked for by an account that is logged out now,  *)
(* and may be older than a conversation.                                   *)
Listed(p) == { c \in lists \X {p} : HasConversation(c[1], c[2]) }

ClickConversation(t, p) ==
  /\ Click /\ Free(t)
  /\ \E c \in Listed(p) : OpenConv(t, "open", c)
  /\ UNCHANGED <<server, storage, plaintextCache, compose>>

(* doSend: the Enter key does not look at the button.                      *)
PressSend(t) ==
  /\ Click /\ Free(t)
  /\ input # None /\ S.peer # None /\ Room
  /\ disabled' = TRUE
  /\ Becomes(t, [Starts(t, "send", "key", S.peer) EXCEPT !.text = input])
  /\ UNCHANGED <<server, storage, page, plaintextCache, area, input>>

StartNewConv(t, p) ==
  /\ Press /\ Free(t)
  /\ Becomes(t, Starts(t, "lookup", "key", p))
  /\ UNCHANGED <<server, storage, page, plaintextCache, area, compose>>

(* The forward modal: 0 while it is closed.                                *)
OpenForwardModal(b) ==
  /\ Click
  /\ S.forward = 0
  /\ b.text \in Texts
  /\ S' = [S EXCEPT !.forward = b.id]
  /\ UNCHANGED <<server, storage, screen, plaintextCache, area, compose, tasks>>

CloseForwardModal ==
  /\ Press
  /\ S.forward # 0
  /\ S' = [S EXCEPT !.forward = 0]
  /\ UNCHANGED <<server, storage, screen, plaintextCache, area, compose, tasks>>

PressForward(t, p) ==
  /\ Press /\ Free(t)
  /\ S.forward # 0
  /\ plaintextCache[S.forward] # None /\ Room
  /\ Becomes(t, [Starts(t, "forward", "key", p) EXCEPT !.text = plaintextCache[S.forward]])
  /\ UNCHANGED <<server, storage, page, plaintextCache, area, compose>>

(* doDelete, and doRevoke for a message of one's own.                      *)
Remove(t, kind, b) ==
  /\ Click /\ Free(t)
  /\ kind = "revoke" => b.mine
  /\ Becomes(t, [Starts(t, kind, "remove", None) EXCEPT !.msg = b.id])
  /\ UNCHANGED <<server, storage, page, plaintextCache, area, compose>>

(* doLogin and doRegister, of which Enter starts another at any time; a    *)
(* registration makes the suite at once.                                   *)
PressLogin(t, u) ==
  /\ ~app /\ Press /\ Free(t)
  /\ Becomes(t, [NoTask EXCEPT !.kind = "login", !.at = "enter", !.by = u])
  /\ UNCHANGED <<server, storage, page, plaintextCache, area, compose>>

PressRegister(t, u) ==
  /\ ~app /\ Press /\ Free(t)
  /\ S' = [S EXCEPT !.suite = TRUE]
  /\ Becomes(t, [NoTask EXCEPT !.kind = "login", !.at = "generate", !.by = u])
  /\ UNCHANGED <<server, storage, screen, plaintextCache, area, compose>>

User ==
  \/ Logout
  \/ \E text \in Texts : Type(text)
  \/ \E b \in area.bubbles : OpenForwardModal(b)
  \/ CloseForwardModal
  \/ \E t \in Tasks :
       \/ PressSend(t)
       \/ \E p \in Peers : ClickConversation(t, p) \/ StartNewConv(t, p) \/ PressForward(t, p)
       \/ \E b \in area.bubbles, kind \in {"delete", "revoke"} : Remove(t, kind, b)
       \/ \E u \in Accounts : PressLogin(t, u) \/ PressRegister(t, u)

-----------------------------------------------------------------------------
(* The catch and finally blocks: openConv and a send that has reached it   *)
(* leave the error in messages-area, the others in a toast or a modal; a   *)
(* message whose sender's key cannot be had is shown as an error.          *)
RaisesAndStays(t) ==         (* mutant: openConv without its catch         *)
  /\ disabled' = IF tasks[t].kind = "send" THEN FALSE ELSE disabled
  /\ UNCHANGED area
  /\ Ends(t)
Raises(t) ==
  /\ disabled' = IF tasks[t].kind = "send" THEN FALSE ELSE disabled
  /\ area' = IF tasks[t].at = "thread" THEN Showing("failed", {}) ELSE area
  /\ IF tasks[t].kind = "render"
     THEN Becomes(t, [tasks[t] EXCEPT !.at = "opened", !.text = None])
     ELSE Ends(t)

Requests == {"key", "pin", "post", "stored", "list", "thread", "remove", "removed", "enter"}

(* A request fails, before or after the server has acted on it.            *)
RequestFails(t) ==
  /\ tasks[t].at \in Requests
  /\ faults < MaxFaults /\ faults' = faults + 1
  /\ Raises(t)
  /\ UNCHANGED <<server, storage, page, plaintextCache, input, clicks>>

(* The token has expired, or the request was made without one.             *)
Authorized == Requests \ {"pin", "stored", "removed", "enter"}

Unauthorized(t) ==
  /\ tasks[t].at \in Authorized
  /\ \/ tasks[t].token = None /\ UNCHANGED faults
     \/ faults < MaxFaults /\ faults' = faults + 1
  /\ Forget
  /\ Raises(t)
  /\ UNCHANGED <<server, storage, input, clicks>>

-----------------------------------------------------------------------------
(* fetchPeerKey: the server answers, later the page pins what it got.      *)
LookupKey(t) ==
  /\ tasks[t].at = "key" /\ tasks[t].token # None
  /\ Becomes(t, [tasks[t] EXCEPT !.at = "pin", !.version = version[tasks[t].peer]])
  /\ UNCHANGED <<server, storage, page, plaintextCache, area, compose, bounds>>

KeyOf(t)  == Key(tasks[t].peer, tasks[t].version)
PinKey(t) == eb_tofu' = [eb_tofu EXCEPT ![tasks[t].peer] = tasks[t].version]

Arrived(t) == tasks[t].at = "pin"

(* Without S.suite the key cannot be deserialized, but it is pinned.       *)
KeyUnusable(t) ==
  /\ Arrived(t)
  /\ ~S.suite
  /\ PinKey(t)
  /\ Raises(t)
  /\ UNCHANGED <<server, eb_sent, page, plaintextCache, input, bounds>>

KeyArrives(t) ==
  /\ Arrived(t)
  /\ S.suite
  /\ PinKey(t)
  /\ Becomes(t, [tasks[t] EXCEPT !.at = "import"])
  /\ UNCHANGED <<server, eb_sent, page, plaintextCache, area, compose, bounds>>

(* The key is deserialized: hpkeEncrypt, startNewConv and hpkeDecrypt go   *)
(* on with what S holds by now.                                            *)
Imported(t) == tasks[t].at = "import"

(* startNewConv asks nothing of S: who is logged in, or whether anybody is.*)
OpenExisting(t) ==
  /\ Imported(t) /\ tasks[t].kind = "lookup"
  /\ \E c \in Listed(tasks[t].peer) : OpenConv(t, "open", c)
  /\ UNCHANGED <<server, storage, plaintextCache, compose, bounds>>

NewConvKeepsId(t) ==         (* mutant: S.currentConvId is not reset       *)
  /\ Imported(t) /\ tasks[t].kind = "lookup"
  /\ S' = [S EXCEPT !.peer = tasks[t].peer]
  /\ area' = Showing("start", {})
  /\ Ends(t)
  /\ UNCHANGED <<server, storage, screen, plaintextCache, compose, bounds>>
NewConversation(t) ==
  /\ Imported(t) /\ tasks[t].kind = "lookup"
  /\ S' = [S EXCEPT !.conv = None, !.peer = tasks[t].peer]
  /\ area' = Showing("start", {})
  /\ Ends(t)
  /\ UNCHANGED <<server, storage, screen, plaintextCache, compose, bounds>>

-----------------------------------------------------------------------------
(* hpkeEncrypt with the key pair and the user id of S, then the POST with  *)
(* the token S holds by then, and a forward of the message S names by      *)
(* then.  Two halves of two accounts' pairs are the pair of nobody.        *)
KeyPair == IF S.private = S.public THEN S.private ELSE None

HasKeys == S.suite /\ S.private # None /\ S.public # None

Seal(t) ==
  /\ Imported(t) /\ tasks[t].kind \in {"send", "forward"}
  /\ HasKeys
  /\ Becomes(t, [tasks[t] EXCEPT !.at = "sealed", !.by = KeyPair, !.uid = S.user])
  /\ UNCHANGED <<server, storage, page, plaintextCache, area, compose, bounds>>

SealFails(t) ==
  /\ Imported(t) /\ tasks[t].kind \in {"send", "forward"}
  /\ ~HasKeys
  /\ Raises(t)
  /\ UNCHANGED <<server, storage, page, plaintextCache, input, bounds>>

Post(t) ==
  /\ tasks[t].at = "sealed"
  /\ Becomes(t, [tasks[t] EXCEPT !.at = "post", !.token = S.user,
                    !.msg = IF tasks[t].kind = "forward" THEN S.forward ELSE 0])
  /\ UNCHANGED <<server, storage, page, plaintextCache, area, compose, bounds>>

PostedToOpenPeer(t) ==       (* mutant: the recipient is S.currentPeer     *)
  Row(tasks[t].token, IF S.peer # None THEN S.peer ELSE tasks[t].peer, tasks[t].text,
      KeyOf(t), Key(tasks[t].by, 1), <<tasks[t].uid, tasks[t].peer>>)
Posted(t) ==
  Row(tasks[t].token, tasks[t].peer, tasks[t].text, KeyOf(t), Key(tasks[t].by, 1),
      <<tasks[t].uid, tasks[t].peer>>)

(* POST /messages, and POST /messages/:id/forward for one of one's own.    *)
Forwardable(m, u) == Stored(m) /\ u \in {messages[m].from, messages[m].to}

InsertMessage(t) ==
  /\ tasks[t].at = "post" /\ tasks[t].token # None
  /\ tasks[t].kind = "forward" => Forwardable(tasks[t].msg, tasks[t].token)
  /\ Insert(Posted(t))
  /\ Becomes(t, [tasks[t] EXCEPT !.at = "stored", !.msg = Len(messages) + 1])
  /\ UNCHANGED <<version, hidden, storage, page, plaintextCache, area, compose, bounds>>

RefuseForward(t) ==
  /\ tasks[t].at = "post" /\ tasks[t].token # None
  /\ tasks[t].kind = "forward" /\ ~Forwardable(tasks[t].msg, tasks[t].token)
  /\ Raises(t)
  /\ UNCHANGED <<server, storage, page, plaintextCache, input, bounds>>

CacheInput(m, text)   ==     (* mutant: what compose-input holds by now    *)
  eb_sent' = [eb_sent EXCEPT ![m] = input]
CacheSentMsg(m, text) == eb_sent' = [eb_sent EXCEPT ![m] = text]

(* The 201 of a send; GET /conversations follows.                          *)
SendAnswered(t) ==
  /\ tasks[t].at = "stored" /\ tasks[t].kind = "send"
  /\ CacheSentMsg(tasks[t].msg, tasks[t].text)
  /\ input' = None
  /\ Becomes(t, [tasks[t] EXCEPT !.at = "list", !.token = S.user])
  /\ UNCHANGED <<server, eb_tofu, page, plaintextCache, area, disabled, bounds>>

(* The 201 of a forward: the text goes under a key that is no message id.  *)
ForwardAnswered(t) ==
  /\ tasks[t].at = "stored" /\ tasks[t].kind = "forward"
  /\ S' = [S EXCEPT !.forward = 0]
  /\ Ends(t)
  /\ UNCHANGED <<server, storage, screen, plaintextCache, area, compose, bounds>>

(* The conversations of the one who asked for them: where S names none,    *)
(* the one with S.currentPeer, whoever is logged in by now.                *)
Found(t) == S.peer # None /\ HasConversation(tasks[t].token, S.peer)

ListAnswered(t) ==
  /\ tasks[t].at = "list" /\ tasks[t].token # None
  /\ \/ S.conv # None /\ OpenConv(t, "send", S.conv) /\ UNCHANGED disabled
     \/ /\ S.conv = None /\ Found(t)
        /\ OpenConv(t, "send", <<tasks[t].token, S.peer>>) /\ UNCHANGED disabled
     \/ /\ S.conv = None /\ ~Found(t)
        /\ disabled' = FALSE /\ Ends(t) /\ UNCHANGED <<page, area>>
  /\ UNCHANGED <<server, storage, plaintextCache, input, bounds>>

-----------------------------------------------------------------------------
(* The thread arrives in openConv, which renders it and, at the end of a   *)
(* send, lets the button be used again.                                    *)
ThreadAnswered(t) ==
  /\ tasks[t].at = "thread" /\ tasks[t].token # None
  /\ tasks[t].token = tasks[t].by
  /\ disabled' = IF tasks[t].kind = "send" THEN FALSE ELSE disabled
  /\ LET ids == ThreadOf(tasks[t].by, tasks[t].peer) IN
     IF ids = {}
     THEN area' = Showing("none", {}) /\ Ends(t)
     ELSE /\ area' = Showing("decrypting", {})
          /\ Becomes(t, [NoTask EXCEPT !.kind = "render", !.at = "build", !.todo = ids])
  /\ UNCHANGED <<server, storage, page, plaintextCache, input, bounds>>

(* A conversation of another account than the one logged in: 403.          *)
ThreadRefused(t) ==
  /\ tasks[t].at = "thread" /\ tasks[t].token # None
  /\ tasks[t].token # tasks[t].by
  /\ Raises(t)
  /\ UNCHANGED <<server, storage, page, plaintextCache, input, bounds>>

(* buildMsgHtml: the text, when there is one, goes to plaintextCache.      *)
Bubble(m, text, mine) == [id |-> m, text |-> text, mine |-> mine]

Current(t) == Oldest(tasks[t].todo)

Built(t, text, mine) ==
  [tasks[t] EXCEPT !.at = "build", !.todo = @ \ {Current(t)}, !.text = None,
                   !.bubbles = @ \cup {Bubble(Current(t), text, mine)}]

Remember(m, text) ==
  plaintextCache' = IF text = None THEN plaintextCache
                    ELSE [plaintextCache EXCEPT ![m] = text]

Building(t) == tasks[t].at = "build" /\ tasks[t].todo # {}

BuildMine(t) ==
  /\ Building(t)
  /\ messages[Current(t)].from = S.user
  /\ Remember(Current(t), eb_sent[Current(t)])
  /\ Becomes(t, Built(t, eb_sent[Current(t)], TRUE))
  /\ UNCHANGED <<server, storage, page, area, compose, bounds>>

Sender(t) == messages[Current(t)].from

(* hpkeDecrypt: the pinned key of the sender, or else the one published.   *)
BuildPinned(t) ==
  /\ Building(t)
  /\ Sender(t) # S.user
  /\ eb_tofu[Sender(t)] # 0
  /\ IF S.suite
     THEN Becomes(t, [tasks[t] EXCEPT !.at = "import", !.peer = Sender(t),
                                      !.version = eb_tofu[Sender(t)]])
     ELSE Becomes(t, [tasks[t] EXCEPT !.at = "opened", !.text = None])
  /\ UNCHANGED <<server, storage, page, plaintextCache, area, compose, bounds>>

BuildUnpinned(t) ==
  /\ Building(t)
  /\ Sender(t) # S.user
  /\ eb_tofu[Sender(t)] = 0
  /\ Becomes(t, [tasks[t] EXCEPT !.at = "key", !.peer = Sender(t), !.token = S.user])
  /\ UNCHANGED <<server, storage, page, plaintextCache, area, compose, bounds>>

Opened(t) ==
  IF HasKeys /\ OpensWith(Current(t), Key(KeyPair, 1), KeyOf(t))
  THEN messages[Current(t)].text ELSE None

Decrypt(t) ==
  /\ Imported(t) /\ tasks[t].kind = "render"
  /\ Becomes(t, [tasks[t] EXCEPT !.at = "opened", !.text = Opened(t)])
  /\ UNCHANGED <<server, storage, page, plaintextCache, area, compose, bounds>>

BuildTheirs(t) ==
  /\ tasks[t].at = "opened"
  /\ Remember(Current(t), tasks[t].text)
  /\ Becomes(t, Built(t, tasks[t].text, FALSE))
  /\ UNCHANGED <<server, storage, page, area, compose, bounds>>

Rendered(t) ==
  /\ tasks[t].at = "build" /\ tasks[t].todo = {}
  /\ area' = Showing("thread", tasks[t].bubbles)
  /\ Ends(t)
  /\ UNCHANGED <<server, storage, page, plaintextCache, compose, bounds>>

(* DELETE and revoke: what the server does, and what doDelete does with    *)
(* its success; doRevoke does nothing more.                                *)
Removable(t) == tasks[t].token \in {messages[tasks[t].msg].from, messages[tasks[t].msg].to}

Removed(t) ==
  /\ tasks[t].at = "remove" /\ tasks[t].token # None
  /\ Removable(t)
  /\ hidden' = hidden \cup {tasks[t].msg}
  /\ Becomes(t, [tasks[t] EXCEPT !.at = "removed"])
  /\ UNCHANGED <<version, messages, storage, page, plaintextCache, area, compose, bounds>>

RemoveAnswered(t) ==
  /\ tasks[t].at = "removed"
  /\ IF tasks[t].kind = "delete"
     THEN /\ plaintextCache' = [plaintextCache EXCEPT ![tasks[t].msg] = None]
          /\ area' = [area EXCEPT !.bubbles = { b \in @ : b.id # tasks[t].msg }]
     ELSE UNCHANGED <<plaintextCache, area>>
  /\ Ends(t)
  /\ UNCHANGED <<server, storage, page, compose, bounds>>

RemoveRefused(t) ==
  /\ tasks[t].at = "remove" /\ tasks[t].token # None
  /\ ~Removable(t)
  /\ Raises(t)
  /\ UNCHANGED <<server, storage, page, plaintextCache, input, bounds>>

-----------------------------------------------------------------------------
(* doLogin: the token before the keys, the app after them, without looking *)
(* at what a 401 or another login has made of S meanwhile.  The password   *)
(* may fail to open the key kept here.                                     *)
Enters(u) == lists' = lists \cup {u}

LoginAnswered(t) ==
  /\ tasks[t].at = "enter"
  /\ S' = [S EXCEPT !.user = tasks[t].by]
  /\ Enters(tasks[t].by)
  /\ Becomes(t, [tasks[t] EXCEPT !.at = "unlock"]) \/ Ends(t)
  /\ UNCHANGED <<server, storage, app, plaintextCache, area, compose, bounds>>

Unlocked(t) ==
  /\ tasks[t].at = "unlock"
  /\ S' = [S EXCEPT !.suite = TRUE]
  /\ Becomes(t, [tasks[t] EXCEPT !.at = "private"])
  /\ UNCHANGED <<server, storage, screen, plaintextCache, area, compose, bounds>>

PrivateKeyRead(t) ==
  /\ tasks[t].at = "private"
  /\ S' = [S EXCEPT !.private = tasks[t].by]
  /\ IF S.suite THEN Becomes(t, [tasks[t] EXCEPT !.at = "public"]) ELSE Ends(t)
  /\ UNCHANGED <<server, storage, screen, plaintextCache, area, compose, bounds>>

PinOwn(t) == eb_tofu' = [eb_tofu EXCEPT ![tasks[t].by] = 1]

PublicKeyRead(t) ==
  /\ tasks[t].at = "public"
  /\ S' = [S EXCEPT !.public = tasks[t].by]
  /\ PinOwn(t)
  /\ app' = TRUE
  /\ Ends(t)
  /\ UNCHANGED <<server, eb_sent, lists, plaintextCache, area, compose, bounds>>

(* doRegister, for a name nobody has used so far: the suite serializes the *)
(* new keys, and may be gone again when they are put into S.               *)
Unheard(u) == u \notin lists /\ \A m \in DOMAIN messages : u \notin {messages[m].from, messages[m].to}

Generated(t) ==
  /\ tasks[t].at = "generate"
  /\ IF S.suite THEN Becomes(t, [tasks[t] EXCEPT !.at = "register"]) ELSE Ends(t)
  /\ UNCHANGED <<server, storage, page, plaintextCache, area, compose, bounds>>

Registered(t) ==
  /\ tasks[t].at = "register"
  /\ Unheard(tasks[t].by)
  /\ S' = [S EXCEPT !.user = tasks[t].by, !.private = tasks[t].by, !.public = tasks[t].by]
  /\ Enters(tasks[t].by)
  /\ PinOwn(t)
  /\ app' = TRUE
  /\ Ends(t)
  /\ UNCHANGED <<server, eb_sent, plaintextCache, area, compose, bounds>>

NameTaken(t) ==
  /\ tasks[t].at = "register"
  /\ Ends(t)
  /\ UNCHANGED <<server, storage, page, plaintextCache, area, compose, bounds>>

SignIn(t) ==
  \/ LoginAnswered(t) \/ Unlocked(t) \/ PrivateKeyRead(t) \/ PublicKeyRead(t)
  \/ Generated(t) \/ Registered(t) \/ NameTaken(t)

-----------------------------------------------------------------------------
TaskStep(t) ==
  \/ LookupKey(t) \/ KeyUnusable(t) \/ KeyArrives(t) \/ OpenExisting(t) \/ NewConversation(t)
  \/ Seal(t) \/ SealFails(t) \/ Post(t)
  \/ InsertMessage(t) \/ RefuseForward(t)
  \/ SendAnswered(t) \/ ForwardAnswered(t) \/ ListAnswered(t)
  \/ ThreadAnswered(t) \/ ThreadRefused(t)
  \/ BuildMine(t) \/ BuildPinned(t) \/ BuildUnpinned(t) \/ Decrypt(t) \/ BuildTheirs(t)
  \/ Rendered(t)
  \/ Removed(t) \/ RemoveRefused(t) \/ RemoveAnswered(t)
  \/ SignIn(t)
  \/ RequestFails(t) \/ Unauthorized(t)

Next ==
  \/ \E p \in Peers : Rotate(p) \/ \E u \in Accounts, text \in Texts : PeerSends(p, u, text)
  \/ User
  \/ \E t \in Tasks : TaskStep(t)

Spec == Init /\ [][Next]_webChatVars

-----------------------------------------------------------------------------
Bubbles == [id : Ids, text : Texts \cup {None}, mine : BOOLEAN]

(* Ranges, and: S.currentConvId is none, or a conversation that there is,  *)
(* with S.currentPeer.                                                     *)
WebChatTypeOK ==
  /\ version \in [Users -> 1 .. MaxVersion]
  /\ Len(messages) \in 0 .. MaxMessages
  /\ hidden \subseteq DOMAIN messages
  /\ eb_tofu \in [Users -> 0 .. MaxVersion]
  /\ eb_sent \in [Ids -> Texts \cup {None}]
  /\ plaintextCache \in [Ids -> Texts \cup {None}]
  /\ {S.user, S.private, S.public} \subseteq Accounts \cup {None} /\ lists \subseteq Accounts
  /\ S.suite \in BOOLEAN /\ app \in BOOLEAN
  /\ S.forward \in {0} \cup DOMAIN messages
  /\ S.peer \in Peers \cup {None}
  /\ S.conv # None => S.conv[2] = S.peer /\ HasConversation(S.conv[1], S.conv[2])
  /\ area.at \in {"none", "start", "loading", "decrypting", "failed", "thread"}
  /\ area.bubbles \subseteq Bubbles
  /\ input \in Texts \cup {None} /\ disabled \in BOOLEAN
  /\ \A t \in Tasks : tasks[t].bubbles \subseteq Bubbles

(* The texts the page holds or shows for a message.                        *)
TextsOf(m) ==
  {eb_sent[m], plaintextCache[m]} \cup { b.text : b \in { c \in area.bubbles : c.id = m } }

(***************************************************************************)
(* Whatever is forwarded, downloaded or read under a message is the text   *)
(* sealed in that message: what eb_sent, plaintextCache and the bubbles    *)
(* hold for its id, although a send stores the text under the id that its  *)
(* answer brings, while the user goes on typing and changes conversation.  *)
(***************************************************************************)
TextsAreTrue ==
  \A m \in Ids :
    TextsOf(m) \subseteq IF Stored(m) THEN {None, messages[m].text} ELSE {None}

(***************************************************************************)
(* What a page posts opens for the one it is addressed to, with a key that *)
(* user has published: openings, sends and forwards that overlap do not    *)
(* exchange recipients.  What was sealed with the key pair or the user id  *)
(* of one account and posted with the token of another is the exception.   *)
(***************************************************************************)
SentOpensForRecipient ==
  \A m \in DOMAIN messages :
    messages[m].by.owner = messages[m].from /\ messages[m].aad[1] = messages[m].from =>
      /\ OpensWith(m, Key(messages[m].to, messages[m].for.version),
                   Key(messages[m].from, messages[m].by.version))
      /\ messages[m].to \in Peers =>
           messages[m].for.version \in 1 .. version[messages[m].to]

(* What the screen waits for is what a handler will bring.                 *)
ScreenIsServed ==
  /\ disabled => \E t \in Tasks : tasks[t].kind = "send"
  /\ area.at = "loading" => \E t \in Tasks : tasks[t].at = "thread"
  /\ area.at = "decrypting" => \E t \in Tasks : tasks[t].kind = "render"

(* A handler has what its next step needs, which no request has to fail    *)
(* for: where it waits, one of the steps of TaskStep is for it, and the    *)
(* peer, the message and the rows that this step reads are there.          *)
Refused(t) == tasks[t].token = None /\ tasks[t].at \in Authorized

GoesOn(t) ==
  LET k == tasks[t] IN
  \/ Refused(t)
  \/ k.at \in {"key", "pin"} /\ k.peer \in Users
  \/ /\ k.at = "import"
     /\ \/ k.kind \in {"send", "forward", "lookup"} /\ k.peer \in Peers
        \/ k.kind = "render" /\ k.todo # {} /\ Stored(Current(t))
  \/ k.at \in {"sealed", "post", "list", "thread"}
  \/ k.at \in {"enter", "unlock", "private", "public", "generate", "register"}
     /\ k.by \in Accounts
  \/ k.at = "stored" /\ k.kind \in {"send", "forward"} /\ Stored(k.msg)
  \/ k.at \in {"remove", "removed"} /\ Stored(k.msg)
  \/ k.at = "build" /\ (k.todo # {} => Stored(Current(t)))
  \/ k.at = "opened" /\ k.todo # {} /\ Stored(Current(t))

(***************************************************************************)
(* A send button that is disabled, and a spinner in messages-area, have a  *)
(* handler under way that will end them, and no handler waits for what can *)
(* no longer come: after failures, refusals and logouts in the middle of   *)
(* handlers, with sends, openings and renderings that overtake each other. *)
(***************************************************************************)
SpinnerHasHandler ==
  ScreenIsServed /\ \A t \in Tasks : tasks[t] # NoTask => GoesOn(t)
=============================================================================
