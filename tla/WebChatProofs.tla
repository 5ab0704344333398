---------------------------- MODULE WebChatProofs ----------------------------
(***************************************************************************)
(* What is proved of WebChat: its types, that every text the page holds or *)
(* shows is the one sealed in its message, that what it posts opens for    *)
(* the recipient, that the screen never waits for a handler that has ended *)
(* or is stuck, and that every handler comes to its end.                   *)
(***************************************************************************)
EXTENDS WebChat, FiniteSetTheorems, WellFoundedInduction, TLAPS

Nobody == Users \cup {None}
Keys == [owner : Nobody, version : Nat]
Rows == [from : Users, to : Users, text : Texts, for : Keys, by : Keys, aad : Nobody \X Users]

Kinds == {"none", "send", "forward", "lookup", "open", "delete", "revoke", "render", "login"}
Stages ==
  {"none", "key", "pin", "import", "sealed", "post", "stored", "list", "thread",
   "remove", "removed", "build", "opened",
   "enter", "unlock", "private", "public", "generate", "register"}
TaskRecords ==
  [kind : Kinds, at : Stages, token : Accounts \cup {None}, peer : Nobody,
   text : Texts \cup {None}, version : Nat, by : Accounts \cup {None},
   uid : Accounts \cup {None}, msg : Nat, todo : SUBSET Nat, bubbles : SUBSET Bubbles]

(* What may stand for message m on a page, when the rows are ms.           *)
TrueTexts(m, ms) == IF m \in DOMAIN ms THEN {None, ms[m].text} ELSE {None}
TrueBubbles(bs, ms) ==
  \A b \in bs : b \in Bubbles /\ b.id \in DOMAIN ms /\ b.text \in TrueTexts(b.id, ms)
Holds(f, ms) == f \in [Ids -> Texts \cup {None}] /\ \A m \in Ids : f[m] \in TrueTexts(m, ms)

(* The steps that a handler of each kind goes through.                     *)
Fits(k) ==
  /\ k.at = "none" <=> k.kind = "none"
  /\ k.kind = "none" => k = NoTask
  /\ k.at \in {"key", "pin", "import"} => k.kind \in {"send", "forward", "lookup", "render"}
  /\ k.at \in {"sealed", "post", "stored"} => k.kind \in {"send", "forward"}
  /\ k.at = "list" => k.kind = "send"
  /\ k.at = "thread" => k.kind \in {"send", "open"}
  /\ k.at \in {"remove", "removed"} => k.kind \in {"delete", "revoke"}
  /\ k.at \in {"build", "opened"} => k.kind = "render"
  /\ k.at \in {"enter", "unlock", "private", "public", "generate", "register"}
       <=> k.kind = "login"

(* What a handler has with it at each of them: a peer, a key this peer has *)
(* published, a text, the account of a login, and the message its answer   *)
(* is about.                                                               *)
HasPublished(k) ==
  k.at \in {"pin", "sealed", "post", "stored"} \/ (k.at = "import" /\ k.kind # "render")
Carries(k, v, ms) ==
  /\ k.at \in {"key", "pin", "import"} => k.peer \in Users
  /\ k.at \in {"key", "pin", "import", "sealed", "post", "stored"} /\ k.kind # "render"
       => k.peer \in Peers
  /\ HasPublished(k) => k.version \in 1 .. v[k.peer]
  /\ k.kind \in {"send", "forward"}
       => (k.at \in {"key", "pin", "import", "sealed", "post", "stored"} => k.text \in Texts)
  /\ k.kind = "login" => k.by \in Accounts
  /\ k.at = "stored" => k.msg \in DOMAIN ms /\ ms[k.msg].text = k.text
  /\ k.at \in {"remove", "removed"} => k.msg \in DOMAIN ms

(* A rendering has a message to go on with, and only true bubbles so far.  *)
Renders(k, ms) ==
  /\ k.todo \subseteq DOMAIN ms
  /\ TrueBubbles(k.bubbles, ms)
  /\ k.kind = "render" /\ k.at \in {"key", "pin", "import", "opened"} => k.todo # {}
  /\ k.at = "opened" => k.text \in TrueTexts(Oldest(k.todo), ms)

GoodTask(k, v, ms) ==
  k \in TaskRecords /\ Fits(k) /\ Carries(k, v, ms) /\ Renders(k, ms)

Pages == [user : Accounts \cup {None}, suite : BOOLEAN, private : Accounts \cup {None},
          public : Accounts \cup {None}, conv : (Accounts \X Peers) \cup {None},
          peer : Peers \cup {None}, forward : Nat]
Conversation(c, ms) ==
  c \in Accounts \X Peers /\ \E m \in DOMAIN ms : {ms[m].from, ms[m].to} = {c[1], c[2]}
GoodPage(s, ms) ==
  /\ s \in Pages
  /\ s.forward \in {0} \cup DOMAIN ms
  /\ s.conv # None => s.conv[2] = s.peer /\ Conversation(s.conv, ms)

Areas == [at : {"none", "start", "loading", "decrypting", "failed", "thread"},
          bubbles : SUBSET Bubbles]
GoodArea(a, ms) == a \in Areas /\ TrueBubbles(a.bubbles, ms)

ServerInv ==
  /\ version \in [Users -> 1 .. MaxVersion]
  /\ messages \in Seq(Rows)
  /\ hidden \subseteq DOMAIN messages

StorageInv ==
  /\ eb_tofu \in [Users -> 0 .. MaxVersion]
  /\ Holds(eb_sent, messages)
  /\ Holds(plaintextCache, messages)

PageInv ==
  /\ GoodPage(S, messages)
  /\ app \in BOOLEAN /\ lists \subseteq Accounts
  /\ GoodArea(area, messages)
  /\ input \in Texts \cup {None}
  /\ disabled \in BOOLEAN

TasksInv ==
  /\ tasks \in [Tasks -> TaskRecords]
  /\ \A t \in Tasks : GoodTask(tasks[t], version, messages)

(* Every row there is, and every one on its way, has its place.            *)
RoomInv ==
  /\ IsFiniteSet(Outgoing)
  /\ Len(messages) + Cardinality(Outgoing) <= MaxMessages

WebChatInv ==
  /\ ServerInv
  /\ StorageInv
  /\ PageInv
  /\ TasksInv
  /\ RoomInv

-----------------------------------------------------------------------------
(* Every set of message ids that is not empty has an oldest one: the sets  *)
(* of the numbers below them are finite, and among finite sets there is a  *)
(* smallest.                                                               *)
LEMMA LeastExists ==
  ASSUME NEW s \in SUBSET Nat, s # {}
  PROVE  \E m \in s : \A k \in s : m <= k
<1> DEFINE Below(m) == 0 .. (m - 1)
           T == { Below(m) : m \in s }
<1>1. T \subseteq FiniteSubsetsOf(Nat)
  <2>1. ASSUME NEW m \in s PROVE Below(m) \in SUBSET Nat /\ IsFiniteSet(Below(m))
    BY FS_Interval
  <2> QED
    BY <2>1 DEF FiniteSubsetsOf
<1>2. T # {}
  OBVIOUS
<1>3. PICK X \in T : \A Y \in T : <<Y, X>> \notin StrictSubsetOrdering(Nat)
  <2> HIDE DEF T
  <2> QED BY <1>1, <1>2, FS_StrictSubsetOrderingWellFounded, WFMin
<1>4. PICK m \in s : X = Below(m)
  OBVIOUS
<1>5. ASSUME NEW k \in s, k < m PROVE FALSE
  <2>1. /\ Below(k) \subseteq Below(m) /\ Below(k) # Below(m)
        /\ Below(k) \in SUBSET Nat /\ Below(m) \in SUBSET Nat
    <3>1. k \in Below(m) /\ k \notin Below(k)
      BY <1>5
    <3> QED BY <1>5, <3>1
  <2>2. <<Below(k), Below(m)>> \in StrictSubsetOrdering(Nat)
    BY <2>1 DEF StrictSubsetOrdering
  <2> QED BY <1>3, <1>4, <2>2
<1> QED BY <1>5

LEMMA OldestIsOne ==
  ASSUME NEW s \in SUBSET Nat, s # {}
  PROVE  Oldest(s) \in s
BY LeastExists DEF Oldest

LEMMA NoneFacts == None \notin Accounts /\ None \notin Peers /\ None \notin Texts
BY WebChatUsers

LEMMA UserFacts ==
  Accounts \subseteq Users /\ Peers \subseteq Users /\ Users \subseteq Nobody /\ None \in Nobody
BY DEF Users, Nobody

LEMMA BoundFacts ==
  MaxMessages \in Nat /\ MaxClicks \in Nat /\ MaxFaults \in Nat /\ MaxVersion \in Nat \ {0}
BY WebChatBounds

LEMMA DomainFacts ==
  ASSUME NEW ms \in Seq(Rows)
  PROVE  /\ DOMAIN ms = 1 .. Len(ms) /\ Len(ms) \in Nat
         /\ DOMAIN ms \subseteq Nat
         /\ \A m \in DOMAIN ms : ms[m] \in Rows /\ ms[m].text \in Texts
                                  /\ ms[m].from \in Users /\ ms[m].to \in Users
<1>1. DOMAIN ms = 1 .. Len(ms) /\ Len(ms) \in Nat
  OBVIOUS
<1>2. \A m \in DOMAIN ms : ms[m] \in Rows
  OBVIOUS
<1> QED
  BY <1>1, <1>2 DEF Rows

(* The numbers of the stored messages are among the ids.                   *)
LEMMA StoredAreIds ==
  ASSUME WebChatInv
  PROVE  DOMAIN messages \subseteq Ids
<1>1. Cardinality(Outgoing) \in Nat
  BY FS_CardinalityType DEF WebChatInv, RoomInv
<1>2. DOMAIN messages = 1 .. Len(messages) /\ Len(messages) \in Nat
  BY DomainFacts DEF WebChatInv, ServerInv
<1>3. Len(messages) <= MaxMessages
  BY <1>1, <1>2, BoundFacts DEF WebChatInv, RoomInv
<1> QED
  BY <1>2, <1>3, BoundFacts DEF Ids

-----------------------------------------------------------------------------
(* The rows only grow, and so do the versions: what is true of a page or a *)
(* handler stays true.                                                     *)
Grows(v, ms, v2, ms2) ==
  /\ \A p \in Users : v[p] \in Nat /\ v2[p] \in Nat /\ v[p] <= v2[p]
  /\ DOMAIN ms \subseteq DOMAIN ms2
  /\ \A m \in DOMAIN ms : ms2[m] = ms[m]

ServerGrows == Grows(version, messages, version', messages')

LEMMA TrueTextsGrow ==
  ASSUME NEW v, NEW ms, NEW v2, NEW ms2, Grows(v, ms, v2, ms2)
  PROVE  /\ \A m : TrueTexts(m, ms) \subseteq TrueTexts(m, ms2)
         /\ \A bs : TrueBubbles(bs, ms) => TrueBubbles(bs, ms2)
         /\ \A f : Holds(f, ms) => Holds(f, ms2)
<1>1. \A m : TrueTexts(m, ms) \subseteq TrueTexts(m, ms2)
  BY DEF Grows, TrueTexts
<1>2. \A bs : TrueBubbles(bs, ms) => TrueBubbles(bs, ms2)
  BY <1>1 DEF Grows, TrueBubbles
<1>3. \A f : Holds(f, ms) => Holds(f, ms2)
  BY <1>1 DEF Holds
<1> QED
  BY <1>1, <1>2, <1>3

LEMMA PagesGrow ==
  ASSUME NEW v, NEW ms, NEW v2, NEW ms2, Grows(v, ms, v2, ms2)
  PROVE  /\ \A s : GoodPage(s, ms) => GoodPage(s, ms2)
         /\ \A a : GoodArea(a, ms) => GoodArea(a, ms2)
<1>1. \A s : GoodPage(s, ms) => GoodPage(s, ms2)
  BY DEF Grows, GoodPage, Conversation
<1>2. \A a : GoodArea(a, ms) => GoodArea(a, ms2)
  BY TrueTextsGrow DEF GoodArea
<1> QED
  BY <1>1, <1>2

LEMMA TasksGrow ==
  ASSUME NEW v, NEW ms, NEW v2, NEW ms2, Grows(v, ms, v2, ms2),
         NEW k, GoodTask(k, v, ms)
  PROVE  GoodTask(k, v2, ms2)
<1>1. \A p \in Users : 1 .. v[p] \subseteq 1 .. v2[p]
  BY DEF Grows
<1>2. Carries(k, v2, ms2)
  <2>1. Carries(k, v, ms) /\ Fits(k)
    BY DEF GoodTask
  <2>2. HasPublished(k) => k.peer \in Users
    BY <2>1, UserFacts DEF Carries, Fits, HasPublished
  <2>3. HasPublished(k) => k.version \in 1 .. v2[k.peer]
    BY <1>1, <2>1, <2>2 DEF Carries
  <2> QED
    BY <2>1, <2>3 DEF Carries, Grows
<1>3. Renders(k, ms2)
  <2>1. Renders(k, ms)
    BY DEF GoodTask
  <2>2. TrueBubbles(k.bubbles, ms2)
    BY <2>1, TrueTextsGrow DEF Renders
  <2>3. k.at = "opened" => k.text \in TrueTexts(Oldest(k.todo), ms2)
    BY <2>1, TrueTextsGrow DEF Renders
  <2> QED
    BY <2>1, <2>2, <2>3 DEF Renders, Grows
<1> QED
  BY <1>2, <1>3 DEF GoodTask

-----------------------------------------------------------------------------
LEMMA NoTaskIsGood ==
  ASSUME NEW v, NEW ms
  PROVE  GoodTask(NoTask, v, ms)
<1>1. NoTask \in TaskRecords
  BY DEF NoTask, TaskRecords, Kinds, Stages, Nobody
<1>2. /\ NoTask.kind = "none" /\ NoTask.at = "none"
      /\ NoTask.todo = {} /\ NoTask.bubbles = {}
  BY DEF NoTask
<1>3. Fits(NoTask) /\ Carries(NoTask, v, ms)
  BY <1>2 DEF Fits, Carries, HasPublished
<1>4. Renders(NoTask, ms)
  BY <1>2 DEF Renders, TrueBubbles
<1> QED
  BY <1>1, <1>3, <1>4 DEF GoodTask

LEMMA InvInitially == Init => WebChatInv
<1> SUFFICES ASSUME Init PROVE WebChatInv
  OBVIOUS
<1>1. ServerInv
  BY BoundFacts DEF Init, ServerInv
<1>2. Holds([m \in Ids |-> None], messages)
  BY DEF Init, Holds, TrueTexts
<1>0. PICK u \in Accounts :
        /\ S = [user |-> u, suite |-> TRUE, private |-> u, public |-> u,
                conv |-> None, peer |-> None, forward |-> 0]
        /\ lists = {u}
        /\ eb_tofu = [v \in Users |-> IF v = u THEN 1 ELSE 0]
  BY DEF Init
<1>3. StorageInv
  <2>1. eb_tofu \in [Users -> 0 .. MaxVersion]
    BY <1>0, BoundFacts
  <2> QED
    BY <1>2, <2>1 DEF Init, StorageInv
<1>4. PageInv
  <2>2. GoodPage(S, messages)
    BY <1>0 DEF GoodPage, Pages
  <2>3. GoodArea(area, messages)
    BY DEF Init, GoodArea, Areas, Showing, TrueBubbles
  <2> QED
    BY <1>0, <2>2, <2>3 DEF PageInv, Init
<1>5. TasksInv
  <2>1. \A t \in Tasks : tasks[t] = NoTask
    BY DEF Init
  <2>2. GoodTask(NoTask, version, messages)
    BY NoTaskIsGood
  <2>3. NoTask \in TaskRecords
    BY <2>2 DEF GoodTask
  <2>4. tasks \in [Tasks -> TaskRecords]
    BY <2>3 DEF Init
  <2> QED
    BY <2>1, <2>2, <2>4 DEF TasksInv
<1>6. RoomInv
  <2>1. \A t \in Tasks : tasks[t].kind = "none"
    BY DEF Init, NoTask
  <2>2. Outgoing = {}
    BY <2>1 DEF Outgoing
  <2>3. Len(messages) = 0
    BY DEF Init
  <2> QED
    BY <2>2, <2>3, FS_EmptySet, BoundFacts DEF RoomInv
<1> QED
  BY <1>1, <1>3, <1>4, <1>5, <1>6 DEF WebChatInv

-----------------------------------------------------------------------------
(* What a step does to the server.                                         *)
LEMMA PostedIsRow ==
  ASSUME WebChatInv, NEW t \in Tasks, InsertMessage(t)
  PROVE  /\ Posted(t) \in Rows
         /\ Posted(t).text = tasks[t].text
<1> DEFINE k == tasks[t]
<1>1. k \in TaskRecords /\ Fits(k) /\ Carries(k, version, messages)
  BY DEF WebChatInv, TasksInv, GoodTask
<1>2. k.at = "post" /\ k.token # None
  BY DEF InsertMessage
<1>3. /\ k.peer \in Peers /\ k.text \in Texts /\ k.by \in Nobody /\ k.uid \in Nobody
      /\ k.token \in Accounts /\ k.version \in Nat
  BY <1>1, <1>2 DEF Fits, Carries, HasPublished, TaskRecords, Nobody, Users
<1> QED
  BY <1>3 DEF Posted, Row, Rows, Key, KeyOf, Keys, Nobody, Users

LEMMA SentIsRow ==
  ASSUME WebChatInv, NEW p \in Peers, NEW u \in Accounts, NEW text \in Texts
  PROVE  Row(p, u, text, Key(u, 1), Key(p, version[p]), <<p, u>>) \in Rows
<1>1. version[p] \in Nat
  BY BoundFacts DEF WebChatInv, ServerInv, Users
<1> QED
  BY <1>1 DEF Row, Rows, Key, Keys, Nobody, Users

LEMMA InsertGrows ==
  ASSUME WebChatInv, NEW row \in Rows, Insert(row), UNCHANGED <<version, hidden>>
  PROVE  /\ ServerInv' /\ ServerGrows
         /\ Len(messages') = Len(messages) + 1
         /\ Len(messages) + 1 \in DOMAIN messages'
         /\ messages'[Len(messages) + 1] = row
         /\ \A m \in DOMAIN messages' : m \in DOMAIN messages \/ m = Len(messages) + 1
<1>1. messages \in Seq(Rows) /\ version \in [Users -> 1 .. MaxVersion]
      /\ hidden \subseteq DOMAIN messages
  BY DEF WebChatInv, ServerInv
<1>2. messages' = Append(messages, row)
  BY DEF Insert
<1>3. /\ messages' \in Seq(Rows) /\ Len(messages') = Len(messages) + 1
      /\ DOMAIN messages' = 1 .. Len(messages) + 1 /\ DOMAIN messages = 1 .. Len(messages)
      /\ messages'[Len(messages) + 1] = row
      /\ Len(messages) \in Nat
  BY <1>1, <1>2
<1>4. \A m \in DOMAIN messages : messages'[m] = messages[m]
  BY <1>1, <1>2
<1>5. DOMAIN messages \subseteq DOMAIN messages'
  BY <1>3
<1>6. ServerInv'
  BY <1>1, <1>3, <1>5 DEF ServerInv
<1>7. ServerGrows
  BY <1>1, <1>4, <1>5, BoundFacts DEF ServerGrows, Grows
<1> QED
  BY <1>3, <1>6, <1>7

LEMMA ServerStays ==
  ASSUME WebChatInv, UNCHANGED <<version, messages>>, hidden' \subseteq DOMAIN messages
  PROVE  ServerInv' /\ ServerGrows
BY BoundFacts DEF WebChatInv, ServerInv, ServerGrows, Grows

(* What a login leaves alone.                                              *)
LEMMA SignInKeeps ==
  ASSUME NEW t \in Tasks, SignIn(t)
  PROVE  UNCHANGED <<server, eb_sent, plaintextCache, area, compose, bounds>>
BY DEF SignIn, LoginAnswered, Unlocked, PrivateKeyRead, PublicKeyRead, Generated,
       Registered, NameTaken, storage

(* The steps of handlers that do not store a message.                      *)
LEMMA ServerQuiet ==
  ASSUME WebChatInv, NEW t \in Tasks, TaskStep(t), ~InsertMessage(t)
  PROVE  UNCHANGED <<version, messages>> /\ hidden' \subseteq DOMAIN messages
<1>1. hidden \subseteq DOMAIN messages
  BY DEF WebChatInv, ServerInv
<1>2. CASE Removed(t)
  <2>1. tasks[t].msg \in DOMAIN messages
    BY <1>2 DEF Removed, WebChatInv, TasksInv, GoodTask, Carries
  <2> QED
    BY <1>1, <1>2, <2>1 DEF Removed
<1>3. CASE ~Removed(t)
  <2>1. UNCHANGED server
    BY <1>3, SignInKeeps DEF TaskStep, LookupKey, KeyUnusable, KeyArrives, OpenExisting,
       NewConversation, Seal, SealFails, Post, RefuseForward, SendAnswered, ForwardAnswered,
           ListAnswered, ThreadAnswered, ThreadRefused, BuildMine, BuildPinned,
           BuildUnpinned, Decrypt, BuildTheirs, Rendered, RemoveRefused, RemoveAnswered,
           RequestFails, Unauthorized
  <2> QED
    BY <1>1, <2>1 DEF server
<1> QED
  BY <1>2, <1>3

LEMMA ServerStep ==
  ASSUME WebChatInv, [Next]_webChatVars
  PROVE  ServerInv' /\ ServerGrows
<1>1. hidden \subseteq DOMAIN messages
  BY DEF WebChatInv, ServerInv
<1>2. CASE UNCHANGED webChatVars
  BY <1>1, <1>2, ServerStays DEF webChatVars, server
<1>3. ASSUME NEW p \in Peers, Rotate(p) PROVE ServerInv' /\ ServerGrows
  <2>1. version \in [Users -> 1 .. MaxVersion]
    BY DEF WebChatInv, ServerInv
  <2>2. /\ version' = [version EXCEPT ![p] = version[p] + 1] /\ version[p] < MaxVersion
        /\ messages' = messages /\ hidden' = hidden
    BY <1>3 DEF Rotate
  <2>3. version' \in [Users -> 1 .. MaxVersion]
    BY <2>1, <2>2, BoundFacts, UserFacts
  <2>4. \A q \in Users : version[q] \in Nat /\ version'[q] \in Nat /\ version[q] <= version'[q]
    BY <2>1, <2>2, <2>3, BoundFacts
  <2> QED
    BY <2>2, <2>3, <2>4 DEF WebChatInv, ServerInv, ServerGrows, Grows
<1>4. ASSUME NEW p \in Peers, NEW u \in Accounts, NEW text \in Texts, PeerSends(p, u, text)
      PROVE  ServerInv' /\ ServerGrows
  BY <1>4, SentIsRow, InsertGrows DEF PeerSends
<1>6. CASE User
  <2>1. UNCHANGED server
    BY <1>6 DEF User, Logout, Type, OpenForwardModal, CloseForwardModal, PressSend,
           ClickConversation, StartNewConv, PressForward, Remove,
       PressLogin, PressRegister
  <2> QED
    BY <1>1, <2>1, ServerStays DEF server
<1>7. ASSUME NEW t \in Tasks, TaskStep(t) PROVE ServerInv' /\ ServerGrows
  <2>1. CASE InsertMessage(t)
    BY <2>1, PostedIsRow, InsertGrows DEF InsertMessage
  <2>2. CASE ~InsertMessage(t)
    BY <1>7, <2>2, ServerQuiet, ServerStays
  <2> QED
    BY <2>1, <2>2
<1> QED
  BY <1>2, <1>3, <1>4, <1>6, <1>7 DEF Next

-----------------------------------------------------------------------------
(* Each step of a handler leaves it with what its next step needs.         *)
TaskMoves(t) ==
  /\ tasks' = [tasks EXCEPT ![t] = tasks'[t]]
  /\ GoodTask(tasks'[t], version', messages')

Continues(n, k) ==
  n \in TaskRecords /\ n.kind = k.kind /\ n.todo = k.todo /\ n.bubbles = k.bubbles

LEMMA GoodNow ==
  ASSUME WebChatInv, NEW t \in Tasks
  PROVE  /\ tasks \in [Tasks -> TaskRecords]
         /\ tasks[t] \in TaskRecords
         /\ GoodTask(tasks[t], version, messages)
         /\ Fits(tasks[t])
         /\ Carries(tasks[t], version, messages)
         /\ Renders(tasks[t], messages)
BY DEF WebChatInv, TasksInv, GoodTask

LEMMA BecomesMoves ==
  ASSUME WebChatInv, NEW t \in Tasks, NEW n, Becomes(t, n),
         GoodTask(n, version', messages')
  PROVE  TaskMoves(t) /\ tasks'[t] = n
BY GoodNow DEF Becomes, TaskMoves

LEMMA EndsMoves ==
  ASSUME WebChatInv, NEW t \in Tasks, Ends(t)
  PROVE  TaskMoves(t) /\ tasks'[t] = NoTask
BY NoTaskIsGood, BecomesMoves DEF Ends

LEMMA LookupMoves ==
  ASSUME WebChatInv, NEW t \in Tasks, LookupKey(t)
  PROVE  TaskMoves(t)
<1> DEFINE k == tasks[t]
           n == [k EXCEPT !.at = "pin", !.version = version[k.peer]]
<1>1. k.at = "key" /\ Becomes(t, n) /\ UNCHANGED <<version, messages>>
  BY DEF LookupKey, server
<1>2. k.peer \in Users /\ version[k.peer] \in 1 .. MaxVersion
  BY <1>1, GoodNow DEF Carries, WebChatInv, ServerInv
<1>3. version[k.peer] \in Nat /\ version[k.peer] \in 1 .. version[k.peer]
  BY <1>2, BoundFacts
<1>4. /\ Continues(n, k) /\ n.at = "pin" /\ n.peer = k.peer /\ n.text = k.text
      /\ n.version = version[k.peer]
  BY <1>3, GoodNow DEF TaskRecords, Stages, Continues
<1> HIDE DEF n
<1>5. GoodTask(n, version, messages)
  BY <1>1, <1>2, <1>3, <1>4, GoodNow
     DEF GoodTask, Fits, Carries, HasPublished, Renders, Continues
<1> QED
  BY <1>1, <1>5, BecomesMoves

LEMMA SealMoves ==
  ASSUME WebChatInv, NEW t \in Tasks, KeyArrives(t) \/ Seal(t) \/ Post(t)
  PROVE  TaskMoves(t)
<1> DEFINE k == tasks[t]
<1>1. CASE KeyArrives(t)
  <2> DEFINE n == [k EXCEPT !.at = "import"]
  <2>1. k.at = "pin" /\ Becomes(t, n) /\ UNCHANGED <<version, messages>>
    BY <1>1 DEF KeyArrives, Arrived, server
  <2>2. /\ Continues(n, k) /\ n.at = "import" /\ n.peer = k.peer /\ n.text = k.text
        /\ n.version = k.version /\ n.by = k.by
    BY GoodNow DEF TaskRecords, Stages, Continues
  <2> HIDE DEF n
  <2>3. GoodTask(n, version, messages)
    BY <2>1, <2>2, GoodNow DEF GoodTask, Fits, Carries, HasPublished, Renders, Continues
  <2> QED
    BY <2>1, <2>3, BecomesMoves
<1>2. CASE Seal(t)
  <2> DEFINE n == [k EXCEPT !.at = "sealed", !.by = KeyPair, !.uid = S.user]
  <2>1. /\ k.at = "import" /\ k.kind \in {"send", "forward"} /\ Becomes(t, n)
        /\ UNCHANGED <<version, messages>>
    BY <1>2 DEF Seal, Imported, server
  <2>2. S.user \in Accounts \cup {None} /\ KeyPair \in Accounts \cup {None}
    BY DEF WebChatInv, PageInv, GoodPage, Pages, KeyPair
  <2>3. /\ Continues(n, k) /\ n.at = "sealed" /\ n.peer = k.peer /\ n.text = k.text
        /\ n.version = k.version
    BY <2>2, GoodNow DEF TaskRecords, Stages, Continues
  <2> HIDE DEF n
  <2>4. GoodTask(n, version, messages)
    BY <2>1, <2>2, <2>3, GoodNow
     DEF GoodTask, Fits, Carries, HasPublished, Renders, Continues
  <2> QED
    BY <2>1, <2>4, BecomesMoves
<1>3. CASE Post(t)
  <2> DEFINE m == IF k.kind = "forward" THEN S.forward ELSE 0
             n == [k EXCEPT !.at = "post", !.token = S.user, !.msg = m]
  <2>1. k.at = "sealed" /\ Becomes(t, n) /\ UNCHANGED <<version, messages>>
    BY <1>3 DEF Post, server
  <2>2. m \in Nat /\ S.user \in Accounts \cup {None}
    BY DEF WebChatInv, PageInv, GoodPage, Pages
  <2> HIDE DEF m
  <2>3. /\ Continues(n, k) /\ n.at = "post" /\ n.peer = k.peer /\ n.text = k.text
        /\ n.version = k.version /\ n.by = k.by
    BY <2>2, GoodNow DEF TaskRecords, Stages, Continues
  <2> HIDE DEF n
  <2>4. GoodTask(n, version, messages)
    BY <2>1, <2>3, GoodNow DEF GoodTask, Fits, Carries, HasPublished, Renders, Continues
  <2> QED
    BY <2>1, <2>4, BecomesMoves
<1> QED
  BY <1>1, <1>2, <1>3

LEMMA InsertMoves ==
  ASSUME WebChatInv, NEW t \in Tasks, InsertMessage(t)
  PROVE  TaskMoves(t)
<1> DEFINE k == tasks[t]
           m == Len(messages) + 1
           n == [k EXCEPT !.at = "stored", !.msg = m]
<1>1. k.at = "post" /\ Becomes(t, n) /\ Insert(Posted(t)) /\ UNCHANGED <<version, hidden>>
  BY DEF InsertMessage
<1>2. ServerGrows /\ m \in DOMAIN messages' /\ messages'[m].text = k.text
  BY <1>1, PostedIsRow, InsertGrows
<1>3. m \in Nat
  BY DEF WebChatInv, ServerInv
<1> HIDE DEF m
<1>4. /\ Continues(n, k) /\ n.at = "stored" /\ n.peer = k.peer /\ n.text = k.text
      /\ n.version = k.version /\ n.by = k.by /\ n.msg = m
  BY <1>3, GoodNow DEF TaskRecords, Stages, Continues
<1> HIDE DEF n
<1>5. GoodTask(k, version', messages')
  BY <1>2, GoodNow, TasksGrow DEF ServerGrows
<1>6. GoodTask(n, version', messages')
  BY <1>1, <1>2, <1>4, <1>5
     DEF GoodTask, Fits, Carries, HasPublished, Renders, Continues
<1> QED
  BY <1>1, <1>6, BecomesMoves

LEMMA AnswerMoves ==
  ASSUME WebChatInv, NEW t \in Tasks, SendAnswered(t) \/ Removed(t)
  PROVE  TaskMoves(t)
<1> DEFINE k == tasks[t]
<1>1. CASE SendAnswered(t)
  <2> DEFINE n == [k EXCEPT !.at = "list", !.token = S.user]
  <2>1. /\ k.at = "stored" /\ k.kind = "send" /\ Becomes(t, n)
        /\ UNCHANGED <<version, messages>>
    BY <1>1 DEF SendAnswered, server
  <2>2. S.user \in Accounts \cup {None}
    BY DEF WebChatInv, PageInv, GoodPage, Pages
  <2>3. Continues(n, k) /\ n.at = "list"
    BY <2>2, GoodNow DEF TaskRecords, Stages, Continues
  <2> HIDE DEF n
  <2>4. GoodTask(n, version, messages)
    BY <2>1, <2>3, GoodNow DEF GoodTask, Fits, Carries, HasPublished, Renders, Continues
  <2> QED
    BY <2>1, <2>4, BecomesMoves
<1>2. CASE Removed(t)
  <2> DEFINE n == [k EXCEPT !.at = "removed"]
  <2>1. k.at = "remove" /\ Becomes(t, n) /\ UNCHANGED <<version, messages>>
    BY <1>2 DEF Removed
  <2>2. Continues(n, k) /\ n.at = "removed" /\ n.msg = k.msg
    BY GoodNow DEF TaskRecords, Stages, Continues
  <2> HIDE DEF n
  <2>3. GoodTask(n, version, messages)
    BY <2>1, <2>2, GoodNow DEF GoodTask, Fits, Carries, HasPublished, Renders, Continues
  <2> QED
    BY <2>1, <2>3, BecomesMoves
<1> QED
  BY <1>1, <1>2

-----------------------------------------------------------------------------
(* A rendering: the message it is at, its sender, and the texts it finds.  *)
LEMMA CurrentFacts ==
  ASSUME WebChatInv, NEW t \in Tasks, tasks[t].todo # {}
  PROVE  /\ Current(t) \in tasks[t].todo
         /\ Current(t) \in DOMAIN messages
         /\ Current(t) \in Ids
         /\ messages[Current(t)] \in Rows
         /\ messages[Current(t)].text \in Texts
         /\ Sender(t) \in Users
<1>1. tasks[t].todo \subseteq DOMAIN messages /\ tasks[t].todo \in SUBSET Nat
  BY GoodNow DEF Renders, TaskRecords
<1>2. Current(t) \in tasks[t].todo
  BY <1>1, OldestIsOne DEF Current
<1> QED
  BY <1>1, <1>2, StoredAreIds, DomainFacts DEF WebChatInv, ServerInv, Sender

LEMMA BuildingRenders ==
  ASSUME WebChatInv, NEW t \in Tasks, Building(t)
  PROVE  tasks[t].kind = "render" /\ tasks[t].todo # {}
BY GoodNow DEF Building, Fits

(* An opening that has found the text of its message, or none.             *)
LEMMA OpenedMoves ==
  ASSUME WebChatInv, NEW t \in Tasks, tasks[t].todo # {}, tasks[t].kind = "render",
         NEW text \in TrueTexts(Current(t), messages),
         Becomes(t, [tasks[t] EXCEPT !.at = "opened", !.text = text]),
         UNCHANGED <<version, messages>>
  PROVE  TaskMoves(t)
<1> DEFINE k == tasks[t]
           n == [k EXCEPT !.at = "opened", !.text = text]
<1>1. text \in TrueTexts(Oldest(k.todo), messages) /\ text \in Texts \cup {None}
  BY CurrentFacts DEF TrueTexts, Current
<1>2. Continues(n, k) /\ n.at = "opened" /\ n.text = text
  BY <1>1, GoodNow DEF TaskRecords, Stages, Continues
<1> HIDE DEF n
<1>3. GoodTask(n, version, messages)
  BY <1>1, <1>2, GoodNow DEF GoodTask, Fits, Carries, HasPublished, Renders, Continues
<1> QED
  BY <1>3, BecomesMoves DEF n

LEMMA DecryptMoves ==
  ASSUME WebChatInv, NEW t \in Tasks, Decrypt(t)
  PROVE  TaskMoves(t)
<1>1. tasks[t].kind = "render" /\ tasks[t].todo # {}
  BY GoodNow DEF Decrypt, Imported, Renders
<1>2. Opened(t) \in TrueTexts(Current(t), messages)
  BY <1>1, CurrentFacts DEF Opened, TrueTexts
<1>3. /\ Becomes(t, [tasks[t] EXCEPT !.at = "opened", !.text = Opened(t)])
      /\ UNCHANGED <<version, messages>>
  BY DEF Decrypt, server
<1> QED
  BY <1>1, <1>2, <1>3, OpenedMoves

LEMMA OpeningMoves ==
  ASSUME WebChatInv, NEW t \in Tasks, BuildPinned(t) \/ BuildUnpinned(t)
  PROVE  TaskMoves(t)
<1> DEFINE k == tasks[t]
<1>1. /\ k.kind = "render" /\ k.todo # {} /\ Sender(t) \in Users
      /\ UNCHANGED <<version, messages>>
  BY BuildingRenders, CurrentFacts DEF BuildPinned, BuildUnpinned, server
<1>2. CASE BuildPinned(t) /\ S.suite
  <2> DEFINE n == [k EXCEPT !.at = "import", !.peer = Sender(t), !.version = eb_tofu[Sender(t)]]
  <2>1. Becomes(t, n)
    BY <1>2 DEF BuildPinned
  <2>2. eb_tofu[Sender(t)] \in Nat
    BY <1>1, BoundFacts DEF WebChatInv, StorageInv
  <2>3. Continues(n, k) /\ n.at = "import" /\ n.peer = Sender(t)
    BY <1>1, <2>2, GoodNow, UserFacts DEF TaskRecords, Stages, Continues
  <2> HIDE DEF n
  <2>4. GoodTask(n, version, messages)
    BY <1>1, <2>3, GoodNow DEF GoodTask, Fits, Carries, HasPublished, Renders, Continues
  <2> QED
    BY <1>1, <2>1, <2>4, BecomesMoves
<1>3. CASE BuildPinned(t) /\ ~S.suite
  <2>1. Becomes(t, [k EXCEPT !.at = "opened", !.text = None])
    BY <1>3 DEF BuildPinned
  <2>2. None \in TrueTexts(Current(t), messages)
    BY DEF TrueTexts
  <2> QED
    BY <1>1, <2>1, <2>2, OpenedMoves
<1>4. CASE BuildUnpinned(t)
  <2> DEFINE n == [k EXCEPT !.at = "key", !.peer = Sender(t), !.token = S.user]
  <2>1. Becomes(t, n)
    BY <1>4 DEF BuildUnpinned
  <2>2. S.user \in Accounts \cup {None}
    BY DEF WebChatInv, PageInv, GoodPage, Pages
  <2>3. Continues(n, k) /\ n.at = "key" /\ n.peer = Sender(t)
    BY <1>1, <2>2, GoodNow, UserFacts DEF TaskRecords, Stages, Continues
  <2> HIDE DEF n
  <2>4. GoodTask(n, version, messages)
    BY <1>1, <2>3, GoodNow DEF GoodTask, Fits, Carries, HasPublished, Renders, Continues
  <2> QED
    BY <1>1, <2>1, <2>4, BecomesMoves
<1> QED
  BY <1>2, <1>3, <1>4

(* A bubble more, with the text of its message, and a message less to do.  *)
LEMMA BuiltMoves ==
  ASSUME WebChatInv, NEW t \in Tasks, NEW text, NEW mine \in BOOLEAN,
         tasks[t].todo # {}, tasks[t].kind = "render",
         text \in TrueTexts(Current(t), messages),
         Becomes(t, Built(t, text, mine)), UNCHANGED <<version, messages>>
  PROVE  TaskMoves(t)
<1> DEFINE k == tasks[t]
           b == Bubble(Current(t), text, mine)
           rest == k.todo \ {Current(t)}
           more == k.bubbles \cup {b}
           n == [k EXCEPT !.at = "build", !.todo = rest, !.text = None, !.bubbles = more]
<1>1. Becomes(t, n)
  BY DEF Built
<1>2. text \in Texts \cup {None}
  BY CurrentFacts DEF TrueTexts
<1>3. b \in Bubbles /\ b.id = Current(t) /\ b.text = text
  BY <1>2, CurrentFacts DEF Bubble, Bubbles
<1> HIDE DEF b
<1>4. TrueBubbles(k.bubbles, messages) /\ k.todo \subseteq DOMAIN messages
  BY GoodNow DEF Renders
<1>5. TrueBubbles(more, messages) /\ more \in SUBSET Bubbles
  <2>1. b.id \in DOMAIN messages /\ b.text \in TrueTexts(b.id, messages)
    BY <1>3, CurrentFacts
  <2> QED
    BY <1>3, <1>4, <2>1 DEF TrueBubbles
<1>6. rest \in SUBSET Nat /\ rest \subseteq DOMAIN messages
  BY <1>4, GoodNow DEF TaskRecords
<1> HIDE DEF more, rest
<1>7. /\ n \in TaskRecords /\ n.kind = "render" /\ n.at = "build"
      /\ n.todo = rest /\ n.bubbles = more
  BY <1>5, <1>6, GoodNow DEF TaskRecords, Stages
<1> HIDE DEF n
<1>8. GoodTask(n, version, messages)
  BY <1>5, <1>6, <1>7 DEF GoodTask, Fits, Carries, HasPublished, Renders
<1> QED
  BY <1>1, <1>8, BecomesMoves

LEMMA BuildMoves ==
  ASSUME WebChatInv, NEW t \in Tasks, BuildMine(t) \/ BuildTheirs(t)
  PROVE  TaskMoves(t)
<1>1. CASE BuildMine(t)
  <2>1. tasks[t].kind = "render" /\ tasks[t].todo # {}
    BY <1>1, BuildingRenders DEF BuildMine
  <2>2. eb_sent[Current(t)] \in TrueTexts(Current(t), messages)
    BY <2>1, CurrentFacts DEF WebChatInv, StorageInv, Holds
  <2> QED
    BY <1>1, <2>1, <2>2, BuiltMoves DEF BuildMine, server
<1>2. CASE BuildTheirs(t)
  <2>1. tasks[t].at = "opened"
    BY <1>2 DEF BuildTheirs
  <2>2. /\ tasks[t].kind = "render" /\ tasks[t].todo # {}
        /\ tasks[t].text \in TrueTexts(Current(t), messages)
    BY <2>1, GoodNow DEF Fits, Renders, Current
  <2> QED
    BY <1>2, <2>2, BuiltMoves DEF BuildTheirs, server
<1> QED
  BY <1>1, <1>2

-----------------------------------------------------------------------------
(* Handlers that begin, and those that end.                                *)
LEMMA StartsFacts ==
  ASSUME WebChatInv, NEW t \in Tasks, NEW kind \in Kinds, NEW at \in Stages,
         NEW peer \in Nobody
  PROVE  /\ Starts(t, kind, at, peer) \in TaskRecords
         /\ Starts(t, kind, at, peer).kind = kind /\ Starts(t, kind, at, peer).at = at
         /\ Starts(t, kind, at, peer).peer = peer
         /\ Starts(t, kind, at, peer).todo = {} /\ Starts(t, kind, at, peer).bubbles = {}
<1>1. S.user \in Accounts \cup {None}
  BY DEF WebChatInv, PageInv, GoodPage, Pages
<1>2. NoTask \in TaskRecords /\ NoTask.todo = {} /\ NoTask.bubbles = {}
  BY NoTaskIsGood DEF GoodTask, NoTask
<1> QED
  BY <1>1, <1>2 DEF Starts, TaskRecords

LEMMA OpenConvMoves ==
  ASSUME WebChatInv, NEW t \in Tasks, NEW kind \in {"send", "open"},
         NEW c \in Accounts \X Peers,
         OpenConv(t, kind, c), UNCHANGED <<version, messages>>
  PROVE  TaskMoves(t) /\ tasks'[t].kind = kind /\ tasks'[t].at = "thread"
<1> DEFINE s == Starts(t, kind, "thread", c[2])
           n == [s EXCEPT !.by = c[1]]
<1>1. c[1] \in Accounts /\ c[2] \in Peers
  OBVIOUS
<1>2. /\ s \in TaskRecords /\ s.kind = kind /\ s.at = "thread"
      /\ s.todo = {} /\ s.bubbles = {}
  <2>1. kind \in Kinds /\ "thread" \in Stages /\ c[2] \in Nobody
    BY <1>1, UserFacts DEF Kinds, Stages
  <2> QED
    BY <2>1, StartsFacts
<1> HIDE DEF s
<1>3. /\ n \in TaskRecords /\ n.kind = kind /\ n.at = "thread"
      /\ n.todo = {} /\ n.bubbles = {}
  BY <1>1, <1>2 DEF TaskRecords
<1>4. Becomes(t, n)
  BY DEF OpenConv, s
<1> HIDE DEF n
<1>5. GoodTask(n, version, messages)
  BY <1>3 DEF GoodTask, Fits, Carries, HasPublished, Renders, TrueBubbles
<1> QED
  BY <1>3, <1>4, <1>5, BecomesMoves

(* A conversation of the list is one that there is.                        *)
LEMMA ListedFacts ==
  ASSUME WebChatInv, NEW p \in Peers, NEW c \in Listed(p)
  PROVE  Conversation(c, messages) /\ c \in Accounts \X Peers
BY DEF Listed, HasConversation, Between, Conversation, WebChatInv, PageInv

(* The handler of a click: a send or a forward has its text, a removal its *)
(* message.                                                                *)
LEMMA ClickMoves ==
  ASSUME WebChatInv, NEW t \in Tasks,
         NEW kind \in {"send", "forward", "lookup"}, NEW p \in Peers, NEW text,
         text \in IF kind = "lookup" THEN {None} ELSE Texts,
         Becomes(t, [Starts(t, kind, "key", p) EXCEPT !.text = text]),
         UNCHANGED <<version, messages>>
  PROVE  TaskMoves(t) /\ tasks'[t].kind = kind
<1> DEFINE s == Starts(t, kind, "key", p)
           n == [s EXCEPT !.text = text]
<1>1. /\ s \in TaskRecords /\ s.kind = kind /\ s.at = "key" /\ s.peer = p
      /\ s.todo = {} /\ s.bubbles = {}
  <2>1. kind \in Kinds /\ "key" \in Stages /\ p \in Nobody
    BY UserFacts DEF Kinds, Stages
  <2> QED
    BY <2>1, StartsFacts
<1> HIDE DEF s
<1>2. text \in Texts \cup {None}
  OBVIOUS
<1>3. /\ n \in TaskRecords /\ n.kind = kind /\ n.at = "key" /\ n.peer = p
      /\ n.text = text /\ n.todo = {} /\ n.bubbles = {}
  BY <1>1, <1>2 DEF TaskRecords
<1>4. Becomes(t, n)
  BY DEF s
<1> HIDE DEF n
<1>5. GoodTask(n, version, messages)
  BY <1>3, UserFacts DEF GoodTask, Fits, Carries, HasPublished, Renders, TrueBubbles
<1> QED
  BY <1>3, <1>4, <1>5, BecomesMoves

LEMMA UserMoves ==
  ASSUME WebChatInv, NEW t \in Tasks
  PROVE  /\ PressSend(t) => TaskMoves(t) /\ tasks'[t].kind = "send"
         /\ \A p \in Peers :
              /\ ClickConversation(t, p) => TaskMoves(t) /\ tasks'[t].at = "thread"
              /\ StartNewConv(t, p) => TaskMoves(t)
              /\ PressForward(t, p) => TaskMoves(t)
         /\ \A b \in area.bubbles, kind \in {"delete", "revoke"} :
              Remove(t, kind, b) => TaskMoves(t)
         /\ \A u \in Accounts :
              PressLogin(t, u) \/ PressRegister(t, u) => TaskMoves(t) /\ tasks'[t].kind = "login"
<1>1. ASSUME PressSend(t) PROVE TaskMoves(t) /\ tasks'[t].kind = "send"
  <2>1. S.peer \in Peers /\ input \in Texts
    BY <1>1 DEF PressSend, WebChatInv, PageInv, GoodPage, Pages
  <2> QED
    BY <1>1, <2>1, ClickMoves DEF PressSend, server
<1>2. ASSUME NEW p \in Peers, ClickConversation(t, p)
      PROVE  TaskMoves(t) /\ tasks'[t].at = "thread"
  BY <1>2, ListedFacts, OpenConvMoves DEF ClickConversation, server
<1>3. ASSUME NEW p \in Peers, StartNewConv(t, p) PROVE TaskMoves(t)
  <2> DEFINE s == Starts(t, "lookup", "key", p)
  <2>1. "lookup" \in Kinds /\ "key" \in Stages /\ p \in Nobody
    BY UserFacts DEF Kinds, Stages
  <2>2. /\ s \in TaskRecords /\ s.kind = "lookup" /\ s.at = "key" /\ s.peer = p
        /\ s.todo = {} /\ s.bubbles = {}
    BY <2>1, StartsFacts
  <2>3. Becomes(t, s) /\ UNCHANGED <<version, messages>>
    BY <1>3 DEF StartNewConv, server
  <2> HIDE DEF s
  <2>4. GoodTask(s, version, messages)
    BY <2>2, UserFacts DEF GoodTask, Fits, Carries, HasPublished, Renders, TrueBubbles
  <2> QED
    BY <2>3, <2>4, BecomesMoves
<1>4. ASSUME NEW p \in Peers, PressForward(t, p) PROVE TaskMoves(t)
  <2>1. S.forward \in Ids
    BY <1>4, StoredAreIds DEF PressForward, WebChatInv, PageInv, GoodPage
  <2>2. plaintextCache[S.forward] \in Texts
    BY <1>4, <2>1 DEF PressForward, WebChatInv, StorageInv, Holds
  <2> QED
    BY <1>4, <2>2, ClickMoves DEF PressForward, server
<1>5. ASSUME NEW b \in area.bubbles, NEW kind \in {"delete", "revoke"}, Remove(t, kind, b)
      PROVE  TaskMoves(t)
  <2> DEFINE s == Starts(t, kind, "remove", None)
             n == [s EXCEPT !.msg = b.id]
  <2>1. kind \in Kinds /\ "remove" \in Stages /\ None \in Nobody
    BY UserFacts DEF Kinds, Stages
  <2>2. /\ s \in TaskRecords /\ s.kind = kind /\ s.at = "remove"
        /\ s.todo = {} /\ s.bubbles = {}
    BY <2>1, StartsFacts
  <2>3. b.id \in DOMAIN messages /\ b.id \in Nat
    BY DomainFacts DEF WebChatInv, ServerInv, PageInv, GoodArea, TrueBubbles
  <2>4. Becomes(t, n) /\ UNCHANGED <<version, messages>>
    BY <1>5 DEF Remove, server
  <2> HIDE DEF s
  <2>5. /\ n \in TaskRecords /\ n.kind = kind /\ n.at = "remove" /\ n.msg = b.id
        /\ n.todo = {} /\ n.bubbles = {}
    BY <2>2, <2>3 DEF TaskRecords
  <2> HIDE DEF n
  <2>6. GoodTask(n, version, messages)
    BY <2>3, <2>5 DEF GoodTask, Fits, Carries, HasPublished, Renders, TrueBubbles
  <2> QED
    BY <2>4, <2>6, BecomesMoves
<1>6. ASSUME NEW u \in Accounts, NEW at \in {"enter", "generate"},
             Becomes(t, [NoTask EXCEPT !.kind = "login", !.at = at, !.by = u]),
             UNCHANGED <<version, messages>>
      PROVE  TaskMoves(t) /\ tasks'[t].kind = "login"
  <2> DEFINE n == [NoTask EXCEPT !.kind = "login", !.at = at, !.by = u]
  <2>1. NoTask \in TaskRecords /\ NoTask.todo = {} /\ NoTask.bubbles = {}
    BY NoTaskIsGood DEF GoodTask, NoTask
  <2>2. /\ n \in TaskRecords /\ n.kind = "login" /\ n.at = at /\ n.by = u
        /\ n.todo = {} /\ n.bubbles = {}
    BY <2>1 DEF TaskRecords, Kinds, Stages
  <2>3. Becomes(t, n)
    BY <1>6
  <2> HIDE DEF n
  <2>4. GoodTask(n, version, messages)
    BY <2>2 DEF GoodTask, Fits, Carries, HasPublished, Renders, TrueBubbles
  <2> QED
    BY <1>6, <2>2, <2>3, <2>4, BecomesMoves
<1>7. ASSUME NEW u \in Accounts, PressLogin(t, u) \/ PressRegister(t, u)
      PROVE  TaskMoves(t) /\ tasks'[t].kind = "login"
  BY <1>6, <1>7 DEF PressLogin, PressRegister, server
<1> QED
  BY <1>1, <1>2, <1>3, <1>4, <1>5, <1>7

(* The list of a send opens a conversation that there is, or ends it.      *)
LEMMA ListFacts ==
  ASSUME WebChatInv, NEW t \in Tasks, ListAnswered(t)
  PROVE  \/ Ends(t) /\ disabled' = FALSE /\ UNCHANGED <<S, screen, area>>
         \/ /\ UNCHANGED disabled
            /\ \E c \in Accounts \X Peers : Conversation(c, messages) /\ OpenConv(t, "send", c)
<1>1. /\ S.conv \in (Accounts \X Peers) \cup {None} /\ S.peer \in Peers \cup {None}
      /\ S.conv # None => Conversation(S.conv, messages)
  BY DEF WebChatInv, PageInv, GoodPage, Pages
<1>2. tasks[t].token \in Accounts
  BY GoodNow DEF ListAnswered, TaskRecords
<1>3. ASSUME Found(t)
      PROVE  /\ <<tasks[t].token, S.peer>> \in Accounts \X Peers
             /\ Conversation(<<tasks[t].token, S.peer>>, messages)
  BY <1>1, <1>2, <1>3 DEF Found, HasConversation, Between, Conversation
<1>4. CASE S.conv # None /\ OpenConv(t, "send", S.conv) /\ UNCHANGED disabled
  BY <1>1, <1>4
<1>5. CASE Found(t) /\ OpenConv(t, "send", <<tasks[t].token, S.peer>>) /\ UNCHANGED disabled
  BY <1>3, <1>5
<1>6. CASE disabled' = FALSE /\ Ends(t) /\ UNCHANGED <<page, area>>
  BY <1>6 DEF page
<1> QED
  BY <1>4, <1>5, <1>6 DEF ListAnswered

LEMMA ListMoves ==
  ASSUME WebChatInv, NEW t \in Tasks, ListAnswered(t)
  PROVE  TaskMoves(t)
<1>1. UNCHANGED <<version, messages>>
  BY DEF ListAnswered, server
<1> QED
  BY <1>1, ListFacts, EndsMoves, OpenConvMoves

LEMMA NewConvMoves ==
  ASSUME WebChatInv, NEW t \in Tasks
  PROVE  /\ NewConversation(t) => TaskMoves(t) /\ tasks[t].peer \in Peers
         /\ OpenExisting(t)
              => /\ TaskMoves(t) /\ tasks'[t].kind = "open" /\ tasks'[t].at = "thread"
                 /\ \E c \in Accounts \X Peers :
                      Conversation(c, messages) /\ OpenConv(t, "open", c)
<1>1. ASSUME OpenExisting(t) \/ NewConversation(t) PROVE tasks[t].peer \in Peers
  BY <1>1, GoodNow DEF OpenExisting, NewConversation, Imported, Carries
<1>2. NewConversation(t) => TaskMoves(t)
  BY EndsMoves DEF NewConversation
<1>3. ASSUME OpenExisting(t)
      PROVE  \E c \in Accounts \X Peers : Conversation(c, messages) /\ OpenConv(t, "open", c)
  BY <1>1, <1>3, ListedFacts DEF OpenExisting
<1>4. OpenExisting(t) => UNCHANGED <<version, messages>>
  BY DEF OpenExisting, server
<1> QED
  BY <1>1, <1>2, <1>3, <1>4, OpenConvMoves

(* The steps of a login keep its account.                                  *)
LEMMA SignInMoves ==
  ASSUME WebChatInv, NEW t \in Tasks, SignIn(t)
  PROVE  TaskMoves(t)
<1> DEFINE k == tasks[t]
<1>1. UNCHANGED <<version, messages>>
  BY SignInKeeps DEF server
<1>2. ASSUME NEW at \in {"unlock", "private", "public", "register"},
             Becomes(t, [k EXCEPT !.at = at]), k.kind = "login"
      PROVE  TaskMoves(t)
  <2> DEFINE n == [k EXCEPT !.at = at]
  <2>1. Continues(n, k) /\ n.at = at /\ n.by = k.by
    BY GoodNow DEF TaskRecords, Stages, Continues
  <2>2. Becomes(t, n)
    BY <1>2
  <2> HIDE DEF n
  <2>3. GoodTask(n, version, messages)
    BY <1>2, <2>1, GoodNow DEF GoodTask, Fits, Carries, HasPublished, Renders, Continues
  <2> QED
    BY <1>1, <2>2, <2>3, BecomesMoves
<1>3. k.kind = "login"
  BY GoodNow DEF SignIn, LoginAnswered, Unlocked, PrivateKeyRead, PublicKeyRead, Generated,
       Registered, NameTaken, Fits
<1>4. \/ Ends(t)
      \/ \E at \in {"unlock", "private", "public", "register"} : Becomes(t, [k EXCEPT !.at = at])
  BY DEF SignIn, LoginAnswered, Unlocked, PrivateKeyRead, PublicKeyRead, Generated,
       Registered, NameTaken
<1> QED
  BY <1>2, <1>3, <1>4, EndsMoves

LEMMA ThreadMoves ==
  ASSUME WebChatInv, NEW t \in Tasks, ThreadAnswered(t)
  PROVE  TaskMoves(t) /\ (area'.at = "decrypting" => tasks'[t].kind = "render")
<1> DEFINE ids == ThreadOf(tasks[t].by, tasks[t].peer)
           n == [NoTask EXCEPT !.kind = "render", !.at = "build", !.todo = ids]
<1>1. CASE ids = {}
  <2>1. area' = Showing("none", {}) /\ Ends(t)
    BY <1>1 DEF ThreadAnswered
  <2> QED
    BY <2>1, EndsMoves DEF Showing
<1>2. CASE ids # {}
  <2>1. Becomes(t, n) /\ UNCHANGED <<version, messages>>
    BY <1>2 DEF ThreadAnswered, server
  <2>2. ids \subseteq DOMAIN messages /\ ids \in SUBSET Nat
    BY DomainFacts DEF ThreadOf, WebChatInv, ServerInv
  <2>3. NoTask \in TaskRecords /\ NoTask.bubbles = {}
    BY NoTaskIsGood DEF GoodTask, NoTask
  <2> HIDE DEF ids
  <2>4. /\ n \in TaskRecords /\ n.kind = "render" /\ n.at = "build" /\ n.todo = ids
        /\ n.bubbles = {}
    BY <2>2, <2>3 DEF TaskRecords, Kinds, Stages
  <2> HIDE DEF n
  <2>5. GoodTask(n, version, messages)
    BY <2>2, <2>4 DEF GoodTask, Fits, Carries, HasPublished, Renders, TrueBubbles
  <2> QED
    BY <2>1, <2>4, <2>5, BecomesMoves
<1> QED
  BY <1>1, <1>2

(* A failure ends a handler, or shows an error for the message it is at.   *)
LEMMA RaisesMoves ==
  ASSUME WebChatInv, NEW t \in Tasks, Raises(t),
         UNCHANGED <<version, messages>>,
         tasks[t].at \in Requests \cup {"import"}
  PROVE  TaskMoves(t) /\ (tasks[t].kind = "render" => tasks'[t].kind = "render")
<1> DEFINE k == tasks[t]
           n == [k EXCEPT !.at = "opened", !.text = None]
<1>1. CASE k.kind = "render"
  <2>1. Becomes(t, n)
    BY <1>1 DEF Raises
  <2>2. k.todo # {}
    BY <1>1, GoodNow DEF Requests, Fits, Renders
  <2>3. Continues(n, k) /\ n.at = "opened" /\ n.text = None
    BY GoodNow DEF TaskRecords, Stages, Continues
  <2>4. None \in TrueTexts(Oldest(k.todo), messages)
    BY DEF TrueTexts
  <2> HIDE DEF n
  <2>5. GoodTask(n, version, messages)
    BY <1>1, <2>2, <2>3, <2>4, GoodNow
     DEF GoodTask, Fits, Carries, HasPublished, Renders, Continues
  <2> QED
    BY <1>1, <2>1, <2>3, <2>5, BecomesMoves DEF Continues
<1>2. CASE k.kind # "render"
  BY <1>2, EndsMoves DEF Raises
<1> QED
  BY <1>1, <1>2

LEMMA TaskStepMoves ==
  ASSUME WebChatInv, NEW t \in Tasks, TaskStep(t)
  PROVE  TaskMoves(t)
<1>1. CASE \/ KeyUnusable(t) \/ SealFails(t) \/ RefuseForward(t) \/ ThreadRefused(t)
           \/ RemoveRefused(t) \/ RequestFails(t) \/ Unauthorized(t)
  <2>1. Raises(t) /\ UNCHANGED <<version, messages>>
    BY <1>1 DEF KeyUnusable, SealFails, RefuseForward, ThreadRefused, RemoveRefused,
                RequestFails, Unauthorized, server
  <2>2. tasks[t].at \in Requests \cup {"import"}
    BY <1>1 DEF KeyUnusable, SealFails, RefuseForward, ThreadRefused, RemoveRefused,
                RequestFails, Unauthorized, Arrived, Imported, Authorized, Requests
  <2> QED
    BY <2>1, <2>2, RaisesMoves
<1>2. CASE ForwardAnswered(t) \/ Rendered(t) \/ RemoveAnswered(t)
  BY <1>2, EndsMoves DEF ForwardAnswered, Rendered, RemoveAnswered
<1>3. CASE LookupKey(t) \/ KeyArrives(t) \/ Seal(t) \/ Post(t) \/ InsertMessage(t)
  BY <1>3, LookupMoves, SealMoves, InsertMoves
<1>4. CASE \/ SendAnswered(t) \/ ListAnswered(t) \/ OpenExisting(t) \/ NewConversation(t)
           \/ ThreadAnswered(t) \/ SignIn(t)
  BY <1>4, AnswerMoves, ListMoves, NewConvMoves, ThreadMoves, SignInMoves
<1>5. CASE \/ Decrypt(t) \/ BuildPinned(t) \/ BuildUnpinned(t) \/ BuildMine(t)
           \/ BuildTheirs(t) \/ Removed(t)
  BY <1>5, DecryptMoves, OpeningMoves, BuildMoves, AnswerMoves
<1> QED
  BY <1>1, <1>2, <1>3, <1>4, <1>5 DEF TaskStep

LEMMA OneMoves ==
  ASSUME WebChatInv, NEW t \in Tasks, TaskMoves(t), ServerGrows
  PROVE  TasksInv'
<1>1. tasks \in [Tasks -> TaskRecords] /\ tasks'[t] \in TaskRecords
  BY GoodNow DEF TaskMoves, GoodTask
<1>2. tasks' \in [Tasks -> TaskRecords]
  BY <1>1 DEF TaskMoves
<1>3. \A u \in Tasks : u # t => tasks'[u] = tasks[u]
  BY <1>1 DEF TaskMoves
<1>4. ASSUME NEW u \in Tasks PROVE GoodTask(tasks'[u], version', messages')
  <2>1. CASE u = t
    BY <2>1 DEF TaskMoves
  <2>2. CASE u # t
    BY <1>3, <2>2, GoodNow, TasksGrow DEF ServerGrows
  <2> QED
    BY <2>1, <2>2
<1> QED
  BY <1>2, <1>4 DEF TasksInv

LEMMA NoneMoves ==
  ASSUME WebChatInv, UNCHANGED tasks, ServerGrows
  PROVE  TasksInv'
<1>1. \A u \in Tasks : GoodTask(tasks[u], version', messages')
  BY GoodNow, TasksGrow DEF ServerGrows
<1> QED
  BY <1>1 DEF TasksInv, WebChatInv

LEMMA TasksStep ==
  ASSUME WebChatInv, [Next]_webChatVars
  PROVE  TasksInv'
<1>1. ServerGrows
  BY ServerStep
<1>2. ASSUME NEW t \in Tasks, TaskStep(t) PROVE TasksInv'
  BY <1>1, <1>2, TaskStepMoves, OneMoves
<1>3. CASE User
  <2>1. CASE UNCHANGED tasks
    BY <1>1, <2>1, NoneMoves
  <2>2. CASE ~UNCHANGED tasks
    <3>1. PICK t \in Tasks :
            \/ PressSend(t)
            \/ \E p \in Peers : ClickConversation(t, p) \/ StartNewConv(t, p) \/ PressForward(t, p)
            \/ \E b \in area.bubbles, kind \in {"delete", "revoke"} : Remove(t, kind, b)
            \/ \E u \in Accounts : PressLogin(t, u) \/ PressRegister(t, u)
      BY <1>3, <2>2 DEF User, Logout, Type, OpenForwardModal, CloseForwardModal
    <3> QED
      BY <1>1, <3>1, UserMoves, OneMoves
  <2> QED
    BY <2>1, <2>2
<1>4. CASE UNCHANGED tasks
  BY <1>1, <1>4, NoneMoves
<1> QED
  BY <1>2, <1>3, <1>4 DEF Next, webChatVars, Rotate, PeerSends

-----------------------------------------------------------------------------
(* The room that a send or a forward reserves when it starts is there when *)
(* its message is stored.                                                  *)
Posting(k) ==
  k.kind \in {"send", "forward"} /\ k.at \in {"key", "pin", "import", "sealed", "post"}

(* From one await of a handler to the next.                                *)
Stretches ==
  {<<"key", "pin">>, <<"pin", "import">>, <<"import", "sealed">>, <<"sealed", "post">>,
   <<"post", "stored">>, <<"stored", "list">>, <<"remove", "removed">>,
   <<"build", "key">>, <<"build", "import">>, <<"build", "opened">>, <<"import", "opened">>,
   <<"enter", "unlock">>, <<"unlock", "private">>, <<"private", "public">>,
   <<"generate", "register">>}

(* Within one handler: it keeps its kind, goes on to the next await with   *)
(* what it has to render, or has rendered one message of that.             *)
GoesTo(k, n) == n.kind = k.kind /\ n.todo = k.todo /\ <<k.at, n.at>> \in Stretches
OneRendered(t)  ==
  /\ tasks'[t].kind = tasks[t].kind /\ tasks'[t].at = "build"
  /\ tasks'[t].todo = tasks[t].todo \ {Current(t)}

Within(t) ==
  \/ LookupKey(t) \/ KeyArrives(t) \/ Seal(t) \/ Post(t) \/ InsertMessage(t)
  \/ SendAnswered(t) \/ Removed(t) \/ BuildPinned(t) \/ BuildUnpinned(t) \/ Decrypt(t)

LEMMA WithinHandler ==
  ASSUME WebChatInv, NEW t \in Tasks
  PROVE  /\ Within(t) => GoesTo(tasks[t], tasks'[t])
         /\ BuildMine(t) \/ BuildTheirs(t) => OneRendered(t)
         /\ SignIn(t) => /\ tasks[t].kind = "login"
                         /\ Ends(t) \/ GoesTo(tasks[t], tasks'[t])
<1> DEFINE k == tasks[t]
<1>1. k \in TaskRecords /\ tasks \in [Tasks -> TaskRecords]
  BY GoodNow
<1>2. ASSUME NEW n, Becomes(t, n) PROVE tasks'[t] = n
  BY <1>1, <1>2 DEF Becomes
<1>3. ASSUME LookupKey(t) PROVE GoesTo(k, tasks'[t])
  <2>1. tasks'[t] = [k EXCEPT !.at = "pin", !.version = version[k.peer]] /\ k.at = "key"
    BY <1>2, <1>3 DEF LookupKey
  <2> QED
    BY <1>1, <2>1 DEF TaskRecords, GoesTo, Stretches
<1>4. ASSUME NEW at, Becomes(t, [k EXCEPT !.at = at]), <<k.at, at>> \in Stretches
      PROVE  GoesTo(k, tasks'[t])
  <2>1. tasks'[t] = [k EXCEPT !.at = at]
    BY <1>2, <1>4
  <2> QED
    BY <1>1, <1>4, <2>1 DEF TaskRecords, GoesTo
<1>5. ASSUME Seal(t) PROVE GoesTo(k, tasks'[t])
  <2>1. tasks'[t] = [k EXCEPT !.at = "sealed", !.by = KeyPair, !.uid = S.user] /\ k.at = "import"
    BY <1>2, <1>5 DEF Seal, Imported
  <2> QED
    BY <1>1, <2>1 DEF TaskRecords, GoesTo, Stretches
<1>6. ASSUME Post(t) PROVE GoesTo(k, tasks'[t])
  <2> DEFINE m == IF k.kind = "forward" THEN S.forward ELSE 0
  <2>1. tasks'[t] = [k EXCEPT !.at = "post", !.token = S.user, !.msg = m] /\ k.at = "sealed"
    BY <1>2, <1>6 DEF Post
  <2> HIDE DEF m
  <2> QED
    BY <1>1, <2>1 DEF TaskRecords, GoesTo, Stretches
<1>7. ASSUME InsertMessage(t) PROVE GoesTo(k, tasks'[t])
  <2> DEFINE m == Len(messages) + 1
  <2>1. tasks'[t] = [k EXCEPT !.at = "stored", !.msg = m] /\ k.at = "post"
    BY <1>2, <1>7 DEF InsertMessage
  <2> HIDE DEF m
  <2> QED
    BY <1>1, <2>1 DEF TaskRecords, GoesTo, Stretches
<1>8. ASSUME SendAnswered(t) PROVE GoesTo(k, tasks'[t])
  <2>1. tasks'[t] = [k EXCEPT !.at = "list", !.token = S.user] /\ k.at = "stored"
    BY <1>2, <1>8 DEF SendAnswered
  <2> QED
    BY <1>1, <2>1 DEF TaskRecords, GoesTo, Stretches
<1>9. KeyArrives(t) \/ Removed(t) => GoesTo(k, tasks'[t])
  BY <1>4 DEF KeyArrives, Arrived, Removed, Stretches
<1>10. ASSUME BuildUnpinned(t) PROVE GoesTo(k, tasks'[t])
  <2>1. /\ tasks'[t] = [k EXCEPT !.at = "key", !.peer = Sender(t), !.token = S.user]
        /\ k.at = "build"
    BY <1>2, <1>10 DEF BuildUnpinned, Building
  <2> QED
    BY <1>1, <2>1 DEF TaskRecords, GoesTo, Stretches
<1>11. ASSUME NEW text, Becomes(t, [k EXCEPT !.at = "opened", !.text = text]),
              k.at \in {"build", "import"}
       PROVE  GoesTo(k, tasks'[t])
  <2>1. tasks'[t] = [k EXCEPT !.at = "opened", !.text = text]
    BY <1>2, <1>11
  <2> QED
    BY <1>1, <1>11, <2>1 DEF TaskRecords, GoesTo, Stretches
<1>12. ASSUME NEW text, NEW mine, Becomes(t, Built(t, text, mine))
       PROVE  OneRendered(t)
  <2> DEFINE rest == k.todo \ {Current(t)}
             more == k.bubbles \cup {Bubble(Current(t), text, mine)}
  <2>1. tasks'[t] = [k EXCEPT !.at = "build", !.todo = rest, !.text = None, !.bubbles = more]
    BY <1>2, <1>12 DEF Built
  <2> HIDE DEF rest, more
  <2>2. tasks'[t].kind = k.kind /\ tasks'[t].at = "build" /\ tasks'[t].todo = rest
    BY <1>1, <2>1 DEF TaskRecords
  <2> QED
    BY <2>2 DEF OneRendered, rest
<1>13. ASSUME BuildPinned(t) PROVE GoesTo(k, tasks'[t])
  <2>1. CASE S.suite
    <3> DEFINE n == [k EXCEPT !.at = "import", !.peer = Sender(t), !.version = eb_tofu[Sender(t)]]
    <3>1. tasks'[t] = n /\ k.at = "build"
      BY <1>2, <1>13, <2>1 DEF BuildPinned, Building
    <3> QED
      BY <1>1, <3>1 DEF TaskRecords, GoesTo, Stretches
  <2> QED
    BY <1>11, <1>13, <2>1 DEF BuildPinned, Building
<1>15. Decrypt(t) => GoesTo(k, tasks'[t])
  BY <1>11 DEF Decrypt, Imported
<1>16. SignIn(t) => k.kind = "login"
  BY GoodNow DEF SignIn, LoginAnswered, Unlocked, PrivateKeyRead, PublicKeyRead, Generated,
       Registered, NameTaken, Fits
<1>17. SignIn(t) => Ends(t) \/ GoesTo(k, tasks'[t])
  BY <1>4 DEF SignIn, LoginAnswered, Unlocked, PrivateKeyRead, PublicKeyRead, Generated,
       Registered, NameTaken, Stretches
<1>14. BuildMine(t) \/ BuildTheirs(t) => OneRendered(t)
  BY <1>12 DEF BuildMine, BuildTheirs
<1> QED
  BY <1>3, <1>5, <1>6, <1>7, <1>8, <1>9, <1>10, <1>13, <1>14, <1>15, <1>16, <1>17 DEF Within

(* So its kind stays.                                                      *)
LEMMA KindKept ==
  ASSUME WebChatInv, NEW t \in Tasks, Within(t) \/ BuildMine(t) \/ BuildTheirs(t)
  PROVE  tasks'[t].kind = tasks[t].kind
BY WithinHandler DEF GoesTo, OneRendered

LEMMA PostingIsOlder ==
  ASSUME WebChatInv, NEW t \in Tasks, TaskStep(t), Posting(tasks'[t])
  PROVE  Posting(tasks[t]) /\ ~InsertMessage(t)
<1> DEFINE k == tasks[t]
<1>1. k \in TaskRecords /\ tasks \in [Tasks -> TaskRecords]
  BY GoodNow
<1>2. ASSUME NEW n, Becomes(t, n) PROVE tasks'[t] = n
  BY <1>1, <1>2 DEF Becomes
<1>3. ~Posting(NoTask)
  BY DEF Posting, NoTask
<1>4. ~Ends(t) /\ ~Raises(t)
  <2>1. ~Ends(t)
    BY <1>2, <1>3 DEF Ends
  <2>2. ~Raises(t)
    <3>1. ~Posting([k EXCEPT !.at = "opened", !.text = None])
      BY <1>1 DEF Posting, TaskRecords
    <3> QED
      BY <1>2, <2>1, <3>1 DEF Raises
  <2> QED
    BY <2>1, <2>2
<1>5. ASSUME NEW kind, NEW c PROVE ~OpenConv(t, kind, c)
  <2>1. ~Posting([Starts(t, kind, "thread", c[2]) EXCEPT !.by = c[1]])
    BY DEF Starts, NoTask, Posting
  <2> QED
    BY <1>2, <2>1 DEF OpenConv
<1>6. ~InsertMessage(t) /\ ~SendAnswered(t) /\ ~Removed(t)
  <2>1. /\ ~Posting([k EXCEPT !.at = "stored", !.msg = Len(messages) + 1])
        /\ ~Posting([k EXCEPT !.at = "list", !.token = S.user])
        /\ ~Posting([k EXCEPT !.at = "removed"])
    BY <1>1 DEF Posting, TaskRecords
  <2> QED
    BY <1>2, <2>1 DEF InsertMessage, SendAnswered, Removed
<1>7. ~Decrypt(t) /\ ~BuildPinned(t)
  <2>1. Decrypt(t) \/ BuildPinned(t) => k.kind = "render" /\ GoesTo(k, tasks'[t])
    BY WithinHandler, BuildingRenders DEF Decrypt, BuildPinned, Within
  <2> QED
    BY <2>1 DEF Posting, GoesTo
<1>8. ~BuildMine(t) /\ ~BuildTheirs(t)
  <2>1. \A text, mine : ~Posting(Built(t, text, mine))
    BY <1>1 DEF Posting, TaskRecords, Built
  <2> QED
    BY <1>2, <2>1 DEF BuildMine, BuildTheirs
<1>9. ~BuildUnpinned(t)
  <2>1. Building(t) => k.kind = "render"
    BY BuildingRenders
  <2>2. k.kind = "render"
          => ~Posting([k EXCEPT !.at = "key", !.peer = Sender(t), !.token = S.user])
    BY <1>1 DEF Posting, TaskRecords
  <2> QED
    BY <1>2, <2>1, <2>2 DEF BuildUnpinned
<1>10. ~ThreadAnswered(t)
  <2>1. \A ids : ~Posting([NoTask EXCEPT !.kind = "render", !.at = "build", !.todo = ids])
    BY DEF Posting, NoTask
  <2> QED
    BY <1>2, <1>4, <2>1 DEF ThreadAnswered
<1>11. ~SignIn(t)
  <2>1. SignIn(t) => k.kind = "login" /\ GoesTo(k, tasks'[t])
    BY <1>4, WithinHandler
  <2> QED
    BY <2>1 DEF Posting, GoesTo
<1>12. LookupKey(t) \/ KeyArrives(t) \/ Seal(t) \/ Post(t)
  BY <1>4, <1>5, <1>6, <1>7, <1>8, <1>9, <1>10, <1>11
     DEF TaskStep, KeyUnusable, SealFails, RefuseForward, ThreadRefused, RemoveRefused,
         RequestFails, Unauthorized, ForwardAnswered, Rendered, RemoveAnswered,
         ListAnswered, OpenExisting, NewConversation
<1>14. k.at \in {"key", "pin", "import", "sealed"}
  BY <1>12 DEF LookupKey, KeyArrives, Arrived, Seal, Imported, Post
<1>13. tasks'[t].kind = k.kind
  BY <1>12, KindKept DEF Within
<1> QED
  BY <1>6, <1>13, <1>14 DEF Posting

LEMMA RoomKept ==
  ASSUME WebChatInv, Outgoing' \subseteq Outgoing, UNCHANGED messages
  PROVE  RoomInv'
<1>1. IsFiniteSet(Outgoing) /\ Len(messages) + Cardinality(Outgoing) <= MaxMessages
  BY DEF WebChatInv, RoomInv
<1>2. IsFiniteSet(Outgoing') /\ Cardinality(Outgoing') <= Cardinality(Outgoing)
  BY <1>1, FS_Subset
<1>3. Cardinality(Outgoing') \in Nat /\ Cardinality(Outgoing) \in Nat /\ Len(messages) \in Nat
  BY <1>1, <1>2, FS_CardinalityType DEF WebChatInv, ServerInv
<1> QED
  BY <1>1, <1>2, <1>3, BoundFacts DEF RoomInv

LEMMA RoomTaken ==
  ASSUME WebChatInv, Room, NEW t \in Tasks, Outgoing' \subseteq Outgoing \cup {t},
         UNCHANGED messages
  PROVE  RoomInv'
<1>1. IsFiniteSet(Outgoing) /\ Len(messages) + Cardinality(Outgoing) < MaxMessages
  BY DEF WebChatInv, RoomInv, Room
<1>2. /\ IsFiniteSet(Outgoing \cup {t})
      /\ Cardinality(Outgoing \cup {t}) <= Cardinality(Outgoing) + 1
  <2> DEFINE s == Outgoing
  <2>1. IsFiniteSet(s)
    BY <1>1
  <2> HIDE DEF s
  <2>2. /\ IsFiniteSet(s \cup {t}) /\ Cardinality(s) \in Nat
        /\ Cardinality(s \cup {t}) = IF t \in s THEN Cardinality(s) ELSE Cardinality(s) + 1
    BY <2>1, FS_AddElement, FS_CardinalityType
  <2>3. Cardinality(s \cup {t}) <= Cardinality(s) + 1
    BY <2>2
  <2> QED
    BY <2>2, <2>3 DEF s
<1>3. /\ IsFiniteSet(Outgoing')
      /\ Cardinality(Outgoing') <= Cardinality(Outgoing \cup {t})
  BY <1>2, FS_Subset
<1>4. /\ Cardinality(Outgoing') \in Nat /\ Cardinality(Outgoing) \in Nat
      /\ Cardinality(Outgoing \cup {t}) \in Nat /\ Len(messages) \in Nat
  BY <1>1, <1>2, <1>3, FS_CardinalityType DEF WebChatInv, ServerInv
<1> QED
  BY <1>1, <1>2, <1>3, <1>4, BoundFacts DEF RoomInv

LEMMA RoomUsed ==
  ASSUME WebChatInv, Len(messages') = Len(messages) + 1,
         \/ Room /\ Outgoing' \subseteq Outgoing
         \/ \E t \in Outgoing : Outgoing' \subseteq Outgoing \ {t}
  PROVE  RoomInv'
<1>1. /\ IsFiniteSet(Outgoing) /\ Len(messages) + Cardinality(Outgoing) <= MaxMessages
      /\ Cardinality(Outgoing) \in Nat /\ Len(messages) \in Nat
  BY FS_CardinalityType DEF WebChatInv, ServerInv, RoomInv
<1>2. CASE Room /\ Outgoing' \subseteq Outgoing
  <2>1. IsFiniteSet(Outgoing') /\ Cardinality(Outgoing') <= Cardinality(Outgoing)
    BY <1>1, <1>2, FS_Subset
  <2>2. Cardinality(Outgoing') \in Nat
    BY <2>1, FS_CardinalityType
  <2>3. Len(messages) + Cardinality(Outgoing) < MaxMessages
    BY <1>2 DEF Room
  <2> QED
    BY <1>1, <2>1, <2>2, <2>3, BoundFacts DEF RoomInv
<1>3. CASE \E t \in Outgoing : Outgoing' \subseteq Outgoing \ {t}
  <2>1. PICK t \in Outgoing : Outgoing' \subseteq Outgoing \ {t}
    BY <1>3
  <2>2. /\ IsFiniteSet(Outgoing \ {t})
        /\ Cardinality(Outgoing \ {t}) = Cardinality(Outgoing) - 1
    BY <1>1, FS_RemoveElement
  <2>3. /\ IsFiniteSet(Outgoing')
        /\ Cardinality(Outgoing') <= Cardinality(Outgoing \ {t})
    BY <2>1, <2>2, FS_Subset
  <2>4. Cardinality(Outgoing') \in Nat /\ Cardinality(Outgoing \ {t}) \in Nat
    BY <2>2, <2>3, FS_CardinalityType
  <2> QED
    BY <1>1, <2>2, <2>3, <2>4, BoundFacts DEF RoomInv
<1> QED
  BY <1>2, <1>3

LEMMA OutgoingStep ==
  ASSUME WebChatInv, NEW t \in Tasks, TaskMoves(t)
  PROVE  /\ Outgoing' \subseteq Outgoing \cup {t}
         /\ ~Posting(tasks'[t]) => Outgoing' \subseteq Outgoing \ {t}
         /\ Posting(tasks[t]) => t \in Outgoing /\ Outgoing' \subseteq Outgoing
<1>1. Outgoing = { u \in Tasks : Posting(tasks[u]) }
  BY DEF Outgoing, Posting
<1>2. Outgoing' = { u \in Tasks : Posting(tasks'[u]) }
  BY DEF Outgoing, Posting
<1>3. \A u \in Tasks : u # t => tasks'[u] = tasks[u]
  BY GoodNow DEF TaskMoves
<1> QED
  BY <1>1, <1>2, <1>3

LEMMA RoomStep ==
  ASSUME WebChatInv, [Next]_webChatVars
  PROVE  RoomInv'
<1>1. CASE UNCHANGED <<messages, tasks>>
  BY <1>1, RoomKept DEF Outgoing
<1>2. ASSUME NEW p \in Peers, NEW u \in Accounts, NEW text \in Texts, PeerSends(p, u, text)
      PROVE  RoomInv'
  <2>1. Len(messages') = Len(messages) + 1
    BY <1>2, SentIsRow, InsertGrows DEF PeerSends
  <2>2. Room /\ Outgoing' = Outgoing
    BY <1>2 DEF PeerSends, Outgoing
  <2> QED
    BY <2>1, <2>2, RoomUsed
<1>3. ASSUME NEW t \in Tasks, PressSend(t) \/ (\E p \in Peers : PressForward(t, p))
      PROVE  RoomInv'
  <2>1. Room /\ UNCHANGED messages
    BY <1>3 DEF PressSend, PressForward, server
  <2> QED
    BY <1>3, <2>1, UserMoves, OutgoingStep, RoomTaken
<1>4. ASSUME NEW t \in Tasks,
             \/ \E p \in Peers : ClickConversation(t, p) \/ StartNewConv(t, p)
             \/ \E b \in area.bubbles, kind \in {"delete", "revoke"} : Remove(t, kind, b)
             \/ \E u \in Accounts : PressLogin(t, u) \/ PressRegister(t, u)
      PROVE  RoomInv'
  <2>1. TaskMoves(t) /\ UNCHANGED messages
    BY <1>4, UserMoves DEF ClickConversation, StartNewConv, Remove, PressLogin, PressRegister,
                           server
  <2>2. ~Posting(tasks'[t])
    <3>1. \A n : Becomes(t, n) => tasks'[t] = n
      BY GoodNow DEF Becomes
    <3>2. \A p : ~Posting(Starts(t, "lookup", "key", p))
      BY DEF Posting, Starts, NoTask
    <3>3. \A kind, m : ~Posting([Starts(t, kind, "remove", None) EXCEPT !.msg = m])
      BY DEF Posting, Starts, NoTask
    <3>4. ASSUME NEW p \in Peers, ClickConversation(t, p) \/ StartNewConv(t, p)
          PROVE  ~Posting(tasks'[t])
      <4>1. ClickConversation(t, p) => tasks'[t].at = "thread"
        BY UserMoves
      <4>2. StartNewConv(t, p) => ~Posting(tasks'[t])
        BY <3>1, <3>2 DEF StartNewConv
      <4> QED
        BY <3>4, <4>1, <4>2 DEF Posting
    <3>5. ASSUME NEW b \in area.bubbles, NEW kind \in {"delete", "revoke"}, Remove(t, kind, b)
          PROVE  ~Posting(tasks'[t])
      BY <3>1, <3>3, <3>5 DEF Remove
    <3>6. ASSUME NEW u \in Accounts, PressLogin(t, u) \/ PressRegister(t, u)
          PROVE  ~Posting(tasks'[t])
      BY <3>6, UserMoves DEF Posting
    <3> QED
      BY <1>4, <3>4, <3>5, <3>6
  <2> QED
    BY <2>1, <2>2, OutgoingStep, RoomKept
<1>5. ASSUME NEW t \in Tasks, TaskStep(t) PROVE RoomInv'
  <2>1. TaskMoves(t)
    BY <1>5, TaskStepMoves
  <2>2. CASE InsertMessage(t)
    <3>1. Posting(tasks[t])
      BY <2>2, GoodNow DEF InsertMessage, Posting, Fits
    <3>2. ~Posting(tasks'[t])
      BY <1>5, <2>2, PostingIsOlder
    <3>3. Len(messages') = Len(messages) + 1
      BY <2>2, PostedIsRow, InsertGrows DEF InsertMessage
    <3> QED
      BY <2>1, <3>1, <3>2, <3>3, OutgoingStep, RoomUsed
  <2>3. CASE ~InsertMessage(t)
    <3>1. UNCHANGED messages
      BY <1>5, <2>3, ServerQuiet
    <3>2. Posting(tasks'[t]) => Posting(tasks[t])
      BY <1>5, PostingIsOlder
    <3> QED
      BY <2>1, <3>1, <3>2, OutgoingStep, RoomKept
  <2> QED
    BY <2>2, <2>3
<1>6. CASE User
  <2>1. \/ UNCHANGED <<messages, tasks>>
        \/ \E t \in Tasks :
             \/ PressSend(t)
             \/ \E p \in Peers : ClickConversation(t, p) \/ StartNewConv(t, p) \/ PressForward(t, p)
             \/ \E b \in area.bubbles, kind \in {"delete", "revoke"} : Remove(t, kind, b)
             \/ \E u \in Accounts : PressLogin(t, u) \/ PressRegister(t, u)
    BY <1>6 DEF User, Logout, Type, OpenForwardModal, CloseForwardModal, server
  <2> QED
    BY <1>1, <1>3, <1>4, <2>1
<1> QED
  BY <1>1, <1>2, <1>5, <1>6 DEF Next, webChatVars, server, Rotate

-----------------------------------------------------------------------------
(* What the browser stores: a pin is a version that was published, a text  *)
(* is that of its message.                                                 *)
LEMMA HoldsWrite ==
  ASSUME WebChatInv, NEW f, Holds(f, messages), NEW m \in DOMAIN messages,
         NEW text \in TrueTexts(m, messages)
  PROVE  Holds([f EXCEPT ![m] = text], messages)
<1>1. m \in Ids /\ text \in Texts \cup {None}
  BY StoredAreIds, DomainFacts DEF WebChatInv, ServerInv, TrueTexts
<1> QED
  BY <1>1 DEF Holds

LEMMA PinIsPublished ==
  ASSUME WebChatInv, NEW t \in Tasks,
         (Arrived(t) /\ PinKey(t)) \/ (tasks[t].by \in Accounts /\ PinOwn(t))
  PROVE  eb_tofu' \in [Users -> 0 .. MaxVersion]
<1>1. eb_tofu \in [Users -> 0 .. MaxVersion] /\ 1 \in 0 .. MaxVersion
  BY BoundFacts DEF WebChatInv, StorageInv
<1>2. CASE Arrived(t) /\ PinKey(t)
  <2>1. /\ tasks[t].peer \in Users
        /\ tasks[t].version \in 1 .. version[tasks[t].peer]
    BY <1>2, GoodNow DEF Arrived, Carries, HasPublished
  <2>2. version[tasks[t].peer] \in 1 .. MaxVersion
    BY <2>1 DEF WebChatInv, ServerInv
  <2>3. tasks[t].version \in 0 .. MaxVersion
    BY <2>1, <2>2, BoundFacts
  <2> QED
    BY <1>1, <1>2, <2>1, <2>3 DEF PinKey
<1>3. CASE tasks[t].by \in Accounts /\ PinOwn(t)
  BY <1>1, <1>3, UserFacts DEF PinOwn
<1> QED
  BY <1>2, <1>3

LEMMA PinsStep ==
  ASSUME WebChatInv, [Next]_webChatVars
  PROVE  eb_tofu' \in [Users -> 0 .. MaxVersion]
<1>1. CASE UNCHANGED eb_tofu
  BY <1>1 DEF WebChatInv, StorageInv
<1>2. ASSUME NEW t \in Tasks, KeyUnusable(t) \/ KeyArrives(t)
      PROVE  eb_tofu' \in [Users -> 0 .. MaxVersion]
  BY <1>2, PinIsPublished DEF KeyUnusable, KeyArrives
<1>3. ASSUME NEW t \in Tasks, SignIn(t)
      PROVE  eb_tofu' \in [Users -> 0 .. MaxVersion]
  <2>1. tasks[t].by \in Accounts
    BY <1>3, WithinHandler, GoodNow DEF Carries
  <2>2. PinOwn(t) \/ UNCHANGED eb_tofu
    BY <1>3 DEF SignIn, LoginAnswered, Unlocked, PrivateKeyRead, PublicKeyRead, Generated,
         Registered, NameTaken, storage
  <2> QED
    BY <1>1, <2>1, <2>2, PinIsPublished
<1>4. ASSUME NEW t \in Tasks, TaskStep(t), ~KeyUnusable(t), ~KeyArrives(t), ~SignIn(t)
      PROVE  UNCHANGED eb_tofu
  BY <1>4 DEF TaskStep, storage, LookupKey, OpenExisting, NewConversation,
       Seal, SealFails, Post, InsertMessage, RefuseForward, SendAnswered, ForwardAnswered,
       ListAnswered, ThreadAnswered, ThreadRefused, BuildMine, BuildPinned,
       BuildUnpinned, Decrypt, BuildTheirs, Rendered, Removed, RemoveRefused, RemoveAnswered,
       RequestFails, Unauthorized
<1>5. User => UNCHANGED eb_tofu
  BY DEF User, Logout, Type, OpenForwardModal, CloseForwardModal, PressSend,
       ClickConversation, StartNewConv, PressForward, Remove,
       PressLogin, PressRegister, storage
<1> QED
  BY <1>1, <1>2, <1>3, <1>4, <1>5 DEF Next, webChatVars, storage, Rotate, PeerSends

LEMMA SentStep ==
  ASSUME WebChatInv, [Next]_webChatVars
  PROVE  Holds(eb_sent', messages)
<1>1. Holds(eb_sent, messages)
  BY DEF WebChatInv, StorageInv
<1>2. ASSUME NEW t \in Tasks, SendAnswered(t) PROVE Holds(eb_sent', messages)
  <2>1. tasks[t].at = "stored"
    BY <1>2 DEF SendAnswered
  <2>2. tasks[t].msg \in DOMAIN messages /\ tasks[t].text = messages[tasks[t].msg].text
    BY <2>1, GoodNow DEF Carries
  <2>3. tasks[t].text \in TrueTexts(tasks[t].msg, messages)
    BY <2>2 DEF TrueTexts
  <2>4. eb_sent' = [eb_sent EXCEPT ![tasks[t].msg] = tasks[t].text]
    BY <1>2 DEF SendAnswered, CacheSentMsg
  <2> QED
    BY <1>1, <2>2, <2>3, <2>4, HoldsWrite
<1>3. ASSUME NEW t \in Tasks, TaskStep(t), ~SendAnswered(t)
      PROVE  UNCHANGED eb_sent
  BY <1>3, SignInKeeps DEF TaskStep, storage, LookupKey, KeyUnusable, KeyArrives, OpenExisting,
       NewConversation, Seal, SealFails, Post, InsertMessage, RefuseForward, ForwardAnswered,
       ListAnswered, ThreadAnswered, ThreadRefused, BuildMine, BuildPinned,
       BuildUnpinned, Decrypt, BuildTheirs, Rendered, Removed, RemoveRefused, RemoveAnswered,
       RequestFails, Unauthorized
<1>4. User => UNCHANGED eb_sent
  BY DEF User, Logout, Type, OpenForwardModal, CloseForwardModal, PressSend,
       ClickConversation, StartNewConv, PressForward, Remove,
       PressLogin, PressRegister, storage
<1> QED
  BY <1>1, <1>2, <1>3, <1>4 DEF Next, webChatVars, storage, Rotate, PeerSends

LEMMA CacheStep ==
  ASSUME WebChatInv, [Next]_webChatVars
  PROVE  Holds(plaintextCache', messages)
<1>1. Holds(plaintextCache, messages)
  BY DEF WebChatInv, StorageInv
<1>2. ASSUME Forget PROVE Holds(plaintextCache', messages)
  BY <1>2 DEF Forget, Holds, TrueTexts
<1>3. ASSUME NEW m \in DOMAIN messages, NEW text \in TrueTexts(m, messages), Remember(m, text)
      PROVE  Holds(plaintextCache', messages)
  BY <1>1, <1>3, HoldsWrite DEF Remember
<1>4. ASSUME NEW t \in Tasks, BuildMine(t) PROVE Holds(plaintextCache', messages)
  <2>1. tasks[t].todo # {}
    BY <1>4 DEF BuildMine, Building
  <2>2. /\ Current(t) \in DOMAIN messages
        /\ eb_sent[Current(t)] \in TrueTexts(Current(t), messages)
    BY <2>1, CurrentFacts DEF WebChatInv, StorageInv, Holds
  <2> QED
    BY <1>3, <1>4, <2>2 DEF BuildMine
<1>5. ASSUME NEW t \in Tasks, BuildTheirs(t) PROVE Holds(plaintextCache', messages)
  <2>1. tasks[t].at = "opened"
    BY <1>5 DEF BuildTheirs
  <2>2. tasks[t].todo # {} /\ tasks[t].text \in TrueTexts(Current(t), messages)
    BY <2>1, GoodNow DEF Fits, Renders, Current
  <2>3. Current(t) \in DOMAIN messages
    BY <2>2, CurrentFacts
  <2> QED
    BY <1>3, <1>5, <2>2, <2>3 DEF BuildTheirs
<1>6. ASSUME NEW t \in Tasks, RemoveAnswered(t) PROVE Holds(plaintextCache', messages)
  <2>1. tasks[t].msg \in DOMAIN messages
    BY <1>6, GoodNow DEF RemoveAnswered, Carries
  <2>2. None \in TrueTexts(tasks[t].msg, messages)
    BY DEF TrueTexts
  <2> QED
    BY <1>1, <1>6, <2>1, <2>2, HoldsWrite DEF RemoveAnswered
<1>7. ASSUME NEW t \in Tasks, TaskStep(t),
             ~BuildMine(t), ~BuildTheirs(t), ~RemoveAnswered(t)
      PROVE  UNCHANGED plaintextCache \/ Forget
  BY <1>7, SignInKeeps DEF TaskStep, LookupKey, KeyUnusable, KeyArrives, OpenExisting,
       NewConversation, Seal, SealFails, Post, InsertMessage, RefuseForward, SendAnswered,
       ForwardAnswered, ListAnswered, ThreadAnswered, ThreadRefused, BuildPinned,
       BuildUnpinned, Decrypt, Rendered, Removed, RemoveRefused, RequestFails, Unauthorized
<1>8. User => UNCHANGED plaintextCache \/ Forget
  BY DEF User, Logout, Type, OpenForwardModal, CloseForwardModal, PressSend,
       ClickConversation, StartNewConv, PressForward, Remove,
       PressLogin, PressRegister
<1> QED
  BY <1>1, <1>2, <1>4, <1>5, <1>6, <1>7, <1>8
     DEF Next, webChatVars, Rotate, PeerSends

LEMMA StorageStep ==
  ASSUME WebChatInv, [Next]_webChatVars
  PROVE  StorageInv'
<1>1. ServerGrows
  BY ServerStep
<1>2. Holds(eb_sent', messages') /\ Holds(plaintextCache', messages')
  BY <1>1, SentStep, CacheStep, TrueTextsGrow DEF ServerGrows
<1> QED
  BY <1>2, PinsStep DEF StorageInv

-----------------------------------------------------------------------------
(* The page: its user, conversation and forward, and what it shows.        *)
LEMMA SignInPages ==
  ASSUME WebChatInv, NEW t \in Tasks, SignIn(t)
  PROVE  /\ GoodPage(S', messages)
         /\ app' \in BOOLEAN /\ lists' \subseteq Accounts
<1> DEFINE u == tasks[t].by
<1>1. /\ GoodPage(S, messages) /\ S \in Pages
      /\ app \in BOOLEAN /\ lists \subseteq Accounts
  BY DEF WebChatInv, PageInv, GoodPage
<1>2. u \in Accounts
  BY WithinHandler, GoodNow DEF Carries
<1>3. \/ UNCHANGED S
      \/ S' = [S EXCEPT !.user = u]
      \/ S' = [S EXCEPT !.suite = TRUE]
      \/ S' = [S EXCEPT !.private = u]
      \/ S' = [S EXCEPT !.public = u]
      \/ S' = [S EXCEPT !.user = u, !.private = u, !.public = u]
  BY DEF SignIn, LoginAnswered, Unlocked, PrivateKeyRead, PublicKeyRead, Generated,
       Registered, NameTaken, page
<1>4. app' \in {app, TRUE} /\ lists' \in {lists, lists \cup {u}}
  BY DEF SignIn, LoginAnswered, Unlocked, PrivateKeyRead, PublicKeyRead, Generated,
       Registered, NameTaken, page, screen, Enters
<1> HIDE DEF u
<1>5. /\ S' \in Pages /\ S'.forward = S.forward
      /\ S'.conv = S.conv /\ S'.peer = S.peer
  BY <1>1, <1>2, <1>3 DEF Pages
<1>6. GoodPage(S', messages)
  BY <1>1, <1>5 DEF GoodPage
<1> QED
  BY <1>1, <1>2, <1>4, <1>6

LEMMA SessionStep ==
  ASSUME WebChatInv, [Next]_webChatVars
  PROVE  GoodPage(S', messages)
<1>1. GoodPage(S, messages) /\ S \in Pages
  BY DEF WebChatInv, PageInv, GoodPage
<1>2. ASSUME Forget PROVE GoodPage(S', messages)
  <2>1. S' = [S EXCEPT !.user = None, !.suite = FALSE, !.private = None, !.public = None,
                       !.conv = None, !.peer = None]
    BY <1>2 DEF Forget, LoggedOut
  <2>2. S' \in Pages /\ S'.conv = None /\ S'.forward = S.forward
    BY <1>1, <2>1 DEF Pages
  <2> QED
    BY <1>1, <2>2 DEF GoodPage
<1>3. ASSUME NEW p \in Peers, NEW c, S' = [S EXCEPT !.conv = c, !.peer = p],
             c = None \/ (Conversation(c, messages) /\ c[2] = p)
      PROVE  GoodPage(S', messages)
  <2>1. c \in (Accounts \X Peers) \cup {None}
    BY <1>3 DEF Conversation
  <2>2. S' \in Pages /\ S'.forward = S.forward /\ S'.conv = c /\ S'.peer = p
    BY <1>1, <1>3, <2>1 DEF Pages
  <2> QED
    BY <1>1, <1>3, <2>2 DEF GoodPage
<1>4. ASSUME NEW t, NEW kind, NEW c \in Accounts \X Peers, Conversation(c, messages),
             OpenConv(t, kind, c)
      PROVE  GoodPage(S', messages)
  <2>1. c[2] \in Peers
    OBVIOUS
  <2> QED
    BY <1>3, <1>4, <2>1 DEF OpenConv
<1>5. ASSUME NEW m \in {0} \cup DOMAIN messages, S' = [S EXCEPT !.forward = m]
      PROVE  GoodPage(S', messages)
  <2>1. m \in Nat
    BY DomainFacts DEF WebChatInv, ServerInv
  <2>2. S' \in Pages /\ S'.forward = m /\ S'.conv = S.conv /\ S'.peer = S.peer
    BY <1>1, <1>5, <2>1 DEF Pages
  <2> QED
    BY <1>1, <2>2 DEF GoodPage
<1>6. CASE User
  <2>1. CASE Logout
    BY <1>2, <2>1 DEF Logout
  <2>2. ASSUME NEW b \in area.bubbles, OpenForwardModal(b) PROVE GoodPage(S', messages)
    <3>1. b.id \in DOMAIN messages
      BY DEF WebChatInv, PageInv, GoodArea, TrueBubbles
    <3> QED
      BY <1>5, <2>2, <3>1 DEF OpenForwardModal
  <2>3. CASE CloseForwardModal
    BY <1>5, <2>3 DEF CloseForwardModal
  <2>4. ASSUME NEW t \in Tasks, NEW p \in Peers, ClickConversation(t, p)
        PROVE  GoodPage(S', messages)
    BY <1>4, <2>4, ListedFacts DEF ClickConversation
  <2>5. ASSUME NEW t \in Tasks, NEW u \in Accounts, PressRegister(t, u)
        PROVE  GoodPage(S', messages)
    <3>1. S' = [S EXCEPT !.suite = TRUE]
      BY <2>5 DEF PressRegister
    <3>2. /\ S' \in Pages /\ S'.forward = S.forward
          /\ S'.conv = S.conv /\ S'.peer = S.peer
      BY <1>1, <3>1 DEF Pages
    <3> QED
      BY <1>1, <3>2 DEF GoodPage
  <2>6. \/ \E t \in Tasks : \E p \in Peers : ClickConversation(t, p)
        \/ \E t \in Tasks : \E u \in Accounts : PressRegister(t, u)
        \/ \E b \in area.bubbles : OpenForwardModal(b)
        \/ Logout \/ CloseForwardModal \/ UNCHANGED S
    BY <1>6 DEF User, Type, PressSend, StartNewConv, PressForward, Remove, PressLogin, page
  <2> QED
    BY <1>1, <2>1, <2>2, <2>3, <2>4, <2>5, <2>6
<1>7. ASSUME NEW t \in Tasks, TaskStep(t) PROVE GoodPage(S', messages)
  <2>1. CASE ForwardAnswered(t)
    BY <1>5, <2>1 DEF ForwardAnswered
  <2>2. CASE OpenExisting(t)
    BY <1>4, <2>2, NewConvMoves
  <2>3. CASE NewConversation(t)
    <3>1. tasks[t].peer \in Peers
      BY <2>3, NewConvMoves
    <3> QED
      BY <1>3, <2>3, <3>1 DEF NewConversation
  <2>4. CASE ListAnswered(t)
    BY <1>1, <1>4, <2>4, ListFacts
  <2>5. CASE Unauthorized(t)
    BY <1>2, <2>5 DEF Unauthorized
  <2>6. CASE SignIn(t)
    BY <2>6, SignInPages
  <2>7. \/ ForwardAnswered(t) \/ OpenExisting(t) \/ NewConversation(t) \/ ListAnswered(t)
        \/ Unauthorized(t) \/ SignIn(t) \/ UNCHANGED S
    BY <1>7 DEF TaskStep, LookupKey, KeyUnusable, KeyArrives, Seal, page,
         SealFails, Post, InsertMessage, RefuseForward, SendAnswered, ThreadAnswered,
         ThreadRefused, BuildMine, BuildPinned, BuildUnpinned, Decrypt, BuildTheirs, Rendered,
         Removed, RemoveRefused, RemoveAnswered, RequestFails
  <2> QED
    BY <1>1, <2>1, <2>2, <2>3, <2>4, <2>5, <2>6, <2>7
<1> QED
  BY <1>1, <1>6, <1>7 DEF Next, webChatVars, page, Rotate, PeerSends

LEMMA ScreenStep ==
  ASSUME WebChatInv, [Next]_webChatVars
  PROVE  app' \in BOOLEAN /\ lists' \subseteq Accounts
<1>1. app \in BOOLEAN /\ lists \subseteq Accounts
  BY DEF WebChatInv, PageInv
<1>2. Forget => app' = FALSE /\ UNCHANGED lists
  BY DEF Forget
<1>3. ASSUME NEW t \in Tasks, TaskStep(t)
      PROVE  SignIn(t) \/ Forget \/ UNCHANGED screen
  <2>1. CASE ListAnswered(t)
    BY <2>1, ListFacts DEF OpenConv
  <2> QED
    BY <1>3, <2>1 DEF TaskStep, LookupKey, KeyUnusable, KeyArrives, OpenExisting, OpenConv,
         NewConversation, Seal, page, SealFails, Post, InsertMessage, RefuseForward,
         SendAnswered, ForwardAnswered, ThreadAnswered, ThreadRefused, BuildMine, BuildPinned,
         BuildUnpinned, Decrypt, BuildTheirs, Rendered, Removed, RemoveRefused,
         RemoveAnswered, RequestFails, Unauthorized
<1>4. User => Forget \/ UNCHANGED screen
  BY DEF User, Logout, Type, OpenForwardModal, CloseForwardModal, PressSend, page,
       ClickConversation, OpenConv, StartNewConv, PressForward, Remove, PressLogin,
       PressRegister
<1> QED
  BY <1>1, <1>2, <1>3, <1>4, SignInPages DEF Next, webChatVars, page, screen, Rotate, PeerSends

LEMMA ShowingIsGood ==
  ASSUME NEW at \in {"none", "start", "loading", "decrypting", "failed", "thread"},
         NEW bs \in SUBSET Bubbles, TrueBubbles(bs, messages)
  PROVE  GoodArea(Showing(at, bs), messages)
BY DEF GoodArea, Areas, Showing

LEMMA NothingShown ==
  \A at \in {"none", "start", "loading", "decrypting", "failed", "thread"} :
    GoodArea(Showing(at, {}), messages)
<1>1. TrueBubbles({}, messages)
  BY DEF TrueBubbles
<1> QED
  BY <1>1, ShowingIsGood

LEMMA AreaStep ==
  ASSUME WebChatInv, [Next]_webChatVars
  PROVE  GoodArea(area', messages)
<1>1. GoodArea(area, messages)
  BY DEF WebChatInv, PageInv
<1>2. CASE User
  <2>1. UNCHANGED area \/ area' = Showing("loading", {})
    BY <1>2 DEF User, Logout, Type, OpenForwardModal, CloseForwardModal, PressSend,
         ClickConversation, OpenConv, StartNewConv, PressForward, Remove,
       PressLogin, PressRegister
  <2> QED
    BY <1>1, <2>1, NothingShown
<1>3. ASSUME NEW t \in Tasks, TaskStep(t) PROVE GoodArea(area', messages)
  <2>1. CASE Rendered(t)
    <3>1. tasks[t].bubbles \in SUBSET Bubbles /\ TrueBubbles(tasks[t].bubbles, messages)
      BY GoodNow DEF Renders, TaskRecords
    <3> QED
      BY <2>1, <3>1, ShowingIsGood DEF Rendered
  <2>2. CASE RemoveAnswered(t)
    <3> DEFINE m == tasks[t].msg
               rest == { b \in area.bubbles : b.id # m }
    <3>1. area' = area \/ area' = [area EXCEPT !.bubbles = rest]
      BY <2>2 DEF RemoveAnswered
    <3>2. TrueBubbles(rest, messages) /\ rest \in SUBSET Bubbles
      BY <1>1 DEF GoodArea, Areas, TrueBubbles
    <3> HIDE DEF rest
    <3>3. GoodArea([area EXCEPT !.bubbles = rest], messages)
      BY <1>1, <3>2 DEF GoodArea, Areas
    <3> QED
      BY <1>1, <3>1, <3>3
  <2>3. CASE Raises(t)
    BY <1>1, <2>3, NothingShown DEF Raises
  <2>4. CASE ~Rendered(t) /\ ~RemoveAnswered(t) /\ ~Raises(t)
    <3>1. \/ UNCHANGED area \/ area' = Showing("loading", {})
          \/ area' = Showing("start", {}) \/ area' = Showing("none", {})
          \/ area' = Showing("decrypting", {})
      BY <1>3, <2>4, SignInKeeps DEF TaskStep, OpenConv, LookupKey, KeyUnusable, KeyArrives, OpenExisting,
       NewConversation, Seal, SealFails, Post, InsertMessage, RefuseForward,
           SendAnswered, ForwardAnswered, ListAnswered, ThreadAnswered, ThreadRefused,
           BuildMine, BuildPinned, BuildUnpinned, Decrypt, BuildTheirs, Removed, RemoveRefused,
           RequestFails, Unauthorized
    <3> QED
      BY <1>1, <3>1, NothingShown
  <2> QED
    BY <2>1, <2>2, <2>3, <2>4
<1> QED
  BY <1>1, <1>2, <1>3 DEF Next, webChatVars, Rotate, PeerSends

LEMMA ComposeStep ==
  ASSUME WebChatInv, [Next]_webChatVars
  PROVE  input' \in Texts \cup {None} /\ disabled' \in BOOLEAN
<1>1. input \in Texts \cup {None} /\ disabled \in BOOLEAN
  BY DEF WebChatInv, PageInv
<1>2. CASE User
  <2>1. ASSUME NEW text \in Texts, Type(text)
        PROVE  input' \in Texts \cup {None} /\ disabled' \in BOOLEAN
    BY <1>1, <2>1 DEF Type
  <2>2. CASE \A text \in Texts : ~Type(text)
    <3>1. input' = input /\ disabled' \in {disabled, TRUE}
      BY <1>2, <2>2 DEF User, compose, Logout, OpenForwardModal, CloseForwardModal,
           PressSend, ClickConversation, StartNewConv, PressForward, Remove,
       PressLogin, PressRegister
    <3> QED
      BY <1>1, <3>1
  <2> QED
    BY <2>1, <2>2
<1>3. ASSUME NEW t \in Tasks, TaskStep(t)
      PROVE  input' \in {input, None} /\ disabled' \in {disabled, FALSE}
  <2>1. Raises(t) => disabled' \in {disabled, FALSE}
    BY DEF Raises
  <2> QED
    BY <1>3, <2>1, SignInKeeps
       DEF TaskStep, compose, LookupKey, KeyUnusable, KeyArrives, OpenExisting,
       NewConversation, Seal, SealFails, Post, InsertMessage, RefuseForward,
           SendAnswered, ForwardAnswered, ListAnswered, ThreadAnswered, ThreadRefused,
           BuildMine, BuildPinned, BuildUnpinned, Decrypt, BuildTheirs, Rendered, Removed,
           RemoveRefused, RemoveAnswered, RequestFails, Unauthorized
<1> QED
  BY <1>1, <1>2, <1>3 DEF Next, webChatVars, compose, Rotate, PeerSends

LEMMA PageStep ==
  ASSUME WebChatInv, [Next]_webChatVars
  PROVE  PageInv'
<1>1. ServerGrows
  BY ServerStep
<1>2. GoodPage(S', messages') /\ GoodArea(area', messages')
  BY <1>1, SessionStep, AreaStep, PagesGrow DEF ServerGrows
<1> QED
  BY <1>2, ScreenStep, ComposeStep DEF PageInv

LEMMA InvStep == WebChatInv /\ [Next]_webChatVars => WebChatInv'
BY ServerStep, StorageStep, PageStep, TasksStep, RoomStep DEF WebChatInv

LEMMA InvHolds == Spec => []WebChatInv
BY InvInitially, InvStep, PTL DEF Spec

-----------------------------------------------------------------------------
(* The page's types.  In particular the conversation it is in is one that  *)
(* the server has, with the peer the page shows, through every overlap of  *)
(* openings, sends, logouts and logins, whether or not it is one of the    *)
(* user's own; and what it is to forward is a row of the server.           *)
THEOREM WebChatTypeCorrectness == Spec => []WebChatTypeOK
<1>1. ASSUME WebChatInv PROVE WebChatTypeOK
  <2>1. Len(messages) \in 0 .. MaxMessages
    <3>1. Len(messages) \in Nat /\ Cardinality(Outgoing) \in Nat
      BY <1>1, FS_CardinalityType DEF WebChatInv, ServerInv, RoomInv
    <3> QED
      BY <1>1, <3>1, BoundFacts DEF WebChatInv, RoomInv
  <2>2. \A t \in Tasks : tasks[t].bubbles \subseteq Bubbles
    BY <1>1, GoodNow DEF TaskRecords
  <2>3. S.conv # None => S.conv[2] = S.peer /\ HasConversation(S.conv[1], S.conv[2])
    BY <1>1 DEF WebChatInv, PageInv, GoodPage, Conversation, HasConversation, Between
  <2> QED
    BY <1>1, <2>1, <2>2, <2>3
       DEF WebChatInv, ServerInv, StorageInv, PageInv, Holds, GoodPage, Pages, GoodArea,
           Areas, WebChatTypeOK
<1> QED
  BY <1>1, InvHolds, PTL

(* Whatever the page holds or shows under the id of a message, in eb_sent, *)
(* in plaintextCache or in a bubble, is the text sealed in that message.   *)
THEOREM TextsStayTrue == Spec => []TextsAreTrue
<1>1. ASSUME WebChatInv PROVE TextsAreTrue
  <2>1. ASSUME NEW m \in Ids PROVE TextsOf(m) \subseteq TrueTexts(m, messages)
    <3>1. eb_sent[m] \in TrueTexts(m, messages) /\ plaintextCache[m] \in TrueTexts(m, messages)
      BY <1>1 DEF WebChatInv, StorageInv, Holds
    <3>2. \A b \in area.bubbles : b.text \in TrueTexts(b.id, messages)
      BY <1>1 DEF WebChatInv, PageInv, GoodArea, TrueBubbles
    <3> QED
      BY <3>1, <3>2 DEF TextsOf
  <2> QED
    BY <2>1 DEF TextsAreTrue, TrueTexts, Stored
<1> QED
  BY <1>1, InvHolds, PTL

-----------------------------------------------------------------------------
(* What is posted opens for its recipient.                                 *)
RowOpens(r, v) ==
  r.by.owner = r.from /\ r.aad[1] = r.from =>
    /\ r.for = Key(r.to, r.for.version) /\ r.by = Key(r.from, r.by.version)
    /\ r.aad = <<r.from, r.to>>
    /\ r.to \in Peers => r.for.version \in 1 .. v[r.to]

LEMMA SentIsRows ==
  SentOpensForRecipient <=> \A m \in DOMAIN messages : RowOpens(messages[m], version)
BY DEF SentOpensForRecipient, OpensWith, RowOpens

LEMMA SentIsRowsNext ==
  SentOpensForRecipient' <=> \A m \in DOMAIN messages' : RowOpens(messages'[m], version')
BY DEF SentOpensForRecipient, OpensWith, RowOpens

LEMMA PostedOpens ==
  ASSUME WebChatInv, NEW t \in Tasks, InsertMessage(t)
  PROVE  RowOpens(Posted(t), version)
<1> DEFINE k == tasks[t]
<1>1. k.at = "post" /\ k.peer \in Peers /\ k.version \in 1 .. version[k.peer]
  BY GoodNow DEF InsertMessage, Fits, Carries, HasPublished
<1>2. /\ Posted(t).from = k.token /\ Posted(t).to = k.peer
      /\ Posted(t).for = Key(k.peer, k.version) /\ Posted(t).by = Key(k.by, 1)
      /\ Posted(t).aad = <<k.uid, k.peer>>
  BY DEF Posted, Row, KeyOf
<1> QED
  BY <1>1, <1>2 DEF RowOpens, Key

LEMMA SentOpens ==
  ASSUME NEW p \in Peers, NEW u \in Accounts, NEW text
  PROVE  RowOpens(Row(p, u, text, Key(u, 1), Key(p, version[p]), <<p, u>>), version)
<1>1. u \notin Peers
  BY WebChatUsers
<1> QED
  BY <1>1 DEF RowOpens, Row, Key

LEMMA SentOpensStep ==
  ASSUME WebChatInv, SentOpensForRecipient, [Next]_webChatVars
  PROVE  SentOpensForRecipient'
<1>1. ServerGrows
  BY ServerStep
<1>2. \A r : r \in Rows /\ RowOpens(r, version) => RowOpens(r, version')
  <2>1. \A p \in Peers : 1 .. version[p] \subseteq 1 .. version'[p]
    BY <1>1, UserFacts DEF ServerGrows, Grows
  <2> QED
    BY <2>1 DEF RowOpens
<1>3. \A m \in DOMAIN messages : messages[m] \in Rows /\ RowOpens(messages[m], version)
  BY SentIsRows, DomainFacts DEF WebChatInv, ServerInv
<1>4. \A m \in DOMAIN messages : RowOpens(messages'[m], version')
  BY <1>1, <1>2, <1>3 DEF ServerGrows, Grows
<1>5. ASSUME NEW row \in Rows, RowOpens(row, version), Insert(row), UNCHANGED <<version, hidden>>
      PROVE  SentOpensForRecipient'
  <2>1. /\ messages'[Len(messages) + 1] = row
        /\ \A m \in DOMAIN messages' : m \in DOMAIN messages \/ m = Len(messages) + 1
    BY <1>5, InsertGrows
  <2> QED
    BY <1>2, <1>4, <1>5, <2>1, SentIsRowsNext
<1>6. CASE UNCHANGED messages
  BY <1>4, <1>6, SentIsRowsNext
<1>7. ASSUME NEW p \in Peers, NEW u \in Accounts, NEW text \in Texts, PeerSends(p, u, text)
      PROVE  SentOpensForRecipient'
  BY <1>5, <1>7, SentIsRow, SentOpens DEF PeerSends
<1>8. ASSUME NEW t \in Tasks, InsertMessage(t) PROVE SentOpensForRecipient'
  BY <1>5, <1>8, PostedIsRow, PostedOpens DEF InsertMessage
<1>9. ASSUME NEW t \in Tasks, TaskStep(t), ~InsertMessage(t) PROVE UNCHANGED messages
  BY <1>9, ServerQuiet
<1>10. User => UNCHANGED messages
  BY DEF User, Logout, Type, OpenForwardModal, CloseForwardModal, PressSend,
         ClickConversation, StartNewConv, PressForward, Remove,
       PressLogin, PressRegister, server
<1> QED
  BY <1>6, <1>7, <1>8, <1>9, <1>10 DEF Next, webChatVars, server, Rotate

(* What the page posts opens for the one it is addressed to, with a key    *)
(* this user has published, however its handlers overlap.                  *)
THEOREM PostedOpensForRecipient == Spec => []SentOpensForRecipient
<1>1. Init => SentOpensForRecipient
  BY DEF Init, SentOpensForRecipient
<1> QED
  BY <1>1, InvHolds, SentOpensStep, PTL DEF Spec

-----------------------------------------------------------------------------
(* What the screen waits for.  A step of one handler keeps it if what ends *)
(* with the handler is also taken from the screen.                         *)
LEMMA ServedByOne ==
  ASSUME WebChatInv, ScreenIsServed, NEW t \in Tasks, TaskMoves(t),
         disabled' => tasks'[t].kind = "send" \/ (disabled /\ tasks[t].kind # "send"),
         area'.at = "loading"
           => tasks'[t].at = "thread" \/ (area.at = "loading" /\ tasks[t].at # "thread"),
         area'.at = "decrypting"
           => tasks'[t].kind = "render" \/ (area.at = "decrypting" /\ tasks[t].kind # "render")
  PROVE  ScreenIsServed'
<1>1. \A u \in Tasks : u # t => tasks'[u] = tasks[u]
  BY GoodNow DEF TaskMoves
<1> QED
  BY <1>1 DEF ScreenIsServed

LEMMA TaskServed ==
  ASSUME WebChatInv, ScreenIsServed, NEW t \in Tasks, TaskStep(t)
  PROVE  ScreenIsServed'
<1> DEFINE k == tasks[t]
<1>1. TaskMoves(t) /\ Fits(k)
  BY GoodNow, TaskStepMoves
<1>2. CASE Within(t) \/ BuildMine(t) \/ BuildTheirs(t)
  <2>1. tasks'[t].kind = k.kind
    BY <1>2, KindKept
  <2>2. k.at # "thread" /\ UNCHANGED <<area, disabled>>
    BY <1>2 DEF Within, LookupKey, KeyArrives, Arrived, Seal, Imported, Post, InsertMessage,
         SendAnswered, Removed, BuildPinned, BuildUnpinned, Decrypt, BuildMine, BuildTheirs,
         Building, compose
  <2> QED
    BY <1>1, <2>1, <2>2, ServedByOne
<1>3. CASE Raises(t)
  <2>1. disabled' => disabled /\ k.kind # "send"
    BY <1>3 DEF Raises, WebChatInv, PageInv
  <2>2. area'.at = "loading" => area.at = "loading" /\ k.at # "thread"
    BY <1>3 DEF Raises, Showing
  <2>3. k.kind = "render" => tasks'[t].kind = "render"
    <3>1. k.kind = "render" => Becomes(t, [k EXCEPT !.at = "opened", !.text = None])
      BY <1>3 DEF Raises
    <3>2. [k EXCEPT !.at = "opened", !.text = None].kind = k.kind
      BY GoodNow DEF TaskRecords
    <3> QED
      BY <3>1, <3>2, GoodNow DEF Becomes
  <2>4. area'.at = "decrypting" => area.at = "decrypting"
    BY <1>3 DEF Raises, Showing
  <2> QED
    BY <1>1, <2>1, <2>2, <2>3, <2>4, ServedByOne
<1>4. CASE ForwardAnswered(t) \/ RemoveAnswered(t) \/ Rendered(t)
  <2>1. k.kind \notin {"send"} /\ k.at # "thread" /\ UNCHANGED disabled
    BY <1>1, <1>4 DEF ForwardAnswered, RemoveAnswered, Rendered, Fits, compose
  <2>2. CASE Rendered(t)
    BY <1>1, <2>1, <2>2, ServedByOne DEF Rendered, Showing
  <2>3. CASE ForwardAnswered(t) \/ RemoveAnswered(t)
    <3>1. k.kind # "render"
      BY <1>1, <2>3 DEF ForwardAnswered, RemoveAnswered, Fits
    <3>2. area'.at = area.at
      BY <2>3 DEF ForwardAnswered, RemoveAnswered, WebChatInv, PageInv, GoodArea, Areas
    <3> QED
      BY <1>1, <2>1, <3>1, <3>2, ServedByOne
  <2> QED
    BY <1>4, <2>2, <2>3
<1>5. ASSUME NEW c \in Accounts \X Peers, NEW kind \in {"send", "open"}, OpenConv(t, kind, c),
             UNCHANGED <<version, messages, disabled>>, k.kind = "send" => kind = "send",
             k.kind # "render"
      PROVE  ScreenIsServed'
  <2>1. tasks'[t].kind = kind /\ tasks'[t].at = "thread"
    BY <1>5, OpenConvMoves
  <2>2. area'.at = "loading"
    BY <1>5 DEF OpenConv, Showing
  <2> QED
    BY <1>1, <1>5, <2>1, <2>2, ServedByOne DEF ScreenIsServed, WebChatInv, PageInv
<1>6. CASE OpenExisting(t) \/ NewConversation(t)
  <2>1. k.at = "import" /\ k.kind = "lookup" /\ UNCHANGED <<version, messages, disabled>>
    BY <1>6 DEF OpenExisting, NewConversation, Imported, compose, server
  <2>2. CASE NewConversation(t)
    BY <1>1, <2>1, <2>2, ServedByOne DEF NewConversation, Showing
  <2>3. CASE OpenExisting(t)
    BY <1>5, <2>1, <2>3, NewConvMoves
  <2> QED
    BY <1>6, <2>2, <2>3
<1>8. CASE ListAnswered(t)
  <2>1. k.at = "list" /\ k.kind = "send" /\ UNCHANGED <<version, messages>>
    BY <1>1, <1>8 DEF ListAnswered, Fits, server
  <2>2. CASE disabled' = FALSE /\ UNCHANGED area
    BY <1>1, <2>1, <2>2, ServedByOne
  <2> QED
    BY <1>5, <1>8, <2>1, <2>2, ListFacts
<1>9. CASE SignIn(t)
  <2>1. k.kind = "login" /\ k.at # "thread" /\ UNCHANGED <<area, disabled>>
    BY <1>1, <1>9, SignInKeeps, WithinHandler DEF Fits, compose
  <2> QED
    BY <1>1, <2>1, ServedByOne
<1>7. CASE ThreadAnswered(t)
  <2>1. disabled' => disabled /\ k.kind # "send"
    BY <1>7 DEF ThreadAnswered, WebChatInv, PageInv
  <2>2. area'.at # "loading"
    BY <1>7 DEF ThreadAnswered, Showing
  <2>3. area'.at = "decrypting" => tasks'[t].kind = "render"
    BY <1>7, ThreadMoves
  <2> QED
    BY <1>1, <2>1, <2>2, <2>3, ServedByOne
<1> QED
  BY <1>2, <1>3, <1>4, <1>6, <1>7, <1>8, <1>9
     DEF TaskStep, Within, KeyUnusable, SealFails, RefuseForward, ThreadRefused,
         RemoveRefused, RequestFails, Unauthorized

LEMMA UserServed ==
  ASSUME WebChatInv, ScreenIsServed, User
  PROVE  ScreenIsServed'
<1>1. CASE UNCHANGED <<area, disabled, tasks>>
  BY <1>1 DEF ScreenIsServed
<1>2. ASSUME NEW t \in Tasks, PressSend(t) PROVE ScreenIsServed'
  <2>1. tasks[t].at # "thread" /\ tasks[t].kind # "render" /\ UNCHANGED area
    BY <1>2 DEF PressSend, Free, NoTask
  <2> QED
    BY <1>2, <2>1, UserMoves, ServedByOne
<1>3. ASSUME NEW t \in Tasks, NEW p \in Peers, ClickConversation(t, p)
      PROVE  ScreenIsServed'
  <2>1. tasks[t].kind # "send" /\ area'.at = "loading" /\ UNCHANGED disabled
    BY <1>3 DEF ClickConversation, OpenConv, Free, NoTask, Showing, compose
  <2> QED
    BY <1>3, <2>1, UserMoves, ServedByOne
<1>4. ASSUME NEW t \in Tasks, TaskMoves(t), tasks[t] = NoTask, UNCHANGED <<area, disabled>>
      PROVE  ScreenIsServed'
  <2>1. tasks[t].at # "thread" /\ tasks[t].kind \notin {"send", "render"}
    BY <1>4 DEF NoTask
  <2> QED
    BY <1>4, <2>1, ServedByOne
<1>5. ASSUME NEW t \in Tasks, NEW p \in Peers, StartNewConv(t, p) \/ PressForward(t, p)
      PROVE  ScreenIsServed'
  <2>1. tasks[t] = NoTask /\ UNCHANGED <<area, disabled>>
    BY <1>5 DEF StartNewConv, PressForward, Free, compose
  <2> QED
    BY <1>4, <1>5, <2>1, UserMoves
<1>6. ASSUME NEW t \in Tasks, NEW b \in area.bubbles, NEW kind \in {"delete", "revoke"},
             Remove(t, kind, b)
      PROVE  ScreenIsServed'
  <2>1. tasks[t] = NoTask /\ UNCHANGED <<area, disabled>>
    BY <1>6 DEF Remove, Free, compose
  <2> QED
    BY <1>4, <1>6, <2>1, UserMoves
<1>7. ASSUME NEW t \in Tasks, NEW u \in Accounts, PressLogin(t, u) \/ PressRegister(t, u)
      PROVE  ScreenIsServed'
  <2>1. tasks[t] = NoTask /\ UNCHANGED <<area, disabled>>
    BY <1>7 DEF PressLogin, PressRegister, Free, compose
  <2> QED
    BY <1>4, <1>7, <2>1, UserMoves
<1> QED
  BY <1>1, <1>2, <1>3, <1>5, <1>6, <1>7
     DEF User, Logout, Type, OpenForwardModal, CloseForwardModal, compose

LEMMA ServedStep ==
  ASSUME WebChatInv, ScreenIsServed, [Next]_webChatVars
  PROVE  ScreenIsServed'
<1>1. CASE UNCHANGED <<area, disabled, tasks>>
  BY <1>1 DEF ScreenIsServed
<1> QED
  BY <1>1, TaskServed, UserServed DEF Next, webChatVars, compose, Rotate, PeerSends

LEMMA ServedHolds == Spec => []ScreenIsServed
<1>1. Init => ScreenIsServed
  BY DEF Init, ScreenIsServed, Showing
<1> QED
  BY <1>1, InvHolds, ServedStep, PTL DEF Spec

(* A handler has what it goes on with: it fits its step, and the rows that *)
(* this step reads are stored.                                             *)
LEMMA AllGoOn ==
  ASSUME WebChatInv, NEW t \in Tasks, tasks[t] # NoTask
  PROVE  GoesOn(t)
<1> DEFINE k == tasks[t]
<1>1. k \in TaskRecords /\ Fits(k) /\ Carries(k, version, messages) /\ Renders(k, messages)
  BY GoodNow
<1>2. k.at # "none"
  BY <1>1 DEF Fits
<1>3. k.todo # {} => Stored(Current(t))
  BY CurrentFacts DEF Stored
<1>4. k.at \in Stages
  BY <1>1 DEF TaskRecords
<1>5. k.at = "import" => k.kind \in {"send", "forward", "lookup", "render"}
  BY <1>1 DEF Fits
<1>6. k.at = "import" /\ k.kind = "render" => k.todo # {}
  BY <1>1 DEF Renders
<1>7. CASE k.at \in {"key", "pin", "import"}
  BY <1>1, <1>3, <1>5, <1>6, <1>7 DEF GoesOn, Carries
<1>8. CASE k.at \in {"enter", "unlock", "private", "public", "generate", "register"}
  BY <1>1, <1>8 DEF GoesOn, Fits, Carries
<1>9. CASE k.at \in {"sealed", "post", "stored", "list", "thread", "remove", "removed"}
  BY <1>1, <1>9 DEF GoesOn, Fits, Carries, Stored
<1>10. CASE k.at \in {"build", "opened"}
  BY <1>1, <1>3, <1>10 DEF GoesOn, Fits, Renders
<1> QED
  BY <1>2, <1>4, <1>7, <1>8, <1>9, <1>10 DEF Stages

(* A disabled send button and a spinner have the handler that ends them,   *)
(* and every handler has what its next step needs, whatever fails, is      *)
(* refused or is logged out in the middle.                                 *)
THEOREM SpinnersAreServed == Spec => []SpinnerHasHandler
<1>1. WebChatInv /\ ScreenIsServed => SpinnerHasHandler
  BY AllGoOn DEF SpinnerHasHandler
<1> QED
  BY <1>1, InvHolds, ServedHolds, PTL

-----------------------------------------------------------------------------
(* How many steps a handler has before it, at most: its awaits, and for    *)
(* each message it has to render a key, an answer, an import, an opening   *)
(* and a bubble.                                                           *)
Ahead(at) ==
  CASE at = "key" -> 8 [] at = "pin" -> 7 [] at = "import" -> 6 [] at = "sealed" -> 5
    [] at \in {"post", "enter"} -> 4 [] at \in {"stored", "unlock"} -> 3
    [] at \in {"list", "remove", "private", "generate"} -> 2
    [] at \in {"thread", "removed", "public", "register"} -> 1 [] OTHER -> 0
RenderAhead(at) ==
  CASE at = "build" -> 4 [] at = "key" -> 3 [] at = "pin" -> 2 [] at = "import" -> 1
    [] OTHER -> 0
Left(k) ==
  IF k.kind = "none" THEN 0
  ELSE IF k.kind = "render" THEN 5 * Cardinality(k.todo) + RenderAhead(k.at)
  ELSE 5 * MaxMessages + 4 + Ahead(k.at)

(* What is left to render are stored messages, so they are as many as the  *)
(* ids at most.                                                            *)
LEMMA RenderIsFinite ==
  ASSUME WebChatInv, NEW ids \in SUBSET (DOMAIN messages)
  PROVE  /\ IsFiniteSet(ids)
         /\ Cardinality(ids) \in Nat
         /\ Cardinality(ids) <= MaxMessages
<1>1. ids \subseteq Ids
  BY StoredAreIds
<1>2. IsFiniteSet(Ids) /\ Cardinality(Ids) = MaxMessages
  BY FS_Interval, BoundFacts DEF Ids
<1> QED
  BY <1>1, <1>2, FS_Subset, FS_CardinalityType


LEMMA LeftFacts ==
  ASSUME WebChatInv, NEW t \in Tasks
  PROVE  /\ Cardinality(tasks[t].todo) \in 0 .. MaxMessages
         /\ Ahead(tasks[t].at) \in Nat /\ RenderAhead(tasks[t].at) \in Nat
         /\ tasks[t].kind \notin {"none", "render"} => Ahead(tasks[t].at) > 0
         /\ Left(tasks[t]) \in Nat
<1> DEFINE k == tasks[t]
           n == Cardinality(k.todo)
<1>1. n \in Nat /\ n <= MaxMessages
  BY GoodNow, RenderIsFinite DEF Renders
<1>2. Ahead(k.at) \in Nat /\ RenderAhead(k.at) \in Nat
  BY DEF Ahead, RenderAhead
<1>3. Fits(k) /\ k.at \in Stages
  BY GoodNow DEF TaskRecords
<1>4. k.kind \notin {"none", "render"} => Ahead(k.at) > 0
  BY <1>3 DEF Ahead, Fits, Stages
<1>5. Left(k) = IF k.kind = "none" THEN 0
                ELSE IF k.kind = "render" THEN 5 * n + RenderAhead(k.at)
                ELSE 5 * MaxMessages + 4 + Ahead(k.at)
  BY DEF Left
<1> HIDE DEF n
<1>6. Left(k) \in Nat
  BY <1>1, <1>2, <1>5, BoundFacts
<1> QED
  BY <1>1, <1>2, <1>4, <1>6, BoundFacts DEF n

LEMMA StretchAdvances ==
  ASSUME WebChatInv, NEW t \in Tasks, GoesTo(tasks[t], tasks'[t])
  PROVE  Left(tasks'[t]) < Left(tasks[t])
<1> DEFINE k == tasks[t]
           n == tasks'[t]
           c == Cardinality(k.todo)
<1>1. n.kind = k.kind /\ n.todo = k.todo /\ <<k.at, n.at>> \in Stretches
  BY DEF GoesTo
<1>2. Fits(k)
  BY GoodNow
<1>3. c \in Nat
  BY LeftFacts
<1>4. k.kind # "none"
  BY <1>1, <1>2 DEF Fits, Stretches
<1>5. CASE k.kind = "render"
  <2>1. /\ RenderAhead(n.at) \in Nat /\ RenderAhead(k.at) \in Nat
        /\ RenderAhead(n.at) < RenderAhead(k.at)
    BY <1>1, <1>2, <1>5 DEF RenderAhead, Stretches, Fits
  <2>2. Left(n) = 5 * c + RenderAhead(n.at) /\ Left(k) = 5 * c + RenderAhead(k.at)
    BY <1>1, <1>5 DEF Left
  <2> HIDE DEF c
  <2> QED
    BY <1>3, <2>1, <2>2
<1>6. CASE k.kind # "render"
  <2>1. Ahead(n.at) \in Nat /\ Ahead(k.at) \in Nat /\ Ahead(n.at) < Ahead(k.at)
    BY <1>1, <1>2, <1>6 DEF Ahead, Stretches, Fits
  <2> QED
    BY <1>1, <1>4, <1>6, <2>1, BoundFacts DEF Left
<1> QED
  BY <1>5, <1>6

LEMMA BubbleAdvances ==
  ASSUME WebChatInv, NEW t \in Tasks, OneRendered(t),
         tasks[t].kind = "render", tasks[t].todo # {}
  PROVE  Left(tasks'[t]) < Left(tasks[t])
<1> DEFINE todo == tasks[t].todo
           rest == tasks'[t].todo
           c == Cardinality(todo)
           d == Cardinality(rest)
<1>1. rest = todo \ {Current(t)} /\ Current(t) \in todo
  BY CurrentFacts DEF OneRendered
<1>2. IsFiniteSet(todo)
  BY GoodNow, RenderIsFinite DEF Renders
<1>3. c \in Nat
  BY LeftFacts
<1>4. d = c - 1 /\ d \in Nat
  BY <1>1, <1>2, FS_RemoveElement, FS_CardinalityType
<1>5. tasks'[t].kind = "render" /\ tasks'[t].at = "build"
  BY DEF OneRendered
<1>6. RenderAhead("build") = 4 /\ RenderAhead(tasks[t].at) \in Nat
  BY DEF RenderAhead
<1>7. Left(tasks'[t]) = 5 * d + 4 /\ Left(tasks[t]) = 5 * c + RenderAhead(tasks[t].at)
  BY <1>5, <1>6 DEF Left
<1> HIDE DEF c, d
<1> QED
  BY <1>3, <1>4, <1>6, <1>7

LEMMA EndingAdvances ==
  ASSUME WebChatInv, NEW t \in Tasks, Ends(t), tasks[t].kind # "none",
         tasks[t].kind = "render" => tasks[t].at = "build"
  PROVE  Left(tasks'[t]) < Left(tasks[t])
<1> DEFINE c == Cardinality(tasks[t].todo)
<1>1. Left(tasks'[t]) = 0
  BY EndsMoves DEF Left, NoTask
<1>2. c \in Nat
  BY LeftFacts
<1>3. CASE tasks[t].kind = "render"
  <2>1. Left(tasks[t]) = 5 * c + 4
    BY <1>3 DEF Left, RenderAhead
  <2> HIDE DEF c
  <2> QED
    BY <1>1, <1>2, <2>1
<1>4. CASE tasks[t].kind # "render"
  BY <1>1, <1>4, LeftFacts, BoundFacts DEF Left
<1> QED
  BY <1>3, <1>4

(* The last part of a send, of a click and of a thread: to an opening, and *)
(* from an opening to its rendering.                                       *)
LEMMA OpeningAdvances ==
  ASSUME WebChatInv, NEW t \in Tasks, tasks[t].kind \in {"send", "lookup"},
         tasks[t].at \in {"import", "list"},
         tasks'[t].kind \in {"send", "open"}, tasks'[t].at = "thread"
  PROVE  Left(tasks'[t]) < Left(tasks[t])
BY BoundFacts DEF Left, Ahead

LEMMA RenderingAdvances ==
  ASSUME WebChatInv, NEW t \in Tasks, tasks[t].kind \in {"send", "open"},
         tasks[t].at = "thread",
         tasks'[t].kind = "render", tasks'[t].at = "build",
         tasks'[t].todo \subseteq DOMAIN messages
  PROVE  Left(tasks'[t]) < Left(tasks[t])
<1> DEFINE c == Cardinality(tasks'[t].todo)
<1>1. c \in Nat /\ c <= MaxMessages
  BY RenderIsFinite
<1>2. Left(tasks'[t]) = 5 * c + 4
  BY DEF Left, RenderAhead
<1>3. Left(tasks[t]) = 5 * MaxMessages + 4 + 1
  BY DEF Left, Ahead
<1> HIDE DEF c
<1> QED
  BY <1>1, <1>2, <1>3, BoundFacts

LEMMA RaisingAdvances ==
  ASSUME WebChatInv, NEW t \in Tasks, Raises(t), tasks[t].at \in Requests \cup {"import"}
  PROVE  Left(tasks'[t]) < Left(tasks[t])
<1> DEFINE k == tasks[t]
<1>1. k.kind # "none" /\ k.at # "opened"
  BY GoodNow DEF Fits, Requests
<1>2. CASE k.kind = "render"
  <2> DEFINE c == Cardinality(k.todo)
  <2>1. tasks'[t] = [k EXCEPT !.at = "opened", !.text = None]
    BY <1>2, GoodNow DEF Raises, Becomes
  <2>2. tasks'[t].kind = "render" /\ tasks'[t].at = "opened" /\ tasks'[t].todo = k.todo
    BY <1>2, <2>1, GoodNow DEF TaskRecords
  <2>3. k.at \in {"key", "pin", "import"}
    BY <1>2, GoodNow DEF Fits, Requests
  <2>4. RenderAhead("opened") = 0 /\ RenderAhead(k.at) \in Nat /\ RenderAhead(k.at) > 0
    BY <2>3 DEF RenderAhead
  <2>5. c \in Nat
    BY LeftFacts
  <2>6. Left(tasks'[t]) = 5 * c + 0 /\ Left(k) = 5 * c + RenderAhead(k.at)
    BY <1>2, <2>2, <2>4 DEF Left
  <2> HIDE DEF c
  <2> QED
    BY <2>4, <2>5, <2>6
<1>3. CASE k.kind # "render"
  BY <1>1, <1>3, EndingAdvances DEF Raises
<1> QED
  BY <1>2, <1>3

LEMMA TaskAdvances ==
  ASSUME WebChatInv, NEW t \in Tasks, TaskStep(t)
  PROVE  Left(tasks'[t]) < Left(tasks[t])
<1> DEFINE k == tasks[t]
<1>1. Fits(k)
  BY GoodNow
<1>2. CASE Within(t)
  BY <1>2, WithinHandler, StretchAdvances
<1>3. CASE BuildMine(t) \/ BuildTheirs(t)
  <2>1. k.kind = "render" /\ k.todo # {}
    BY <1>3, GoodNow, BuildingRenders DEF BuildMine, BuildTheirs, Fits, Renders
  <2> QED
    BY <1>3, <2>1, WithinHandler, BubbleAdvances
<1>4. CASE \/ KeyUnusable(t) \/ SealFails(t) \/ RefuseForward(t) \/ ThreadRefused(t)
           \/ RemoveRefused(t) \/ RequestFails(t) \/ Unauthorized(t)
  <2>1. Raises(t) /\ k.at \in Requests \cup {"import"}
    BY <1>4 DEF KeyUnusable, SealFails, RefuseForward, ThreadRefused, RemoveRefused,
                RequestFails, Unauthorized, Arrived, Imported, Authorized, Requests
  <2> QED
    BY <2>1, RaisingAdvances
<1>5. CASE ForwardAnswered(t) \/ RemoveAnswered(t) \/ Rendered(t)
  <2>1. Ends(t) /\ k.kind # "none" /\ (k.kind = "render" => k.at = "build")
    BY <1>1, <1>5 DEF ForwardAnswered, RemoveAnswered, Rendered, Fits
  <2> QED
    BY <2>1, EndingAdvances
<1>6. CASE OpenExisting(t) \/ NewConversation(t)
  <2>1. k.kind = "lookup" /\ k.at = "import"
    BY <1>6 DEF OpenExisting, NewConversation, Imported
  <2>2. CASE NewConversation(t)
    BY <2>1, <2>2, EndingAdvances DEF NewConversation
  <2>3. CASE OpenExisting(t)
    BY <2>1, <2>3, NewConvMoves, OpeningAdvances
  <2> QED
    BY <1>6, <2>2, <2>3
<1>7. CASE ListAnswered(t)
  <2>1. k.kind = "send" /\ k.at = "list" /\ UNCHANGED <<version, messages>>
    BY <1>1, <1>7 DEF ListAnswered, Fits, server
  <2>2. CASE Ends(t)
    BY <2>1, <2>2, EndingAdvances
  <2>3. ASSUME NEW c \in Accounts \X Peers, OpenConv(t, "send", c)
        PROVE  Left(tasks'[t]) < Left(k)
    BY <2>1, <2>3, OpenConvMoves, OpeningAdvances
  <2> QED
    BY <1>7, <2>2, <2>3, ListFacts
<1>8. CASE ThreadAnswered(t)
  <2> DEFINE ids == ThreadOf(k.by, k.peer)
             n == [NoTask EXCEPT !.kind = "render", !.at = "build", !.todo = ids]
  <2>1. k.kind \in {"send", "open"} /\ k.at = "thread"
    BY <1>1, <1>8 DEF ThreadAnswered, Fits
  <2>2. CASE Ends(t)
    BY <2>1, <2>2, EndingAdvances
  <2>3. CASE Becomes(t, n)
    <3>1. tasks'[t] = n /\ ids \subseteq DOMAIN messages
      BY <2>3, GoodNow DEF Becomes, ThreadOf
    <3>2. tasks'[t].kind = "render" /\ tasks'[t].at = "build" /\ tasks'[t].todo = ids
      BY <3>1 DEF NoTask
    <3> QED
      BY <2>1, <3>1, <3>2, RenderingAdvances
  <2> QED
    BY <1>8, <2>2, <2>3 DEF ThreadAnswered
<1>9. CASE SignIn(t)
  <2>1. CASE Ends(t)
    BY <1>9, <2>1, WithinHandler, EndingAdvances
  <2> QED
    BY <1>9, <2>1, WithinHandler, StretchAdvances
<1> QED
  BY <1>2, <1>3, <1>4, <1>5, <1>6, <1>7, <1>8, <1>9 DEF TaskStep, Within

(* Nobody else touches a handler that is under way: a click takes a free   *)
(* place.                                                                  *)
LEMMA OthersLeaveHandler ==
  ASSUME WebChatInv, NEW t \in Tasks, [Next]_webChatVars, ~TaskStep(t), tasks[t] # NoTask
  PROVE  tasks'[t] = tasks[t]
<1>1. tasks \in [Tasks -> TaskRecords]
  BY GoodNow
<1>2. ASSUME NEW u \in Tasks, TaskStep(u) PROVE tasks'[t] = tasks[t]
  BY <1>1, <1>2, TaskStepMoves DEF TaskMoves
<1>3. ASSUME User PROVE tasks'[t] = tasks[t]
  BY <1>1, <1>3 DEF User, Logout, Type, OpenForwardModal, CloseForwardModal, PressSend,
         ClickConversation, OpenConv, StartNewConv, PressForward, Remove,
       PressLogin, PressRegister, Free, Becomes
<1> QED
  BY <1>2, <1>3 DEF Next, webChatVars, Rotate, PeerSends

(* The part of the spinners' end that needs no fairness: every step of a   *)
(* handler, a failure as well as a success, brings it closer to its end by *)
(* a count that nothing else raises, so that none goes round in circles    *)
(* and nobody's clicks, logouts or logins set one back.                    *)
THEOREM HandlersAdvance ==
  Spec => [][\A t \in Tasks :
               /\ TaskStep(t) => Left(tasks[t]) \in Nat /\ Left(tasks'[t]) < Left(tasks[t])
               /\ tasks[t] # NoTask /\ ~TaskStep(t) => UNCHANGED tasks[t]]_webChatVars
<1>1. WebChatInv /\ [Next]_webChatVars
        => [\A t \in Tasks :
              /\ TaskStep(t) => Left(tasks[t]) \in Nat /\ Left(tasks'[t]) < Left(tasks[t])
              /\ tasks[t] # NoTask /\ ~TaskStep(t) => UNCHANGED tasks[t]]_webChatVars
  BY TaskAdvances, OthersLeaveHandler, LeftFacts
<1> QED
  BY <1>1, InvHolds, PTL DEF Spec
=============================================================================
