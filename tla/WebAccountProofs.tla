-------------------------- MODULE WebAccountProofs --------------------------
(***************************************************************************)
(* What is proved of WebAccount: its types, and that the key kept on the   *)
(* server always opens with the password that logs in.                     *)
(***************************************************************************)
EXTENDS WebAccount, TLAPS

(* A handler has captured what its next step needs, and the names it acts  *)
(* on once the server has answered are among the rows.                     *)
Fits(task, rows) ==
  /\ task.at # "none" => task.page \in Browsers
  /\ task.at \in {"generate", "keep", "register", "enter", "entered", "login", "answer"}
       => task.name \in Names /\ task.password \in Passwords
  /\ task.at \in {"keep", "register", "enter", "entered", "unlock", "private", "public",
                  "serialize", "wrap", "asked", "verify", "updated"}
       => task.key \in Keys
  /\ task.at \in {"serialize", "wrap", "asked", "verify", "updated"} => task.new \in Passwords
  /\ task.at \in {"enter", "entered", "answer", "verify"}
       => task.name \in Names /\ rows[task.name] # None
  /\ task.at = "asked" /\ task.name # None => rows[task.name] # None
  /\ task.at = "answer" => task.row \in UserRow /\ task.row.blob \in Wrapped

WebInv ==
  /\ WebTypeOK
  /\ \A t \in Tasks : Fits(tasks[t], users)
  /\ ServerCopyOpens

LEMMA NoneFacts ==
  /\ None \notin Keys
  /\ None \notin Passwords
  /\ None \notin Names
  /\ None \notin Wrapped
  /\ None \notin UserRow
BY NoneAssumption

(* A key wrapped under a password is one that the password opens.          *)
LEMMA WrapOpens ==
  ASSUME NEW key \in Keys, NEW password \in Passwords
  PROVE  /\ Wrap(key, password) \in Wrapped
         /\ Wrap(key, password) # None
         /\ Opens(Wrap(key, password), password)
<1>1. Wrap(key, password) \in Wrapped
  BY DEF Wrap, Wrapped
<1>2. Wrap(key, password) # None
  BY <1>1, NoneFacts
<1> QED
  BY <1>1, <1>2 DEF Wrap, Opens

-----------------------------------------------------------------------------
(* What a step does to the rows: none disappears, and each row that is     *)
(* written holds a key wrapped under its own password.                     *)
RowsKept ==
  /\ AccountsTypeOK'
  /\ ServerCopyOpens'
  /\ \A n \in Names : Registered(n) => Registered(n)'

LEMMA RegisterKeepsRows ==
  ASSUME WebInv, NEW n \in Names, NEW password \in Passwords, NEW key \in Keys,
         Register(n, password, key, Wrap(key, password))
  PROVE  RowsKept /\ Registered(n)'
<1> DEFINE row == [password |-> password, public_key |-> key, blob |-> Wrap(key, password)]
<1>1. row \in UserRow
  BY WrapOpens DEF UserRow
<1>2. users \in [Names -> UserRow \cup {None}]
  BY DEF WebInv, WebTypeOK, AccountsTypeOK
<1>3. users' = [users EXCEPT ![n] = row]
  BY DEF Register
<1>4. row # None
  BY <1>1, NoneFacts
<1>5. row.password = password /\ row.blob = Wrap(key, password)
  OBVIOUS
<1> HIDE DEF row
<1>6. AccountsTypeOK'
  BY <1>1, <1>2, <1>3 DEF AccountsTypeOK
<1>7. \A m \in Names : users'[m] = IF m = n THEN row ELSE users[m]
  BY <1>2, <1>3
<1>8. ServerCopyOpens'
  BY <1>5, <1>7, WrapOpens DEF WebInv, ServerCopyOpens, Registered
<1> QED
  BY <1>4, <1>6, <1>7, <1>8 DEF RowsKept, Registered

LEMMA UpdateKeepsRows ==
  ASSUME WebInv, NEW n \in Names, Registered(n),
         NEW password \in Passwords, NEW key \in Keys,
         UpdatePassword(n, password, Wrap(key, password))
  PROVE  RowsKept
<1> DEFINE row == [users[n] EXCEPT !.password = password, !.blob = Wrap(key, password)]
<1>1. users \in [Names -> UserRow \cup {None}]
  BY DEF WebInv, WebTypeOK, AccountsTypeOK
<1>2. users[n] \in UserRow
  BY <1>1 DEF Registered
<1>3. row \in UserRow /\ row.password = password /\ row.blob = Wrap(key, password)
  BY <1>2, WrapOpens DEF UserRow
<1>4. users' = [users EXCEPT ![n] = row]
  BY <1>1, <1>2, WrapOpens DEF UpdatePassword
<1>5. row # None
  BY <1>3, NoneFacts
<1> HIDE DEF row
<1>6. AccountsTypeOK'
  BY <1>1, <1>3, <1>4 DEF AccountsTypeOK
<1>7. \A m \in Names : users'[m] = IF m = n THEN row ELSE users[m]
  BY <1>1, <1>4
<1>8. ServerCopyOpens'
  BY <1>3, <1>7, WrapOpens DEF WebInv, ServerCopyOpens, Registered
<1> QED
  BY <1>5, <1>6, <1>7, <1>8 DEF RowsKept, Registered

-----------------------------------------------------------------------------
LEMMA WebInvInitially == Init => WebInv
BY NoneFacts
   DEF Init, AccountsInit, LoggedOut, NoTask, WebInv, WebTypeOK, AccountsTypeOK, Session, Task,
       Stages, Fits, ServerCopyOpens, Registered

KeysTyped == eb_key \in [Browsers -> [Names -> Wrapped \cup {None}]]

PagesTyped == S \in [Browsers -> Session] /\ screen \in [Browsers -> {"auth", "app", "left"}]

(* Saving a wrapped key keeps the type of localStorage.                    *)
LEMMA SavedKeysTyped ==
  ASSUME WebTypeOK, NEW b \in Browsers, NEW n \in Names,
         NEW wrapped \in Wrapped, SaveKeyStore(b, n, wrapped)
  PROVE  KeysTyped'
BY DEF WebTypeOK, SaveKeyStore, KeysTyped

(* The steps that change no row.                                           *)
LEMMA RowlessStep ==
  ASSUME WebInv, UNCHANGED users
  PROVE  RowsKept
BY DEF WebInv, WebTypeOK, RowsKept, AccountsTypeOK, ServerCopyOpens, Registered

LEMMA NoTaskFits == NoTask \in Task /\ \A rows : Fits(NoTask, rows)
BY DEF NoTask, Task, Stages, Fits

(* Each field of a handler can be set on its own.                          *)
LEMMA TaskUpdates ==
  ASSUME NEW task \in Task, NEW at \in Stages
  PROVE  /\ [task EXCEPT !.at = at] \in Task
         /\ \A key \in Keys : [task EXCEPT !.at = at, !.key = key] \in Task
         /\ \A row \in UserRow : [task EXCEPT !.at = at, !.row = row] \in Task
         /\ \A n \in Names \cup {None} : [task EXCEPT !.at = at, !.name = n] \in Task
BY DEF Task

(* The state as the invariant has it, seen from one handler.               *)
LEMMA TaskNow ==
  ASSUME WebInv, NEW t \in Tasks
  PROVE  /\ tasks[t] \in Task /\ Fits(tasks[t], users) /\ tasks \in [Tasks -> Task]
         /\ tasks[t].at # "none" => tasks[t].page \in Browsers
         /\ PagesTyped /\ KeysTyped /\ fresh \subseteq Keys
         /\ users \in [Names -> UserRow \cup {None}]
         /\ \A n \in Names : users[n] # None => users[n] \in UserRow /\ users[n].blob \in Wrapped
<1>1. /\ tasks[t] \in Task /\ Fits(tasks[t], users) /\ tasks \in [Tasks -> Task]
      /\ PagesTyped /\ KeysTyped /\ fresh \subseteq Keys
      /\ users \in [Names -> UserRow \cup {None}]
  BY DEF WebInv, WebTypeOK, AccountsTypeOK, PagesTyped, KeysTyped
<1>2. ASSUME NEW n \in Names, users[n] # None
      PROVE  users[n] \in UserRow /\ users[n].blob \in Wrapped
  <2>1. users[n] \in UserRow
    BY <1>1, <1>2
  <2>2. Opens(users[n].blob, users[n].password)
    BY <1>2 DEF WebInv, ServerCopyOpens, Registered
  <2> QED
    BY <2>1, <2>2 DEF UserRow, Opens
<1> QED
  BY <1>1, <1>2 DEF Fits

(* A handler in hand goes on to fit the rows that are kept.                *)
LEMMA OthersFit ==
  ASSUME WebInv, RowsKept, NEW task \in Task, Fits(task, users)
  PROVE  Fits(task, users')
BY DEF RowsKept, Registered, Fits, Task

(* A token that a page gets is of a registered account.                    *)
TokensRegistered ==
  \A b \in Browsers : S'[b].username \in {None, S[b].username} \/ users'[S'[b].username] # None

LEMMA TokensKept ==
  ASSUME WebInv, RowsKept, TokensRegistered, PagesTyped'
  PROVE  \A b \in Browsers : S'[b].username # None => users'[S'[b].username] # None
<1>1. SUFFICES ASSUME NEW b \in Browsers, S'[b].username # None, S'[b].username = S[b].username
               PROVE  users'[S'[b].username] # None
  BY DEF TokensRegistered
<1>2. S[b].username \in Names /\ users[S[b].username] # None
  BY <1>1 DEF WebInv, WebTypeOK, Session, Registered
<1> QED
  BY <1>1, <1>2 DEF RowsKept, Registered

(* What a step of a handler has to establish.                              *)
LEMMA TaskStep ==
  ASSUME WebInv, RowsKept, NEW t \in Tasks,
         NEW task \in Task, tasks' = [tasks EXCEPT ![t] = task], Fits(task, users'),
         KeysTyped', PagesTyped', TokensRegistered, fresh' \subseteq Keys
  PROVE  WebInv'
<1>1. \A r \in Tasks : tasks'[r] = IF r = t THEN task ELSE tasks[r]
  BY DEF WebInv, WebTypeOK
<1>2. \A r \in Tasks : Fits(tasks[r], users')
  BY OthersFit, TaskNow
<1>3. \A r \in Tasks : Fits(tasks'[r], users')
  BY <1>1, <1>2
<1>4. tasks' \in [Tasks -> Task]
  BY DEF WebInv, WebTypeOK
<1>5. WebTypeOK'
  BY <1>4, TokensKept DEF WebTypeOK, RowsKept, KeysTyped, PagesTyped, Registered
<1> QED
  BY <1>3, <1>5 DEF WebInv, RowsKept

(* A step that only moves the handler, or ends it.                         *)
LEMMA QuietStep ==
  ASSUME WebInv, NEW t \in Tasks,
         NEW task \in Task, tasks' = [tasks EXCEPT ![t] = task], Fits(task, users),
         KeysTyped', fresh' \subseteq Keys, UNCHANGED <<users, S, screen>>
  PROVE  WebInv'
<1>1. RowsKept
  BY RowlessStep
<1>2. PagesTyped' /\ TokensRegistered
  BY TaskNow DEF PagesTyped, TokensRegistered
<1> QED
  BY <1>1, <1>2, TaskStep

LEMMA EndStep ==
  ASSUME WebInv, NEW t \in Tasks, Ends(t), KeysTyped', UNCHANGED <<users, S, screen, fresh>>
  PROVE  WebInv'
BY NoTaskFits, TaskNow, QuietStep DEF Ends

(* A page that sets fields of S: the token only to a registered name.      *)
LEMMA PageStep ==
  ASSUME WebInv, NEW t \in Tasks, NEW b \in Browsers, NEW page \in Session,
         S' = [S EXCEPT ![b] = page],
         page.username \in {None, S[b].username} \/ users[page.username] # None,
         \/ screen' = screen \/ \E to \in {"app", "left"} : screen' = [screen EXCEPT ![b] = to],
         NEW task \in Task, tasks' = [tasks EXCEPT ![t] = task], Fits(task, users),
         KeysTyped', UNCHANGED <<users, fresh>>
  PROVE  WebInv'
<1>1. RowsKept /\ fresh' \subseteq Keys
  BY RowlessStep, TaskNow
<1>2. PagesTyped'
  BY TaskNow DEF PagesTyped
<1>3. \A c \in Browsers : S'[c] = IF c = b THEN page ELSE S[c]
  BY TaskNow DEF PagesTyped
<1>4. TokensRegistered
  BY <1>3 DEF TokensRegistered
<1> QED
  BY <1>1, <1>2, <1>4, TaskStep

LEMMA LoggedOutType == LoggedOut \in Session /\ LoggedOut.username = None
BY DEF LoggedOut, Session

-----------------------------------------------------------------------------
LEMMA PressSteps ==
  ASSUME WebInv, NEW t \in Tasks, NEW b \in Browsers, Press(t, b)
  PROVE  WebInv'
<1> USE TaskNow
<1>1. ASSUME NEW n \in Names, NEW password \in Passwords, NEW at \in {"generate", "login"},
             Begin(t, b, at, n, password)
      PROVE  \E task \in Task : tasks' = [tasks EXCEPT ![t] = task] /\ Fits(task, users)
  <2> DEFINE task == [NoTask EXCEPT !.page = b, !.at = at, !.name = n, !.password = password]
  <2>1. task \in Task /\ Fits(task, users)
    BY DEF NoTask, Task, Stages, Fits
  <2> QED
    BY <1>1, <2>1 DEF Begin
<1>2. ASSUME NEW n \in Names, NEW password \in Passwords, PressRegister(t, b, n, password)
      PROVE  WebInv'
  <2>1. PICK task \in Task : tasks' = [tasks EXCEPT ![t] = task] /\ Fits(task, users)
    BY <1>1, <1>2 DEF PressRegister
  <2> DEFINE page == [S[b] EXCEPT !.suite = TRUE]
  <2>2. page \in Session /\ page.username = S[b].username
    BY DEF PagesTyped, Session
  <2>3. S' = [S EXCEPT ![b] = page] /\ UNCHANGED <<users, screen, fresh>> /\ KeysTyped'
    BY <1>2 DEF PressRegister, KeysTyped
  <2> HIDE DEF page
  <2> QED
    BY <2>1, <2>2, <2>3, PageStep
<1>3. ASSUME NEW n \in Names, NEW password \in Passwords, PressLogin(t, b, n, password)
      PROVE  WebInv'
  <2>1. PICK task \in Task : tasks' = [tasks EXCEPT ![t] = task] /\ Fits(task, users)
    BY <1>1, <1>3 DEF PressLogin
  <2> QED
    BY <1>3, <2>1, QuietStep DEF PressLogin, KeysTyped
<1>4. ASSUME NEW current \in Passwords, NEW new \in Passwords, PressChange(t, b, current, new)
      PROVE  WebInv'
  <2> DEFINE task == [NoTask EXCEPT !.page = b, !.at = "serialize", !.password = current,
                                    !.new = new, !.key = S[b].privateKey]
  <2>1. S[b].privateKey \in Keys
    BY <1>4 DEF PressChange, PagesTyped, Session
  <2>2. task \in Task /\ Fits(task, users)
    BY <2>1 DEF NoTask, Task, Stages, Fits
  <2>3. tasks' = [tasks EXCEPT ![t] = task]
    BY <1>4 DEF PressChange
  <2> HIDE DEF task
  <2> QED
    BY <1>4, <2>2, <2>3, QuietStep DEF PressChange, KeysTyped
<1> QED
  BY <1>2, <1>3, <1>4 DEF Press

LEMMA RegistrationSteps ==
  ASSUME WebInv, NEW t \in Tasks,
         Generated(t) \/ KeepKey(t) \/ Registers(t) \/ Verified(t) \/ EnterApp(t)
  PROVE  WebInv'
<1> USE TaskNow
<1> DEFINE task == tasks[t]
           b == task.page
<1>1. CASE Generated(t)
  <2>1. PICK k \in fresh : /\ fresh' = fresh \ {k}
                           /\ tasks' = [tasks EXCEPT ![t].at = "keep", ![t].key = k]
    BY <1>1 DEF Generated
  <2> DEFINE next == [task EXCEPT !.at = "keep", !.key = k]
  <2>2. next \in Task
    BY <2>1, TaskUpdates DEF Stages
  <2>3. tasks' = [tasks EXCEPT ![t] = next]
    BY <2>1
  <2>4. Fits(next, users)
    BY <1>1, <2>1 DEF Generated, At, Fits, Task
  <2> HIDE DEF next
  <2> QED
    BY <1>1, <2>1, <2>2, <2>3, <2>4, QuietStep DEF Generated, KeysTyped
<1>2. ASSUME NEW at \in Stages, Goes(t, at)
      PROVE  /\ [task EXCEPT !.at = at] \in Task
             /\ tasks' = [tasks EXCEPT ![t] = [task EXCEPT !.at = at]]
  BY <1>2, TaskUpdates DEF Goes
<1>3. CASE KeepKey(t)
  <2>1. Fits([task EXCEPT !.at = "register"], users)
    BY <1>3 DEF KeepKey, At, Fits, Task
  <2>2. task.name \in Names /\ b \in Browsers /\ Wrap(task.key, task.password) \in Wrapped
    BY <1>3, WrapOpens DEF KeepKey, At, Fits
  <2>3. KeysTyped'
    BY <1>3, <2>2, SavedKeysTyped DEF KeepKey, WebInv
  <2> QED
    BY <1>2, <1>3, <2>1, <2>3, QuietStep DEF KeepKey, Stages
<1>4. CASE Registers(t)
  <2>1. task.name \in Names /\ task.password \in Passwords /\ task.key \in Keys
    BY <1>4 DEF Registers, At, Fits
  <2>2. RowsKept /\ users'[task.name] # None
    BY <1>4, <2>1, RegisterKeepsRows DEF Registers, Registered
  <2>3. KeysTyped' /\ PagesTyped' /\ fresh' \subseteq Keys /\ TokensRegistered
    BY <1>4 DEF Registers, KeysTyped, PagesTyped, TokensRegistered
  <2>4. CASE Goes(t, "enter")
    <3>1. Fits([task EXCEPT !.at = "enter"], users')
      BY <1>4, <2>1, <2>2 DEF Registers, At, Fits, Task
    <3> QED
      BY <1>2, <2>2, <2>3, <2>4, <3>1, TaskStep DEF Stages
  <2>5. CASE Ends(t)
    BY <2>2, <2>3, <2>5, NoTaskFits, TaskStep DEF Ends
  <2> QED
    BY <1>4, <2>4, <2>5 DEF Registers
<1>5. CASE Verified(t)
  <2>1. Fits([task EXCEPT !.at = "entered"], users)
    BY <1>5 DEF Verified, At, Fits, Task
  <2> QED
    BY <1>2, <1>5, <2>1, QuietStep DEF Verified, Stages, KeysTyped
<1>6. CASE EnterApp(t)
  <2> DEFINE page == [S[b] EXCEPT !.username = task.name, !.privateKey = task.key,
                                  !.publicKey = TRUE]
  <2>1. b \in Browsers /\ task.name \in Names /\ task.key \in Keys /\ users[task.name] # None
    BY <1>6 DEF EnterApp, At, Fits
  <2>2. page \in Session /\ page.username = task.name
    BY <2>1 DEF PagesTyped, Session
  <2>3. S' = [S EXCEPT ![b] = page] /\ screen' = [screen EXCEPT ![b] = "app"] /\ Ends(t)
    BY <1>6 DEF EnterApp, ShowApp
  <2>4. KeysTyped' /\ UNCHANGED <<users, fresh>>
    BY <1>6 DEF EnterApp, KeysTyped
  <2> HIDE DEF page
  <2> QED
    BY <2>1, <2>2, <2>3, <2>4, NoTaskFits, PageStep DEF Ends
<1> QED
  BY <1>1, <1>3, <1>4, <1>5, <1>6

LEMMA LoginSteps ==
  ASSUME WebInv, NEW t \in Tasks,
         RowRead(t) \/ LoginAnswered(t) \/ Unlocked(t) \/ PrivateKeyRead(t) \/ PublicKeyRead(t)
  PROVE  WebInv'
<1> USE TaskNow
<1> DEFINE task == tasks[t]
           b == task.page
<1>b. b \in Browsers /\ UNCHANGED <<users, fresh>>
  BY DEF RowRead, LoginAnswered, Unlocked, PrivateKeyRead, PublicKeyRead, At
<1>g. ASSUME NEW at \in Stages, Goes(t, at)
      PROVE  /\ [task EXCEPT !.at = at] \in Task
             /\ tasks' = [tasks EXCEPT ![t] = [task EXCEPT !.at = at]]
  BY <1>g, TaskUpdates DEF Goes
<1>1. CASE RowRead(t)
  <2> DEFINE next == [task EXCEPT !.at = "answer", !.row = users[task.name]]
  <2>1. task.name \in Names /\ users[task.name] # None
    BY <1>1 DEF RowRead, At, Fits, Registered
  <2>2. users[task.name] \in UserRow /\ users[task.name].blob \in Wrapped
    BY <2>1
  <2>3. next \in Task
    BY <2>2, TaskUpdates DEF Stages
  <2>4. Fits(next, users)
    BY <1>1, <2>1, <2>2 DEF RowRead, At, Fits, Task
  <2>5. tasks' = [tasks EXCEPT ![t] = next]
    BY <1>1 DEF RowRead
  <2> HIDE DEF next
  <2> QED
    BY <1>1, <2>3, <2>4, <2>5, QuietStep DEF RowRead, KeysTyped
<1>2. CASE LoginAnswered(t)
  <2> DEFINE page == [S[b] EXCEPT !.username = task.name]
             next == [NoTask EXCEPT !.page = b, !.at = "unlock", !.key = KeyStoreFor(t).key]
  <2>1. task.name \in Names /\ users[task.name] # None /\ task.row.blob \in Wrapped
    BY <1>2 DEF LoginAnswered, At, Fits
  <2>2. KeyStoreFor(t) \in Wrapped
    BY <1>b, <2>1 DEF KeyStoreFor, KeysTyped
  <2>3. KeysTyped'
    BY <1>2, <1>b, <2>1, <2>2, SavedKeysTyped DEF LoginAnswered, WebInv
  <2>4. page \in Session /\ page.username = task.name
    BY <1>b, <2>1 DEF PagesTyped, Session
  <2>5. S' = [S EXCEPT ![b] = page] /\ screen' = screen
    BY <1>2 DEF LoginAnswered
  <2>6. next \in Task /\ Fits(next, users)
    BY <1>b, <2>2 DEF Wrapped, NoTask, Task, Stages, Fits
  <2>7. tasks' = [tasks EXCEPT ![t] = next] \/ tasks' = [tasks EXCEPT ![t] = NoTask]
    BY <1>2 DEF LoginAnswered, Ends
  <2> HIDE DEF page, next
  <2> QED
    BY <1>b, <2>1, <2>3, <2>4, <2>5, <2>6, <2>7, NoTaskFits, PageStep
<1>3. CASE Unlocked(t)
  <2> DEFINE page == [S[b] EXCEPT !.suite = TRUE]
  <2>1. page \in Session /\ page.username = S[b].username
    BY <1>b DEF PagesTyped, Session
  <2>2. S' = [S EXCEPT ![b] = page] /\ screen' = screen /\ KeysTyped'
    BY <1>3 DEF Unlocked, KeysTyped
  <2>3. Fits([task EXCEPT !.at = "private"], users)
    BY <1>3 DEF Unlocked, At, Fits, Task
  <2>4. /\ [task EXCEPT !.at = "private"] \in Task
        /\ tasks' = [tasks EXCEPT ![t] = [task EXCEPT !.at = "private"]]
    BY <1>3, <1>g DEF Unlocked, Stages
  <2> HIDE DEF page
  <2> QED
    BY <1>b, <2>1, <2>2, <2>3, <2>4, PageStep
<1>4. CASE PrivateKeyRead(t)
  <2> DEFINE page == [S[b] EXCEPT !.privateKey = task.key]
  <2>1. page \in Session /\ page.username = S[b].username
    BY <1>4, <1>b DEF PrivateKeyRead, At, Fits, PagesTyped, Session
  <2>2. S' = [S EXCEPT ![b] = page] /\ screen' = screen /\ KeysTyped'
    BY <1>4 DEF PrivateKeyRead, KeysTyped
  <2>3. Fits([task EXCEPT !.at = "public"], users)
    BY <1>4 DEF PrivateKeyRead, At, Fits, Task
  <2>4. Goes(t, "public") \/ Ends(t)
    BY <1>4 DEF PrivateKeyRead
  <2> HIDE DEF page
  <2>5. CASE Goes(t, "public")
    BY <1>b, <1>g, <2>1, <2>2, <2>3, <2>5, PageStep DEF Stages
  <2>6. CASE Ends(t)
    BY <1>b, <2>1, <2>2, <2>6, NoTaskFits, PageStep DEF Ends
  <2> QED
    BY <2>4, <2>5, <2>6
<1>5. CASE PublicKeyRead(t)
  <2> DEFINE page == [S[b] EXCEPT !.publicKey = TRUE]
  <2>1. page \in Session /\ page.username = S[b].username
    BY <1>b DEF PagesTyped, Session
  <2>2. /\ S' = [S EXCEPT ![b] = page] /\ screen' = [screen EXCEPT ![b] = "app"]
        /\ Ends(t) /\ KeysTyped'
    BY <1>5 DEF PublicKeyRead, ShowApp, KeysTyped
  <2> HIDE DEF page
  <2> QED
    BY <1>b, <2>1, <2>2, NoTaskFits, PageStep DEF Ends
<1> QED
  BY <1>1, <1>2, <1>3, <1>4, <1>5

LEMMA ChangeSteps ==
  ASSUME WebInv, NEW t \in Tasks,
         \/ Serialized(t) \/ SendChange(t) \/ ReadHash(t) \/ Update(t)
         \/ Unauthorized(t) \/ ChangeAnswered(t)
  PROVE  WebInv'
<1> USE TaskNow
<1> DEFINE task == tasks[t]
           b == task.page
<1>b. b \in Browsers /\ task.key \in Keys /\ task.new \in Passwords /\ fresh' = fresh
  BY DEF Serialized, SendChange, ReadHash, Update, Unauthorized, ChangeAnswered, At, Fits
<1>1. CASE Serialized(t)
  <2>1. [task EXCEPT !.at = "wrap"] \in Task
    BY TaskUpdates DEF Stages
  <2>2. Fits([task EXCEPT !.at = "wrap"], users)
    BY <1>1, <1>b DEF Serialized, At, Fits, Task
  <2> QED
    BY <1>1, <2>1, <2>2, QuietStep DEF Serialized, Goes, KeysTyped
<1>2. CASE SendChange(t)
  <2> DEFINE next == [task EXCEPT !.at = "asked", !.name = Page(t).username]
  <2>1. /\ Page(t).username \in Names \cup {None}
        /\ Page(t).username # None => users[Page(t).username] # None
    BY <1>b DEF Page, PagesTyped, Session, WebInv, WebTypeOK, Registered
  <2>2. next \in Task /\ tasks' = [tasks EXCEPT ![t] = next]
    BY <1>2, <2>1, TaskUpdates DEF SendChange, Stages
  <2>3. Fits(next, users)
    BY <1>b, <2>1 DEF Fits, Task
  <2> HIDE DEF next
  <2> QED
    BY <1>2, <2>2, <2>3, QuietStep DEF SendChange, KeysTyped
<1>3. CASE ReadHash(t)
  <2> DEFINE next == [task EXCEPT !.at = "verify", !.row = users[task.name]]
  <2>1. task.name \in Names /\ users[task.name] # None /\ users[task.name] \in UserRow
    BY <1>3 DEF ReadHash, At, Fits, Task
  <2>2. next \in Task /\ tasks' = [tasks EXCEPT ![t] = next]
    BY <1>3, <2>1, TaskUpdates DEF ReadHash, Stages
  <2>3. Fits(next, users)
    BY <1>b, <2>1 DEF Fits, Task
  <2> HIDE DEF next
  <2> QED
    BY <1>3, <2>2, <2>3, QuietStep DEF ReadHash, KeysTyped
<1>4. CASE Update(t)
  <2> DEFINE next == [NoTask EXCEPT !.page = b, !.at = "updated", !.new = task.new,
                                    !.key = task.key]
  <2>1. RowsKept
    BY <1>4, <1>b, UpdateKeepsRows DEF Update, At, Fits, Registered
  <2>2. next \in Task /\ Fits(next, users')
    BY <1>b DEF NoTask, Task, Stages, Fits
  <2>3. tasks' = [tasks EXCEPT ![t] = next]
    BY <1>4 DEF Update
  <2>4. KeysTyped' /\ PagesTyped' /\ TokensRegistered
    BY <1>4 DEF Update, KeysTyped, PagesTyped, TokensRegistered
  <2> HIDE DEF next
  <2> QED
    BY <1>b, <2>1, <2>2, <2>3, <2>4, TaskStep
<1>5. CASE Unauthorized(t)
  BY <1>5, <1>b, LoggedOutType, NoTaskFits, PageStep
     DEF Unauthorized, DoLogout, Ends, KeysTyped
<1>6. CASE ChangeAnswered(t)
  <2>1. KeysTyped'
    <3>1. CASE Page(t).username # None
      <4>1. Page(t).username \in Names
        BY <1>b, <3>1 DEF Page, PagesTyped, Session
      <4>2. SaveKeyStore(b, Page(t).username, Wrap(task.key, task.new))
        BY <1>6, <3>1 DEF ChangeAnswered
      <4> QED
        BY <1>b, <4>1, <4>2, WrapOpens, SavedKeysTyped DEF WebInv
    <3>2. CASE Page(t).username = None
      BY <1>6, <3>2 DEF ChangeAnswered, KeysTyped
    <3> QED
      BY <3>1, <3>2
  <2> QED
    BY <1>6, <2>1, EndStep DEF ChangeAnswered
<1> QED
  BY <1>1, <1>2, <1>3, <1>4, <1>5, <1>6

(* The steps that only end a handler.                                      *)
LEMMA Endings ==
  ASSUME WebInv, NEW t \in Tasks,
         Fails(t) \/ RequestFails(t) \/ WrongCurrent(t) \/ ChangeLost(t)
  PROVE  WebInv'
BY TaskNow, EndStep DEF Fails, RequestFails, WrongCurrent, ChangeLost, KeysTyped

LEMMA LogoutStep ==
  ASSUME WebInv, NEW b \in Browsers, Logout(b)
  PROVE  WebInv'
<1>1. /\ S' = [S EXCEPT ![b] = LoggedOut] /\ screen' = [screen EXCEPT ![b] = "left"]
      /\ UNCHANGED <<users, eb_key, tasks, fresh>>
  BY DEF Logout, DoLogout
<1>2. \A c \in Browsers : S'[c].username # None => S'[c].username = S[c].username
  BY <1>1, LoggedOutType DEF WebInv, WebTypeOK
<1>3. WebTypeOK'
  BY <1>1, <1>2, LoggedOutType DEF WebInv, WebTypeOK, AccountsTypeOK, Registered
<1> QED
  BY <1>1, <1>3 DEF WebInv, ServerCopyOpens, Registered

-----------------------------------------------------------------------------
LEMMA WebInvStutters == ASSUME WebInv, UNCHANGED webVars PROVE WebInv'
BY DEF webVars, WebInv, WebTypeOK, AccountsTypeOK, ServerCopyOpens, Registered

LEMMA WebInvHolds == Spec => []WebInv
<1>1. WebInv /\ [Next]_webVars => WebInv'
  BY PressSteps, RegistrationSteps, LoginSteps, ChangeSteps, Endings, LogoutStep, WebInvStutters
     DEF Next, Step
<1> QED
  BY <1>1, WebInvInitially, PTL DEF Spec

(***************************************************************************)
(* For any number of browsers, names and overlapping handlers: the tables, *)
(* the localStorages, the pages and the handlers keep their types, and the *)
(* token of a page is one of a registered account.                         *)
(***************************************************************************)
THEOREM WebTypeCorrectness == Spec => []WebTypeOK
<1>1. WebInv => WebTypeOK
  BY DEF WebInv
<1> QED
  BY <1>1, WebInvHolds, PTL

(***************************************************************************)
(* For any number of browsers and of overlapping changes of password: the  *)
(* password that logs in opens the key kept on the server.                 *)
(***************************************************************************)
THEOREM ServerCopyAlwaysOpens == Spec => []ServerCopyOpens
<1>1. WebInv => ServerCopyOpens
  BY DEF WebInv
<1> QED
  BY <1>1, WebInvHolds, PTL
=============================================================================
