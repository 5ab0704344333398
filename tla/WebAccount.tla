----------------------------- MODULE WebAccount -----------------------------
(***************************************************************************)
(* Registration, login and change of password of the web app: browsers,    *)
(* each with its localStorage and one page, and the requests of /auth.     *)
(* A handler of a page is one step from each await to the next.  Nothing   *)
(* keeps two from overlapping (Enter starts another while the button is    *)
(* disabled), and a 401 of any request resets the page between two of      *)
(* their steps.  The answer of a request may be lost after the server has  *)
(* acted on it.                                                            *)
(***************************************************************************)
EXTENDS Accounts

CONSTANTS
  Browsers,
  Tasks         (* bound on handlers under way at once, on all pages       *)

ASSUME WebBounds == None \notin Browsers

VARIABLES
  eb_key,   (* localStorage: the key pair kept for each username, wrapped  *)
  S,        (* the page's object of that name: its token is its username's, *)
            (* and of suite and publicKey what counts is if they are set   *)
  screen,   (* what the page shows: "auth", "app", or "left", that is auth *)
            (* after the app, of which requests may still be unanswered    *)
  tasks,    (* doLogin, doRegister and doChangePassword: the await each    *)
            (* is at, and what it has captured                             *)
  fresh     (* key pairs nobody has generated                              *)

webVars == <<users, eb_key, S, screen, tasks, fresh>>

LoggedOut == [username |-> None, suite |-> FALSE, privateKey |-> None, publicKey |-> FALSE]

NoTask ==
  [page |-> None, at |-> "none", name |-> None, password |-> None, new |-> None,
   key |-> None, row |-> None]

Init ==
  /\ AccountsInit
  /\ eb_key = [b \in Browsers |-> [n \in Names |-> None]]
  /\ S = [b \in Browsers |-> LoggedOut]
  /\ screen = [b \in Browsers |-> "auth"]
  /\ tasks = [t \in Tasks |-> NoTask]
  /\ fresh = Keys

At(t, at) == tasks[t].at = at

Page(t) == S[tasks[t].page]

SaveKeyStore(b, n, wrapped) == eb_key' = [eb_key EXCEPT ![b][n] = wrapped]

Begin(t, b, at, n, password) ==
  /\ At(t, "none")
  /\ tasks' = [tasks EXCEPT ![t] =
       [NoTask EXCEPT !.page = b, !.at = at, !.name = n, !.password = password]]

Goes(t, at) == tasks' = [tasks EXCEPT ![t].at = at]

Ends(t) == tasks' = [tasks EXCEPT ![t] = NoTask]

ShowApp(t) ==
  /\ screen' = [screen EXCEPT ![tasks[t].page] = "app"]
  /\ Ends(t)

DoLogout(b) ==
  /\ S' = [S EXCEPT ![b] = LoggedOut]
  /\ screen' = [screen EXCEPT ![b] = "left"]

-----------------------------------------------------------------------------
(* doRegister: a suite, a fresh key pair that needs the suite to be        *)
(* serialized, wrapped and kept under the name before the server is asked; *)
(* then the registration, and a login that uses the key at hand.           *)
PressRegister(t, b, n, password) ==
  /\ screen[b] # "app"
  /\ Begin(t, b, "generate", n, password)
  /\ S' = [S EXCEPT ![b].suite = TRUE]
  /\ UNCHANGED <<users, eb_key, screen, fresh>>

Generated(t) ==
  /\ At(t, "generate")
  /\ Page(t).suite
  /\ \E k \in fresh :
       /\ fresh' = fresh \ {k}
       /\ tasks' = [tasks EXCEPT ![t].at = "keep", ![t].key = k]
  /\ UNCHANGED <<users, eb_key, S, screen>>

KeepKey(t) ==
  /\ At(t, "keep")
  /\ SaveKeyStore(tasks[t].page, tasks[t].name, Wrap(tasks[t].key, tasks[t].password))
  /\ Goes(t, "register")
  /\ UNCHANGED <<users, S, screen, fresh>>

(* The answer comes, or is lost.                                           *)
Registers(t) ==
  /\ At(t, "register")
  /\ Register(tasks[t].name, tasks[t].password, tasks[t].key,
              Wrap(tasks[t].key, tasks[t].password))
  /\ Goes(t, "enter") \/ Ends(t)
  /\ UNCHANGED <<eb_key, S, screen, fresh>>

(* The login that follows: POST /auth/login, as below.                     *)
Verified(t) ==
  /\ At(t, "enter")
  /\ Verifies(users[tasks[t].name], tasks[t].password)
  /\ Goes(t, "entered")
  /\ UNCHANGED <<users, eb_key, S, screen, fresh>>

(* The suite is not set again: a 401 since the press leaves a page with    *)
(* the keys and without it.                                                *)
EnterUnchecked(t) ==         (* mutant: whatever the login has answered    *)
  /\ At(t, "register")
  /\ S' = [S EXCEPT ![tasks[t].page].username = tasks[t].name,
                    ![tasks[t].page].privateKey = tasks[t].key,
                    ![tasks[t].page].publicKey = TRUE]
  /\ ShowApp(t)
  /\ UNCHANGED <<users, eb_key, fresh>>
EnterApp(t) ==
  /\ At(t, "entered")
  /\ S' = [S EXCEPT ![tasks[t].page].username = tasks[t].name,
                    ![tasks[t].page].privateKey = tasks[t].key,
                    ![tasks[t].page].publicKey = TRUE]
  /\ ShowApp(t)
  /\ UNCHANGED <<users, eb_key, fresh>>

-----------------------------------------------------------------------------
(* POST /auth/login: the row is read, the password verified against it,    *)
(* and the blob of that row sent back.                                     *)
PressLogin(t, b, n, password) ==
  /\ screen[b] # "app"
  /\ Begin(t, b, "login", n, password)
  /\ UNCHANGED <<users, eb_key, S, screen, fresh>>

RowRead(t) ==
  /\ At(t, "login")
  /\ Registered(tasks[t].name)
  /\ tasks' = [tasks EXCEPT ![t].at = "answer", ![t].row = users[tasks[t].name]]
  /\ UNCHANGED <<users, eb_key, S, screen, fresh>>

(* doLogin goes on: the key kept in this browser first, the server's only  *)
(* where there is none, which is then kept here.  Where it does not open,  *)
(* the handler ends and the page keeps the token.                          *)
KeyStoreFor(t) ==
  LET kept == eb_key[tasks[t].page][tasks[t].name]
  IN  IF kept # None THEN kept ELSE tasks[t].row.blob

LoginAnswered(t) ==
  /\ At(t, "answer")
  /\ Verifies(tasks[t].row, tasks[t].password)
  /\ SaveKeyStore(tasks[t].page, tasks[t].name, KeyStoreFor(t))
  /\ S' = [S EXCEPT ![tasks[t].page].username = tasks[t].name]
  /\ IF Opens(KeyStoreFor(t), tasks[t].password)
     THEN tasks' = [tasks EXCEPT ![t] = [NoTask EXCEPT !.page = tasks[t].page, !.at = "unlock",
                                                       !.key = KeyStoreFor(t).key]]
     ELSE Ends(t)
  /\ UNCHANGED <<users, screen, fresh>>

(* The key is unwrapped; the suite is made and used in one step.           *)
Unlocked(t) ==
  /\ At(t, "unlock")
  /\ S' = [S EXCEPT ![tasks[t].page].suite = TRUE]
  /\ Goes(t, "private")
  /\ UNCHANGED <<users, eb_key, screen, fresh>>

(* The private key is there, behind the login screen; the public one needs *)
(* the suite, which a 401 may have taken away again.                       *)
PrivateKeyRead(t) ==
  /\ At(t, "private")
  /\ S' = [S EXCEPT ![tasks[t].page].privateKey = tasks[t].key]
  /\ IF Page(t).suite THEN Goes(t, "public") ELSE Ends(t)
  /\ UNCHANGED <<users, eb_key, screen, fresh>>

(* The app is shown, whoever is logged in by now, or nobody.               *)
PublicKeyRead(t) ==
  /\ At(t, "public")
  /\ S' = [S EXCEPT ![tasks[t].page].publicKey = TRUE]
  /\ ShowApp(t)
  /\ UNCHANGED <<users, eb_key, fresh>>

(* The suite, or the public key, is gone when it is needed next.           *)
Fails(t) ==
  /\ \/ At(t, "generate") /\ ~Page(t).suite
     \/ At(t, "serialize") /\ ~(Page(t).suite /\ Page(t).publicKey)
  /\ Ends(t)
  /\ UNCHANGED <<users, eb_key, S, screen, fresh>>

(* A request of a registration or of a login fails or is refused: the name *)
(* is taken, the name or the password is wrong, the network, a 500.        *)
RequestFails(t) ==
  /\ \E at \in {"register", "enter", "entered", "login", "answer"} : At(t, at)
  /\ Ends(t)
  /\ UNCHANGED <<users, eb_key, S, screen, fresh>>

(* doLogout, by the button, or by a 401 that answers any request the page  *)
(* has sent since it first showed the app, whatever it is doing by now.    *)
Logout(b) ==
  /\ screen[b] # "auth"
  /\ DoLogout(b)
  /\ UNCHANGED <<users, eb_key, tasks, fresh>>

-----------------------------------------------------------------------------
(* doChangePassword: the keys in memory are serialized one after the other *)
(* and wrapped under the new password; its modal outlives the app.         *)
PressChange(t, b, current, new) ==
  /\ screen[b] # "auth"
  /\ current # new
  /\ S[b].suite /\ S[b].privateKey # None
  /\ At(t, "none")
  /\ tasks' = [tasks EXCEPT ![t] =
       [NoTask EXCEPT !.page = b, !.at = "serialize", !.password = current, !.new = new,
                      !.key = S[b].privateKey]]
  /\ UNCHANGED <<users, eb_key, S, screen, fresh>>

Serialized(t) ==
  /\ At(t, "serialize")
  /\ Page(t).suite /\ Page(t).publicKey
  /\ Goes(t, "wrap")
  /\ UNCHANGED <<users, eb_key, S, screen, fresh>>

(* Sent with the token there is by now; the server takes its name for the  *)
(* account, and without one refuses.                                       *)
SendChange(t) ==
  /\ At(t, "wrap")
  /\ tasks' = [tasks EXCEPT ![t].at = "asked", ![t].name = Page(t).username]
  /\ UNCHANGED <<users, eb_key, S, screen, fresh>>

(* PATCH /auth/password reads the hash, verifies the current password      *)
(* against it, hashes the new one and updates the row.                     *)
ReadHash(t) ==
  /\ At(t, "asked")
  /\ tasks[t].name # None
  /\ tasks' = [tasks EXCEPT ![t].at = "verify", ![t].row = users[tasks[t].name]]
  /\ UNCHANGED <<users, eb_key, S, screen, fresh>>

WrongCurrent(t) ==
  /\ At(t, "verify")
  /\ ~Verifies(tasks[t].row, tasks[t].password)
  /\ Ends(t)
  /\ UNCHANGED <<users, eb_key, S, screen, fresh>>

Update(t) ==
  /\ At(t, "verify")
  /\ Verifies(tasks[t].row, tasks[t].password)
  /\ UpdatePassword(tasks[t].name, tasks[t].new, Wrap(tasks[t].key, tasks[t].new))
  /\ tasks' = [tasks EXCEPT ![t] = [NoTask EXCEPT !.page = tasks[t].page, !.at = "updated",
                                                  !.new = tasks[t].new, !.key = tasks[t].key]]
  /\ UNCHANGED <<eb_key, S, screen, fresh>>

(* No token, or one that has expired: the page is logged out.              *)
Unauthorized(t) ==
  /\ At(t, "asked")
  /\ DoLogout(tasks[t].page)
  /\ Ends(t)
  /\ UNCHANGED <<users, eb_key, fresh>>

(* The answer arrives: the new wrapper is kept under S.username, which is  *)
(* null or another's after a logout meanwhile.                             *)
ChangeAnswered(t) ==
  /\ At(t, "updated")
  /\ IF Page(t).username # None
     THEN SaveKeyStore(tasks[t].page, Page(t).username, Wrap(tasks[t].key, tasks[t].new))
     ELSE UNCHANGED eb_key
  /\ Ends(t)
  /\ UNCHANGED <<users, S, screen, fresh>>

ChangeLost(t) ==
  /\ At(t, "asked") \/ At(t, "updated")
  /\ Ends(t)
  /\ UNCHANGED <<users, eb_key, S, screen, fresh>>

-----------------------------------------------------------------------------
Step(t) ==
  \/ Generated(t) \/ KeepKey(t) \/ Registers(t) \/ Verified(t) \/ EnterApp(t)
  \/ RowRead(t) \/ LoginAnswered(t)
  \/ Unlocked(t) \/ PrivateKeyRead(t) \/ PublicKeyRead(t)
  \/ Fails(t) \/ RequestFails(t)
  \/ Serialized(t) \/ SendChange(t) \/ ReadHash(t) \/ WrongCurrent(t) \/ Update(t)
  \/ Unauthorized(t) \/ ChangeAnswered(t) \/ ChangeLost(t)

Press(t, b) ==
  \/ \E n \in Names, password \in Passwords :
       PressRegister(t, b, n, password) \/ PressLogin(t, b, n, password)
  \/ \E current, new \in Passwords : PressChange(t, b, current, new)

Next ==
  \/ \E t \in Tasks : Step(t) \/ \E b \in Browsers : Press(t, b)
  \/ \E b \in Browsers : Logout(b)

Spec == Init /\ [][Next]_webVars

-----------------------------------------------------------------------------
Session ==
  [username : Names \cup {None}, suite : BOOLEAN,
   privateKey : Keys \cup {None}, publicKey : BOOLEAN]

Stages ==
  {"none", "generate", "keep", "register", "enter", "entered", "login", "answer", "unlock",
   "private", "public", "serialize", "wrap", "asked", "verify", "updated"}

Task ==
  [page : Browsers \cup {None}, at : Stages, name : Names \cup {None},
   password : Passwords \cup {None}, new : Passwords \cup {None},
   key : Keys \cup {None}, row : UserRow \cup {None}]

(* The types, and that a page has a token only of an account there is: it  *)
(* is set after the server has answered, however handlers overlap.         *)
WebTypeOK ==
  /\ AccountsTypeOK
  /\ eb_key \in [Browsers -> [Names -> Wrapped \cup {None}]]
  /\ S \in [Browsers -> Session]
  /\ screen \in [Browsers -> {"auth", "app", "left"}]
  /\ tasks \in [Tasks -> Task]
  /\ fresh \subseteq Keys
  /\ \A b \in Browsers : S[b].username # None => Registered(S[b].username)

(***************************************************************************)
(* The comment in app.js on the PATCH, "password hash + re-wrapped key     *)
(* blob in one call": whatever changes overlap, whoever is logged in when  *)
(* one is sent and whatever answers are lost, the password that logs in    *)
(* also opens the key kept on the server.                                  *)
(***************************************************************************)
ServerCopyOpens ==
  \A n \in Names : Registered(n) => Opens(users[n].blob, users[n].password)
=============================================================================
