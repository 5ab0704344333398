--------------------------- MODULE ClientSession ---------------------------
(***************************************************************************)
(* Signup, login and logout of the C++ client: the processes that share    *)
(* the keys.bin of one machine, and accounts registered on other machines. *)
(* A request may fail before or after the server has acted on it, and a    *)
(* process may be killed while it writes the file.                         *)
(***************************************************************************)
EXTENDS Accounts, Naturals

CONSTANTS
  Processes,    (* client processes of this machine                        *)
  Partial,      (* keys.bin truncated, or not written to the end           *)
  MaxSignups,   (* bound on signups on this machine                        *)
  MaxFaults     (* bound on requests lost and processes killed             *)

ASSUME SessionBounds == MaxSignups \in Nat /\ MaxFaults \in Nat
ASSUME PartialAssumption == Partial # None /\ Partial \notin Wrapped

VARIABLES
  keys_bin,     (* None while there is no such file                        *)
  command,      (* the signup or login that each process is executing      *)
  session,      (* the fields of Client: token, user_id_, username_,       *)
                (* session_sk_ and logged_in_                              *)
  here,         (* key pairs generated on this machine                     *)
  told,         (* usernames for which a signup here was answered with 201 *)
  signups, faults

sessionVars == <<users, keys_bin, command, session, here, told, signups, faults>>

NoSession ==
  [token |-> None, user_id |-> None, username |-> None, sk |-> None, logged_in |-> FALSE]

Prompt == [pc |-> "prompt", name |-> None, password |-> None, key |-> None]

SessionInit ==
  /\ AccountsInit
  /\ keys_bin = None
  /\ command = [p \in Processes |-> Prompt]
  /\ session = [p \in Processes |-> NoSession]
  /\ here = {}
  /\ told = {}
  /\ signups = 0
  /\ faults = 0

Fault == faults < MaxFaults /\ faults' = faults + 1

Return(p) == command' = [command EXCEPT ![p] = Prompt]

Unused == Keys \ (here \cup { users[n].public_key : n \in { m \in Names : Registered(m) } })

(* A registration on another machine.                                      *)
RegisterElsewhere(n, password) ==
  /\ \E k \in Unused : Register(n, password, k, None)
  /\ UNCHANGED <<keys_bin, command, session, here, told, signups, faults>>

-----------------------------------------------------------------------------
(* Client::signup.  Keystore::save opens the file with O_TRUNC and then    *)
(* writes it; the request is sent once it is written.                      *)
StartSignup(p, n, password, key) ==
  /\ command[p].pc = "prompt"
  /\ signups < MaxSignups
  /\ key \in Unused
  /\ here' = here \cup {key}
  /\ signups' = signups + 1
  /\ UNCHANGED <<users, session, told, faults>>

SignupUnsaved(p, n, password, key) ==    (* mutant: keystore_.save is gone *)
  /\ StartSignup(p, n, password, key)
  /\ command' = [command EXCEPT ![p] = [pc |-> "post", name |-> n,
                                        password |-> password, key |-> key]]
  /\ UNCHANGED keys_bin
Signup(p, n, password, key) ==
  /\ StartSignup(p, n, password, key)
  /\ keys_bin' = Partial
  /\ command' = [command EXCEPT ![p] = [pc |-> "write", name |-> n,
                                        password |-> password, key |-> key]]

WriteKeystore(p) ==
  /\ command[p].pc = "write"
  /\ keys_bin' = Wrap(command[p].key, command[p].password)
  /\ command' = [command EXCEPT ![p].pc = "post"]
  /\ UNCHANGED <<users, session, here, told, signups, faults>>

PostRegister(p) ==
  /\ command[p].pc = "post"
  /\ \/ /\ Register(command[p].name, command[p].password, command[p].key, None)
        /\ told' = told \cup {command[p].name}
     \/ Registered(command[p].name) /\ UNCHANGED <<users, told>>
  /\ Return(p)
  /\ UNCHANGED <<keys_bin, session, here, signups, faults>>

-----------------------------------------------------------------------------
(* Client::login.  It is refused while there is no file, not while someone *)
(* is logged in; token and user id are those of the new user before the    *)
(* key has been unwrapped.                                                 *)
Login(p, n, password) ==
  /\ command[p].pc = "prompt"
  /\ keys_bin # None
  /\ Verifies(users[n], password)
  /\ session' = [session EXCEPT ![p].token = n, ![p].user_id = n]
  /\ command' = [command EXCEPT ![p] = [pc |-> "unlock", name |-> n,
                                        password |-> password, key |-> None]]
  /\ UNCHANGED <<users, keys_bin, here, told, signups, faults>>

Unlocks(password) == keys_bin # Partial /\ Opens(keys_bin, password)

Unlock(p) ==
  /\ command[p].pc = "unlock"
  /\ Unlocks(command[p].password)
  /\ session' = [session EXCEPT ![p].sk = keys_bin.key,
                                ![p].username = command[p].name,
                                ![p].logged_in = TRUE]
  /\ Return(p)
  /\ UNCHANGED <<users, keys_bin, here, told, signups, faults>>

(* The keystore is unreadable, or the password does not open it: load or   *)
(* unwrap_key throws and the prompt comes back.                            *)
UnlockFails(p) ==
  /\ command[p].pc = "unlock"
  /\ ~Unlocks(command[p].password)
  /\ Return(p)
  /\ UNCHANGED <<users, keys_bin, session, here, told, signups, faults>>

LogoutKeepsToken(p) ==               (* mutant: set_bearer_token("") gone  *)
  /\ command[p].pc = "prompt"
  /\ session[p].logged_in
  /\ session' = [session EXCEPT ![p] = [NoSession EXCEPT !.token = session[p].token]]
  /\ UNCHANGED <<users, keys_bin, command, here, told, signups, faults>>
Logout(p) ==
  /\ command[p].pc = "prompt"
  /\ session[p].logged_in
  /\ session' = [session EXCEPT ![p] = NoSession]
  /\ UNCHANGED <<users, keys_bin, command, here, told, signups, faults>>

-----------------------------------------------------------------------------
(* The register request is lost, or its answer is.                         *)
RegisterLost(p) ==
  /\ command[p].pc = "post"
  /\ \/ Register(command[p].name, command[p].password, command[p].key, None)
     \/ UNCHANGED users
  /\ Return(p)
  /\ Fault
  /\ UNCHANGED <<keys_bin, session, here, told, signups>>

(* The process is killed; its session is in memory only.                   *)
Kill(p) ==
  /\ command[p].pc # "prompt"
  /\ Return(p)
  /\ session' = [session EXCEPT ![p] = NoSession]
  /\ Fault
  /\ UNCHANGED <<users, keys_bin, here, told, signups>>

SessionNext ==
  \/ \E n \in Names, password \in Passwords : RegisterElsewhere(n, password)
  \/ \E p \in Processes :
       \/ \E n \in Names, password \in Passwords, key \in Keys :
            Signup(p, n, password, key)
       \/ \E n \in Names, password \in Passwords : Login(p, n, password)
       \/ WriteKeystore(p) \/ PostRegister(p) \/ RegisterLost(p)
       \/ Unlock(p) \/ UnlockFails(p) \/ Logout(p) \/ Kill(p)

SessionSpec == SessionInit /\ [][SessionNext]_sessionVars

-----------------------------------------------------------------------------
CommandRecord ==
  [pc : {"prompt", "write", "post", "unlock"}, name : Names \cup {None},
   password : Passwords \cup {None}, key : Keys \cup {None}]

SessionRecord ==
  [token : Names \cup {None}, user_id : Names \cup {None}, username : Names \cup {None},
   sk : Keys \cup {None}, logged_in : BOOLEAN]

(* The request's token and the sender id of the envelope are one user's,   *)
(* and a process that is logged in has a key.                              *)
SessionTypeOK ==
  /\ AccountsTypeOK
  /\ keys_bin \in Wrapped \cup {None, Partial}
  /\ command \in [Processes -> CommandRecord]
  /\ session \in [Processes -> SessionRecord]
  /\ here \subseteq Keys
  /\ told \subseteq Names
  /\ signups \in 0 .. MaxSignups
  /\ faults \in 0 .. MaxFaults
  /\ \A p \in Processes :
       /\ session[p].token = session[p].user_id
       /\ session[p].logged_in => session[p].sk # None /\ session[p].token # None

PublishedFrom(n) == Registered(n) /\ users[n].public_key \in here

(***************************************************************************)
(* The order of Client::signup, file before request: of one signup on a    *)
(* machine the key is in the file whatever answers are lost and wherever   *)
(* the process is killed.                                                  *)
(***************************************************************************)
PublishedKeyRecoverable ==
  \A n \in Names :
    PublishedFrom(n) => keys_bin = Wrap(users[n].public_key, users[n].password)

(***************************************************************************)
(* The comment in Client.cpp on signup: a lost response never leaves a     *)
(* published public key with no recoverable private key.  The user who was *)
(* not told that the account exists may well try again.                    *)
(***************************************************************************)
LostResponseRecoverable ==
  (\A p \in Processes : command[p].pc = "prompt")
    => \A n \in Names \ told :
         PublishedFrom(n) => keys_bin = Wrap(users[n].public_key, users[n].password)
=============================================================================
