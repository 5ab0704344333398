------------------------------ MODULE Accounts ------------------------------
(***************************************************************************)
(* The users table and what /auth does with it.  A password hash is the    *)
(* password it verifies; a key stands for a key pair, and a key wrapped    *)
(* under a password is the record of the two.                              *)
(***************************************************************************)
CONSTANTS
  Names,        (* usernames                                               *)
  Passwords,
  Keys,         (* key pairs                                               *)
  None          (* NULL, and no key at all                                 *)

VARIABLE users  (* a row per registered username                           *)

Wrapped == [key : Keys, password : Passwords]

UserRow == [password : Passwords, public_key : Keys, blob : Wrapped \cup {None}]

ASSUME NoneAssumption ==
  None \notin Names \cup Passwords \cup Keys \cup Wrapped \cup UserRow

Wrap(key, password) == [key |-> key, password |-> password]

Opens(wrapped, password) == wrapped # None /\ wrapped.password = password

Registered(n) == users[n] # None

(* argon2.verify against a row read earlier.                               *)
Verifies(row, password) == row # None /\ row.password = password

AccountsInit == users = [n \in Names |-> None]

AccountsTypeOK == users \in [Names -> UserRow \cup {None}]

(* POST /auth/register: one INSERT, which UNIQUE(username) refuses.        *)
Register(n, password, key, blob) ==
  /\ ~Registered(n)
  /\ users' = [users EXCEPT ![n] =
                 [password |-> password, public_key |-> key, blob |-> blob]]

(* The UPDATE of PATCH /auth/password, by id, whatever the hash is by now. *)
UpdateKeepsBlob(n, password, blob) ==   (* mutant: COALESCE the other way  *)
  users' = [users EXCEPT ![n].password = password,
                         ![n].blob = IF @ = None THEN blob ELSE @]
UpdatePassword(n, password, blob) ==
  users' = [users EXCEPT ![n].password = password,
                         ![n].blob = IF blob = None THEN @ ELSE blob]
=============================================================================
