------------------------------- MODULE Mailbox -------------------------------
(***************************************************************************)
(* What the messaging service promises its users, with no tables, requests *)
(* or transactions: a message appears for its author and one other user at *)
(* the same moment, each of them can take it out of their own box only,    *)
(* its author, once, out of everybody's, and nothing else ever changes a   *)
(* box.  A message that has left a box never comes back.                   *)
(***************************************************************************)
CONSTANTS Users, MsgIds, NoUser

VARIABLES
  box,      (* box[u] is the set of messages that u is shown               *)
  author,   (* author[m] wrote m; NoUser while m does not exist            *)
  recalled  (* <<m, u>> : u has recalled m                                 *)

mailVars == <<box, author, recalled>>

Init ==
  /\ box = [u \in Users |-> {}]
  /\ author = [m \in MsgIds |-> NoUser]
  /\ recalled = {}

Deliver(m, from, to) ==
  /\ author[m] = NoUser
  /\ from # to
  /\ author' = [author EXCEPT ![m] = from]
  /\ box' = [u \in Users |-> IF u \in {from, to} THEN box[u] \cup {m} ELSE box[u]]
  /\ UNCHANGED recalled

Discard(m, u) ==
  /\ m \in box[u]
  /\ box' = [box EXCEPT ![u] = box[u] \ {m}]
  /\ UNCHANGED <<author, recalled>>

Recall(m) ==
  /\ author[m] # NoUser
  /\ \A call \in recalled : call[1] # m
  /\ recalled' = recalled \cup {<<m, author[m]>>}
  /\ box' = [u \in Users |-> box[u] \ {m}]
  /\ UNCHANGED author

Next ==
  \E m \in MsgIds :
    \/ \E from, to \in Users : Deliver(m, from, to)
    \/ \E u \in Users : Discard(m, u)
    \/ Recall(m)

Spec == Init /\ [][Next]_mailVars
=============================================================================
