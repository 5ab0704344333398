------------------------------- MODULE Replica -------------------------------
(***************************************************************************)
(* What a client promises its user, Me, about the copies it keeps of the   *)
(* messages in their boxes, with no commands, requests or processes.  A    *)
(* message gets a copy once, when it exists; the copy is put out of sight  *)
(* only when the message is not in the box of Me, and loses its text only  *)
(* when the message was recalled; both are for ever.  The boxes change     *)
(* meanwhile as Mailbox says, and never together with a copy: the copies   *)
(* lag behind the boxes, and contradict them nowhere.                      *)
(***************************************************************************)
EXTENDS Mailbox

CONSTANT Me

VARIABLES
  held,    (* the messages that have a copy                                *)
  buried,  (* those whose copy is out of sight                             *)
  erased   (* those whose copy has no text                                 *)

copyVars == <<held, buried, erased>>
replicaVars == <<mailVars, copyVars>>

ReplicaInit ==
  /\ Init
  /\ held = {}
  /\ buried = {}
  /\ erased = {}

Keep(m) ==
  /\ author[m] # NoUser
  /\ m \notin held
  /\ held' = held \cup {m}
  /\ UNCHANGED <<buried, erased>>

Bury(m) ==
  /\ m \in held \ buried
  /\ m \notin box[Me]
  /\ buried' = buried \cup {m}
  /\ UNCHANGED <<held, erased>>

Erase(m) ==
  /\ m \in held \ erased
  /\ \E call \in recalled : call[1] = m
  /\ erased' = erased \cup {m}
  /\ UNCHANGED <<held, buried>>

ReplicaNext ==
  \/ Next /\ UNCHANGED copyVars
  \/ \E m \in MsgIds : (Keep(m) \/ Bury(m) \/ Erase(m)) /\ UNCHANGED mailVars

ReplicaSpec == ReplicaInit /\ [][ReplicaNext]_replicaVars
=============================================================================
