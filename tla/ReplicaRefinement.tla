-------------------------- MODULE ReplicaRefinement --------------------------
(***************************************************************************)
(* The C++ client's processes, whatever they interleave, lose or abandon,  *)
(* keep the copies that Replica specifies.  The server they talk to keeps  *)
(* the mailboxes that MessageRefinement shows the handlers to keep.        *)
(***************************************************************************)
EXTENDS ClientSync

(* As in MessageRefinement: a box is what GET /messages lists.             *)
Box == [u \in Users |-> Listed(u, "all")]

Author == [m \in MsgIds |-> IF Stored(m) THEN messages[m].sender_id ELSE NoMessage]

Recalled == { <<r.message_id, r.revoked_by>> : r \in revocations }

(* A copy is a row of store.db, whatever its columns say.                  *)
Held   == { m \in MsgIds : store[m].row }
Buried == { m \in MsgIds : store[m].deleted }
Erased == { m \in Held : ~store[m].plaintext }

R == INSTANCE Replica WITH
       NoUser <- NoMessage, box <- Box, author <- Author, recalled <- Recalled,
       held <- Held, buried <- Buried, erased <- Erased

(***************************************************************************)
(* The comment in LocalStore.cpp on save_message, re-saving never          *)
(* resurrects a deleted or revoked row, and more: no statement of any      *)
(* process changes two copies, gives a copy to a message that was never    *)
(* sent, or marks one that the server does not back, although the answers  *)
(* it acts on are old, lost or overtaken by another process.               *)
(***************************************************************************)
ImplementsReplica == R!ReplicaSpec
=============================================================================
