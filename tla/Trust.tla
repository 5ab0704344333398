------------------------------- MODULE Trust -------------------------------
(***************************************************************************)
(* Trust on first use in the C++ client: the keys the server publishes,    *)
(* which their owners may rotate, the pinned_keys table of one store.db,   *)
(* and the processes that share it.  A command looks a peer's key up       *)
(* before it seals or opens a message (lookup_user), or replaces the pin   *)
(* after asking its user (confirm_rotation).                               *)
(***************************************************************************)
EXTENDS Naturals

CONSTANTS
  Peers,
  Keys,
  NoPin,        (* no row in pinned_keys, no key and no peer               *)
  Processes,    (* client processes that share the store                   *)
  MaxVersion    (* bound on key_version                                    *)

ASSUME TrustBounds == MaxVersion \in Nat \ {0}
ASSUME NoPinAssumption == NoPin \notin Peers \cup [key : Keys, version : Nat]

VARIABLES
  published,    (* users.public_key and key_version                        *)
  pinned,       (* pinned_keys                                             *)
  command       (* the lookup or confirmation each process is executing    *)

trustVars == <<published, pinned, command>>

Published == [key : Keys, version : 1 .. MaxVersion]

Pin == Published \cup {NoPin}

Prompt == [pc |-> "prompt", peer |-> NoPin, fetched |-> NoPin, old |-> NoPin]

Init ==
  /\ published \in [Peers -> { u \in Published : u.version = 1 }]
  /\ pinned = [n \in Peers |-> NoPin]
  /\ command = [p \in Processes |-> Prompt]

(* PUT /keys/update: any key, even the one before, and the next version.   *)
UpdateKey(n, key) ==
  /\ published[n].version < MaxVersion
  /\ published' = [published EXCEPT ![n] = [key |-> key, version |-> @.version + 1]]
  /\ UNCHANGED <<pinned, command>>

SavePin(n, user) == pinned' = [pinned EXCEPT ![n] = user]

Goto(p, pc) == command' = [command EXCEPT ![p].pc = pc]

-----------------------------------------------------------------------------
(* GET /keys/:username, for a lookup or for a confirmation.                *)
Fetch(p, n, pc) ==
  /\ command[p].pc = "prompt"
  /\ command' = [command EXCEPT ![p] = [pc |-> pc, peer |-> n,
                                        fetched |-> published[n], old |-> NoPin]]
  /\ UNCHANGED <<published, pinned>>

LookupUser(p, n) == Fetch(p, n, "lookup")
ConfirmRotation(p, n) == Fetch(p, n, "confirm")

(* lookup_or_pin: the pin is read; without one the fetched key is going to *)
(* be pinned, a pin with the same key is used, another aborts.             *)
FirstContact(p) ==
  /\ command[p].pc = "lookup"
  /\ pinned[command[p].peer] = NoPin
  /\ Goto(p, "pin")
  /\ UNCHANGED <<published, pinned>>

PinFetched(p) ==
  /\ command[p].pc = "pin"
  /\ SavePin(command[p].peer, command[p].fetched)
  /\ Goto(p, "use")
  /\ UNCHANGED published

SameKey(p) ==
  /\ pinned[command[p].peer] # NoPin
  /\ pinned[command[p].peer].key = command[p].fetched.key

AnyKeyMatches(p) ==                  (* mutant: no comparison of the keys  *)
  /\ command[p].pc = "lookup"
  /\ pinned[command[p].peer] # NoPin
  /\ Goto(p, "use")
  /\ UNCHANGED <<published, pinned>>
KeyMatches(p) ==
  /\ command[p].pc = "lookup"
  /\ SameKey(p)
  /\ Goto(p, "use")
  /\ UNCHANGED <<published, pinned>>

ChangedKeyIsPinned(p) ==             (* mutant: the pin follows the server *)
  /\ command[p].pc = "lookup"
  /\ pinned[command[p].peer] # NoPin
  /\ ~SameKey(p)
  /\ SavePin(command[p].peer, command[p].fetched)
  /\ Goto(p, "use")
  /\ UNCHANGED published
KeyChanged(p) ==
  /\ command[p].pc = "lookup"
  /\ pinned[command[p].peer] # NoPin
  /\ ~SameKey(p)
  /\ command' = [command EXCEPT ![p] = Prompt]
  /\ UNCHANGED <<published, pinned>>

(* The key returned by the lookup is the fetched one in either case: the   *)
(* message is sealed or opened with it.                                    *)
UseKey(p) ==
  /\ command[p].pc = "use"
  /\ command' = [command EXCEPT ![p] = Prompt]
  /\ UNCHANGED <<published, pinned>>

-----------------------------------------------------------------------------
(* confirm_rotation reads the pin too: without one it pins, with the same  *)
(* key there is nothing to do, otherwise both fingerprints are shown and   *)
(* the question is asked.                                                  *)
ConfirmFirst(p) ==
  /\ command[p].pc = "confirm"
  /\ pinned[command[p].peer] = NoPin
  /\ Goto(p, "first")
  /\ UNCHANGED <<published, pinned>>

SaveConfirmed(p, user) ==
  /\ SavePin(command[p].peer, user)
  /\ command' = [command EXCEPT ![p] = Prompt]
  /\ UNCHANGED published

PinFirst(p) == command[p].pc = "first" /\ SaveConfirmed(p, command[p].fetched)

NothingToConfirm(p) ==
  /\ command[p].pc = "confirm"
  /\ SameKey(p)
  /\ command' = [command EXCEPT ![p] = Prompt]
  /\ UNCHANGED <<published, pinned>>

Ask(p) ==
  /\ command[p].pc = "confirm"
  /\ pinned[command[p].peer] # NoPin
  /\ ~SameKey(p)
  /\ command' = [command EXCEPT ![p].pc = "asked", ![p].old = pinned[command[p].peer]]
  /\ UNCHANGED <<published, pinned>>

AnswerYes(p) == command[p].pc = "asked" /\ SaveConfirmed(p, command[p].fetched)

(* The answer is no; or any command fails or its process ends.             *)
GiveUp(p) ==
  /\ command[p].pc # "prompt"
  /\ command' = [command EXCEPT ![p] = Prompt]
  /\ UNCHANGED <<published, pinned>>

Step(p) ==
  \/ \E n \in Peers : LookupUser(p, n) \/ ConfirmRotation(p, n)
  \/ FirstContact(p) \/ PinFetched(p) \/ KeyMatches(p) \/ KeyChanged(p) \/ UseKey(p)
  \/ ConfirmFirst(p) \/ PinFirst(p) \/ NothingToConfirm(p) \/ Ask(p)
  \/ AnswerYes(p) \/ GiveUp(p)

Next ==
  \/ \E n \in Peers, key \in Keys : UpdateKey(n, key)
  \/ \E p \in Processes : Step(p)

Spec == Init /\ [][Next]_trustVars

(* One terminal at a time, as far as the store is concerned.               *)
OneProcess == \A p, q \in Processes : p = q

-----------------------------------------------------------------------------
CommandRecord ==
  [pc : {"prompt", "lookup", "pin", "use", "confirm", "first", "asked"},
   peer : Peers \cup {NoPin}, fetched : Pin, old : Pin]

(* A question is about a pin that there was.                               *)
TrustTypeOK ==
  /\ published \in [Peers -> Published]
  /\ pinned \in [Peers -> Pin]
  /\ command \in [Processes -> CommandRecord]
  /\ \A p \in Processes :
       /\ command[p].pc # "prompt" => command[p].peer \in Peers /\ command[p].fetched # NoPin
       /\ command[p].pc = "asked" => command[p].old # NoPin

(***************************************************************************)
(* cpp_client/README.md on trust on first use: first contact pins, and     *)
(* subsequent lookups must match or the operation aborts.  A command seals *)
(* or opens with no key but the pinned one.                                *)
(***************************************************************************)
UsedKeyIsPinned ==
  \A p \in Processes :
    command[p].pc = "use"
      => /\ pinned[command[p].peer] # NoPin
         /\ pinned[command[p].peer].key = command[p].fetched.key

(***************************************************************************)
(* docs/protocol.draft.md on trust: only an explicit confirmation replaces *)
(* a pinned key, and by the key whose fingerprint was shown, whatever is   *)
(* published meanwhile.                                                    *)
(***************************************************************************)
PinsChangeByConfirmation ==
  [][\A n \in Peers :
       pinned[n] # NoPin /\ pinned'[n] # pinned[n]
         => \E p \in Processes :
              /\ command[p].pc = "asked"
              /\ command[p].peer = n
              /\ command[p].old = pinned[n]
              /\ command[p].fetched = pinned'[n]]_trustVars
=============================================================================
