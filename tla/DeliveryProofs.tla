--------------------------- MODULE DeliveryProofs ---------------------------
(***************************************************************************)
(* What is proved of trust on first use (module Trust): its types, and,    *)
(* when one process has the store to itself, that no other key than the    *)
(* pinned one is ever used and that only a confirmation replaces a pin.    *)
(* Then of the client's cryptography (module Envelope), that a client that *)
(* sends and syncs keeps to trust on first use (Delivery implements        *)
(* Trust), and, again for one process, that what is saved is authentic,    *)
(* that nothing that opens is skipped, and that every message is sealed    *)
(* for the pinned key.                                                     *)
(***************************************************************************)
EXTENDS Delivery, TLAPS

(***************************************************************************)
(* The types are inductive: whatever is between two statements of a        *)
(* command, the tables hold what the schema says and a command in progress *)
(* has fetched a key.                                                      *)
(***************************************************************************)
LEMMA TrustTypesInductive ==
  ASSUME TrustTypeOK, [Next]_trustVars
  PROVE  TrustTypeOK'
<1> USE DEF TrustTypeOK
<1>1. ASSUME NEW n \in Peers, NEW key \in Keys, UpdateKey(n, key)
      PROVE  TrustTypeOK'
  <2>1. published[n].version + 1 \in 1 .. MaxVersion
    BY <1>1, TrustBounds DEF UpdateKey, Published
  <2>2. [key |-> key, version |-> published[n].version + 1] \in Published
    BY <2>1 DEF Published
  <2>3. published' \in [Peers -> Published]
    BY <1>1, <2>2 DEF UpdateKey
  <2> QED
    BY <1>1, <2>3 DEF UpdateKey
<1>2. ASSUME NEW p \in Processes, Step(p)
      PROVE  TrustTypeOK'
  <2>1. command[p] \in CommandRecord
    OBVIOUS
  <2>2. ASSUME NEW n \in Peers, NEW pc \in {"lookup", "confirm"}, Fetch(p, n, pc)
        PROVE  TrustTypeOK'
    <3>1. [pc |-> pc, peer |-> n, fetched |-> published[n], old |-> NoPin]
            \in CommandRecord
      BY DEF CommandRecord, Pin
    <3>2. published[n] # NoPin
      BY NoPinAssumption, TrustBounds DEF Published
    <3> QED
      BY <2>2, <3>1, <3>2 DEF Fetch, CommandRecord
  <2>3. ASSUME NEW pc \in {"pin", "use", "first"}, Goto(p, pc),
               command[p].pc # "prompt", UNCHANGED <<published, pinned>>
        PROVE  TrustTypeOK'
    BY <2>1, <2>3 DEF Goto, CommandRecord
  <2>4. ASSUME command' = [command EXCEPT ![p] = Prompt],
               UNCHANGED published, pinned' \in [Peers -> Pin]
        PROVE  TrustTypeOK'
    BY <2>4 DEF Prompt, CommandRecord, Pin
  <2>5. ASSUME SaveConfirmed(p, command[p].fetched), command[p].pc # "prompt"
        PROVE  TrustTypeOK'
    <3>1. pinned' \in [Peers -> Pin]
      BY <2>1, <2>5 DEF SaveConfirmed, SavePin, CommandRecord
    <3> QED
      BY <2>4, <2>5, <3>1 DEF SaveConfirmed
  <2>6. CASE PinFetched(p)
    <3>1. pinned' \in [Peers -> Pin]
      BY <2>1, <2>6 DEF PinFetched, SavePin, CommandRecord
    <3> QED
      BY <2>1, <2>6, <3>1 DEF PinFetched, Goto, CommandRecord
  <2>7. CASE Ask(p)
    BY <2>1, <2>7 DEF Ask, CommandRecord, Pin
  <2>8. CASE FirstContact(p) \/ KeyMatches(p) \/ ConfirmFirst(p)
    BY <2>3, <2>8 DEF FirstContact, KeyMatches, ConfirmFirst
  <2>9. CASE KeyChanged(p) \/ UseKey(p) \/ NothingToConfirm(p) \/ GiveUp(p)
    BY <2>4, <2>9 DEF KeyChanged, UseKey, NothingToConfirm, GiveUp
  <2>10. CASE PinFirst(p) \/ AnswerYes(p)
    BY <2>5, <2>10 DEF PinFirst, AnswerYes
  <2> QED
    BY <1>2, <2>2, <2>6, <2>7, <2>8, <2>9, <2>10
       DEF Step, LookupUser, ConfirmRotation
<1>3. CASE UNCHANGED trustVars
  BY <1>3 DEF trustVars
<1> QED
  BY <1>1, <1>2, <1>3 DEF Next

(***************************************************************************)
(* The tables and the commands of every reachable state have their types.  *)
(***************************************************************************)
THEOREM TrustTypeCorrectness == Spec => []TrustTypeOK
<1>1. Init => TrustTypeOK
  BY TrustBounds DEF Init, TrustTypeOK, Published, Pin, Prompt, CommandRecord
<1>2. TrustTypeOK /\ [Next]_trustVars => TrustTypeOK'
  BY TrustTypesInductive
<1> QED
  BY <1>1, <1>2, PTL DEF Spec

-----------------------------------------------------------------------------
(* What the pin is while a command is between reading it and using what it *)
(* read.                                                                   *)
ReadPinStands ==
  \A p \in Processes :
    /\ command[p].pc \in {"pin", "first"} => pinned[command[p].peer] = NoPin
    /\ command[p].pc = "asked" => pinned[command[p].peer] = command[p].old

TrustInv == TrustTypeOK /\ UsedKeyIsPinned /\ ReadPinStands

LEMMA TrustInvInductive ==
  ASSUME OneProcess, TrustInv, TrustTypeOK', [Next]_trustVars
  PROVE  TrustInv'
<1> USE DEF TrustInv, UsedKeyIsPinned, ReadPinStands
<1>1. ASSUME NEW n \in Peers, NEW key \in Keys, UpdateKey(n, key)
      PROVE  TrustInv'
  BY <1>1 DEF UpdateKey
<1>2. ASSUME NEW p \in Processes, Step(p)
      PROVE  TrustInv'
  <2>1. \A q \in Processes : q = p
    BY DEF OneProcess
  <2>2. command[p] \in CommandRecord /\ command \in [Processes -> CommandRecord]
    BY DEF TrustTypeOK
  <2>3. pinned \in [Peers -> Pin]
    BY DEF TrustTypeOK
  <2>4. command[p].pc # "prompt" => command[p].peer \in Peers /\ command[p].fetched # NoPin
    BY DEF TrustTypeOK
  <2>5. ASSUME NEW n \in Peers, LookupUser(p, n) \/ ConfirmRotation(p, n)
        PROVE  TrustInv'
    BY <2>1, <2>2, <2>5 DEF LookupUser, ConfirmRotation, Fetch
  <2>6. CASE FirstContact(p) \/ ConfirmFirst(p)
    BY <2>1, <2>2, <2>6 DEF FirstContact, ConfirmFirst, Goto, CommandRecord
  <2>7. CASE PinFetched(p)
    BY <2>1, <2>2, <2>3, <2>4, <2>7 DEF PinFetched, Goto, SavePin, CommandRecord
  <2>8. CASE KeyMatches(p)
    BY <2>1, <2>2, <2>8 DEF KeyMatches, SameKey, Goto, CommandRecord
  <2>9. CASE Ask(p)
    BY <2>1, <2>2, <2>9 DEF Ask, CommandRecord
  <2>10. ASSUME command' = [command EXCEPT ![p] = Prompt]
         PROVE  TrustInv'
    BY <2>1, <2>2, <2>10 DEF Prompt
  <2> QED
    BY <1>2, <2>5, <2>6, <2>7, <2>8, <2>9, <2>10
       DEF Step, KeyChanged, UseKey, PinFirst, SaveConfirmed, NothingToConfirm,
           AnswerYes, GiveUp
<1>3. CASE UNCHANGED trustVars
  BY <1>3 DEF trustVars
<1> QED
  BY <1>1, <1>2, <1>3 DEF Next

(* The invariant of a store that one process uses.                         *)
LEMMA TrustInvHolds == ASSUME OneProcess PROVE Spec => []TrustInv
<1>1. Init => TrustInv
  BY TrustBounds
     DEF Init, TrustInv, TrustTypeOK, Published, Pin, Prompt, CommandRecord,
         UsedKeyIsPinned, ReadPinStands
<1>2. TrustInv /\ TrustTypeOK' /\ [Next]_trustVars => TrustInv'
  BY TrustInvInductive
<1> QED
  BY <1>1, <1>2, TrustTypeCorrectness, PTL DEF Spec

(***************************************************************************)
(* With one process, a key that does not match the pin is never used.      *)
(***************************************************************************)
THEOREM OnlyPinnedKeysAreUsed == ASSUME OneProcess PROVE Spec => []UsedKeyIsPinned
<1>1. TrustInv => UsedKeyIsPinned
  BY DEF TrustInv
<1> QED
  BY <1>1, TrustInvHolds, PTL

(***************************************************************************)
(* With one process, a pin is replaced only by the key of the question     *)
(* that was answered with yes, and it is the pin of that question.         *)
(***************************************************************************)
THEOREM OnlyConfirmationReplacesPins ==
  ASSUME OneProcess PROVE Spec => PinsChangeByConfirmation
<1> DEFINE Confirmed ==
      \A n \in Peers :
        pinned[n] # NoPin /\ pinned'[n] # pinned[n]
          => \E p \in Processes :
               /\ command[p].pc = "asked"
               /\ command[p].peer = n
               /\ command[p].old = pinned[n]
               /\ command[p].fetched = pinned'[n]
<1>1. ASSUME TrustInv, [Next]_trustVars
      PROVE  [Confirmed]_trustVars
  <2>1. ASSUME NEW p \in Processes, NEW n \in Peers, Step(p),
               pinned[n] # NoPin, pinned'[n] # pinned[n]
        PROVE  AnswerYes(p) /\ command[p].peer = n /\ command[p].old = pinned[n]
                 /\ command[p].fetched = pinned'[n]
    <3>1. pinned \in [Peers -> Pin]
      BY <1>1 DEF TrustInv, TrustTypeOK
    <3>2. ASSUME NEW user, SavePin(command[p].peer, user)
          PROVE  command[p].peer = n /\ pinned'[n] = user
      BY <2>1, <3>1, <3>2 DEF SavePin
    <3>3. command[p].pc \in {"pin", "first"} => pinned[command[p].peer] = NoPin
      BY <1>1 DEF TrustInv, ReadPinStands
    <3>4. command[p].pc = "asked" => pinned[command[p].peer] = command[p].old
      BY <1>1 DEF TrustInv, ReadPinStands
    <3>5. ~PinFetched(p) /\ ~PinFirst(p)
      BY <2>1, <3>2, <3>3 DEF PinFetched, PinFirst, SaveConfirmed
    <3>6. CASE AnswerYes(p)
      BY <3>2, <3>4, <3>6 DEF AnswerYes, SaveConfirmed
    <3> QED
      BY <2>1, <3>5, <3>6
         DEF Step, LookupUser, ConfirmRotation, Fetch, FirstContact, KeyMatches,
             KeyChanged, UseKey, ConfirmFirst, NothingToConfirm, Ask, GiveUp
  <2>2. CASE \E n \in Peers, key \in Keys : UpdateKey(n, key)
    BY <2>2 DEF UpdateKey
  <2> QED
    BY <1>1, <2>1, <2>2 DEF Next, trustVars, AnswerYes
<1> QED
  BY <1>1, TrustInvHolds, PTL DEF Spec, PinsChangeByConfirmation

-----------------------------------------------------------------------------

(***************************************************************************)
(* An envelope opens, to its text, for the recipient's key, the sender's   *)
(* key and the labels it was sealed with.                                  *)
(***************************************************************************)
THEOREM SealedOpens ==
  ASSUME NEW pkR, NEW skS, NEW skE, NEW info, NEW aad, NEW text
  PROVE  OpenAuth(SealAuth(pkR, skS, skE, info, aad, text).enc, pkR, skS, info, aad,
                  SealAuth(pkR, skS, skE, info, aad, text).ciphertext) = {text}
<1>1. Dh(pkR, skE) = Dh(skE, pkR) /\ Dh(pkR, skS) = Dh(skS, pkR)
  BY DEF Dh
<1>2. AuthDecap(skE, pkR, skS) = AuthEncap(pkR, skS, skE)
  BY <1>1 DEF AuthDecap, AuthEncap
<1> QED
  BY <1>2 DEF OpenAuth, SealAuth, AeadEncrypt, AeadDecrypt

(***************************************************************************)
(* It opens for nothing else: a ciphertext that opens was sealed with      *)
(* these very keys, this encapsulated key and these labels, and the text   *)
(* is the one that was sealed.                                             *)
(***************************************************************************)
THEOREM OpenedWasSealed ==
  ASSUME NEW pkR, NEW skS, NEW skE, NEW info, NEW aad, NEW text,
         NEW enc, NEW skR, NEW pkS, NEW aad2, NEW opened,
         opened \in OpenAuth(enc, skR, pkS, info, aad2,
                             SealAuth(pkR, skS, skE, info, aad, text).ciphertext)
  PROVE  /\ enc = skE /\ skR = pkR /\ pkS = skS
         /\ aad2 = aad /\ opened = text
<1>1. /\ KeyScheduleAuth(AuthEncap(pkR, skS, skE), info)
           = KeyScheduleAuth(AuthDecap(enc, skR, pkS), info)
      /\ aad2 = aad /\ opened = text
  BY DEF OpenAuth, SealAuth, AeadEncrypt, AeadDecrypt
<1>2. AuthEncap(pkR, skS, skE) = AuthDecap(enc, skR, pkS)
  BY <1>1 DEF KeyScheduleAuth, LabeledExtract, LabeledExpand, HkdfExtract, HkdfExpand
<1>3. <<skE, pkR, skS>> = <<enc, skR, pkS>>
  BY <1>2 DEF AuthEncap, AuthDecap, ExtractAndExpand, LabeledExpand, HkdfExpand
<1> QED
  BY <1>1, <1>3

(***************************************************************************)
(* The wrapped secret key opens for the password it was wrapped under and  *)
(* for no other, whatever the salt.                                        *)
(***************************************************************************)
THEOREM WrappedKeyOpensForItsPassword ==
  ASSUME NEW sk, NEW nonce, NEW salt, NEW password, NEW guess
  PROVE  UnwrapKey(WrapKey(sk, nonce, DeriveKek(password, salt)), DeriveKek(guess, salt))
           = IF guess = password THEN {sk} ELSE {}
BY DEF UnwrapKey, WrapKey, DeriveKek, AeadEncrypt, AeadDecrypt

-----------------------------------------------------------------------------
(* What a sync still has to handle came from the user's inbox.             *)
Pending(p) ==
  task[p].batch \cup (IF task[p].kind = "sender" THEN {task[p].mail} ELSE {})

BatchIsMine ==
  \A p \in Processes : \A m \in Pending(p) :
    m.recipient_id = Me /\ m.sender_username # Me

TypeInv == DeliveryTypeOK /\ BatchIsMine

LEMMA TaskTypes ==
  ASSUME DeliveryTypeOK, NEW p \in Processes
  PROVE  /\ task[p].kind \in TaskKinds
         /\ task[p] \in TaskRecord(task[p].kind)
         /\ task[p].mail \in MailOf(task[p].kind)
         /\ task[p].batch \in SUBSET Row
         /\ task[p].tried \in SUBSET Row
         /\ task[p].cache \in SUBSET [name : Peers, key : Keys]
<1>1. PICK kind \in TaskKinds : task[p] \in TaskRecord(kind)
  BY DEF DeliveryTypeOK
<1> QED
  BY <1>1 DEF TaskRecord

(* Of a pending row, the name it came under is a peer's.                   *)
LEMMA PendingTypes ==
  ASSUME TypeInv, NEW p \in Processes, NEW m \in Pending(p)
  PROVE  m \in Row /\ m.sender_username \in Peers /\ m.recipient_id = Me
<1>1. m \in Row
  BY TaskTypes DEF TypeInv, Pending, MailOf
<1>2. m.recipient_id = Me /\ m.sender_username # Me
  BY DEF TypeInv, BatchIsMine
<1>3. m.sender_username \in Users
  BY <1>1 DEF Row
<1> QED
  BY <1>1, <1>2, <1>3 DEF Users

(* A step of a client that sends and syncs is one of trust on first use,   *)
(* or leaves its state alone.                                              *)
LEMMA ClientIsTrustStep ==
  ASSUME TypeInv, NEW p \in Processes, Client(p)
  PROVE  Step(p) \/ UNCHANGED trustVars
<1>1. ASSUME NEW n \in Peers, NEW kind, NEW text, Prepare(p, n, kind, text)
      PROVE  Step(p)
  BY <1>1 DEF Prepare, Step
<1>2. ASSUME NEW time, NEW e, Seal(p, time, e)
      PROVE  Step(p)
  BY <1>2 DEF Seal, Step
<1>3. CASE TaskEnds(p)
  BY <1>3 DEF TaskEnds, Step
<1>4. ASSUME NEW m \in task[p].batch, LookupSender(p, m)
      PROVE  Step(p)
  BY <1>4, PendingTypes DEF LookupSender, Step, Pending
<1>5. CASE SenderUnknown(p) \/ OpenFirst(p) \/ Lookup(p) \/ Confirm(p)
  BY <1>5 DEF SenderUnknown, OpenFirst, Lookup, Confirm, Step
<1>6. ASSUME NEW m, SkipMalformed(p, m) \/ OpenCached(p, m)
      PROVE  UNCHANGED trustVars
  BY <1>6 DEF SkipMalformed, OpenCached
<1>7. ASSUME NEW id, NEW answered, Post(p, id, answered)
      PROVE  UNCHANGED trustVars
  BY <1>7 DEF Post
<1>8. CASE Sync(p)
  BY <1>8 DEF Sync
<1> QED
  BY <1>1, <1>2, <1>3, <1>4, <1>5, <1>6, <1>7, <1>8
     DEF Client, SendMessage, ForwardMessage

LEMMA DeliveryIsTrustStep ==
  ASSUME TypeInv, [DeliveryNext]_vars
  PROVE  [Next]_trustVars
<1>1. ASSUME NEW p \in Processes, Client(p)
      PROVE  [Next]_trustVars
  BY <1>1, ClientIsTrustStep DEF Next
<1>2. CASE PeerRotates
  BY <1>2 DEF PeerRotates, Next
<1>3. CASE PeerSends \/ RowsMixUp \/ UNCHANGED vars
  BY <1>3 DEF PeerSends, RowsMixUp, vars, trustVars
<1> QED
  BY <1>1, <1>2, <1>3 DEF DeliveryNext

-----------------------------------------------------------------------------
LEMMA RowOfType ==
  ASSUME NEW id \in MsgIds, NEW s \in SealingRecord
  PROVE  RowOf(id, s) \in Row
<1>1. EnvelopeOf(s).ciphertext \in Ciphertexts
  BY DEF Ciphertexts
<1>2. EnvelopeOf(s).enc = s.skE
  BY DEF EnvelopeOf, SealAuth
<1> QED
  BY <1>1, <1>2 DEF RowOf, Row, SealingRecord, AnyTime

LEMMA StoredType ==
  ASSUME NEW m \in Row, NEW text \in Texts
  PROVE  Stored(m, text) \in StoredMessage /\ Stored(m, text) # NoRow
BY NoRowAssumption DEF Stored, StoredMessage

LEMMA SealingType ==
  ASSUME NEW n \in Users, NEW to \in Users, NEW time \in Times, NEW text \in Texts,
         NEW skS \in KeyPairs, NEW pkR \in KeyPairs, NEW e \in Ephemerals
  PROVE  Sealing(n, to, time, text, skS, pkR, e) \in SealingRecord
BY DEF Sealing, SealingRecord

LEMMA KeyOfType ==
  ASSUME TrustTypeOK, NEW n \in Users
  PROVE  KeyOf(n) \in KeyPairs /\ (n # Me => KeyOf(n) \in Keys)
BY DEF TrustTypeOK, KeyOf, KeyPairs, Users, Published

LEMMA MixedType ==
  ASSUME NEW m \in Row, NEW other \in Row, NEW x \in Misread(m, other),
         NEW id \in MsgIds
  PROVE  /\ x \in Row
         /\ [x EXCEPT !.message_id = id] \in Row
         /\ [x EXCEPT !.message_id = id].enc = x.enc
         /\ [x EXCEPT !.message_id = id].ciphertext = x.ciphertext
<1>1. x \in Row
  BY DEF Misread, Row, Users
<1> QED
  BY <1>1 DEF Row

StoreTypeOK ==
  /\ rows \in [MsgIds -> Row \cup {NoRow}]
  /\ mixed \in 0 .. MaxMixed
  /\ sealings \in SUBSET SealingRecord
  /\ messages \in [MsgIds -> StoredMessage \cup {NoRow}]

TaskTypeOK ==
  /\ DOMAIN task = Processes
  /\ \A p \in Processes : \E kind \in TaskKinds : task[p] \in TaskRecord(kind)

LEMMA TypeParts == TypeInv <=> TrustTypeOK /\ StoreTypeOK /\ TaskTypeOK /\ BatchIsMine
BY DEF TypeInv, DeliveryTypeOK, StoreTypeOK, TaskTypeOK

LEMMA TaskInto ==
  ASSUME TypeInv, NEW p \in Processes, NEW kind \in TaskKinds,
         NEW t \in TaskRecord(kind), Into(p, t),
         \A m \in t.batch : m.recipient_id = Me /\ m.sender_username # Me,
         kind = "sender" => t.mail.recipient_id = Me /\ t.mail.sender_username # Me
  PROVE  TaskTypeOK' /\ BatchIsMine'
<1>1. DOMAIN task = Processes
  BY DEF TypeInv, DeliveryTypeOK
<1>2. task'[p] = t /\ \A q \in Processes \ {p} : task'[q] = task[q]
  BY <1>1 DEF Into
<1>3. TaskTypeOK'
  BY <1>1, <1>2 DEF Into, TypeInv, DeliveryTypeOK, TaskTypeOK
<1>4. t.kind = kind
  BY DEF TaskRecord
<1> QED
  BY <1>2, <1>3, <1>4 DEF BatchIsMine, TypeInv, Pending

LEMMA IdleType == Idle \in TaskRecord("idle") /\ Idle.batch = {}
BY DEF Idle, TaskRecord, MailOf

LEMMA BackToIdle ==
  ASSUME TypeInv, NEW p \in Processes, Into(p, Idle)
  PROVE  TaskTypeOK' /\ BatchIsMine'
BY TaskInto, IdleType DEF TaskKinds

LEMMA OpenType ==
  ASSUME StoreTypeOK, NEW m \in Row, NEW key, Open(m, key)
  PROVE  messages' \in [MsgIds -> StoredMessage \cup {NoRow}]
<1>1. ASSUME NEW text \in OpenAuth(m.enc, MyKey, key, kMsgInfo, Aad(m), m.ciphertext)
      PROVE  text \in Texts
  <2>1. PICK s \in SealingRecord : m.ciphertext = EnvelopeOf(s).ciphertext
    BY DEF Row, Ciphertexts
  <2>2. text = s.plaintext
    BY <1>1, <2>1, OpenedWasSealed DEF EnvelopeOf
  <2> QED
    BY <2>2 DEF SealingRecord
<1>2. m.message_id \in MsgIds
  BY DEF Row
<1>3. ASSUME NEW text \in Texts,
             messages' = [messages EXCEPT ![m.message_id] = Stored(m, text)]
      PROVE  messages' \in [MsgIds -> StoredMessage \cup {NoRow}]
  BY <1>2, <1>3, StoredType DEF StoreTypeOK
<1> QED
  BY <1>1, <1>3 DEF Open, StoreTypeOK

(* What the rest of the world does.                                        *)
LEMMA WorldTypes ==
  ASSUME TypeInv, PeerRotates \/ PeerSends \/ RowsMixUp
  PROVE  StoreTypeOK' /\ TaskTypeOK' /\ BatchIsMine'
<1> USE TypeParts
<1>1. ASSUME UNCHANGED task
      PROVE  TaskTypeOK' /\ BatchIsMine'
  BY <1>1 DEF TaskTypeOK, BatchIsMine, Pending
<1>2. CASE PeerRotates
  BY <1>1, <1>2 DEF PeerRotates, mailVars, StoreTypeOK
<1>3. CASE PeerSends
  <2>1. PICK n \in Peers, to \in Users, time \in Times, text \in Texts, e \in Fresh,
             id \in MsgIds :
          LET s == Sealing(n, to, time, text, KeyOf(n), KeyOf(to), e)
          IN /\ rows' = [rows EXCEPT ![id] = RowOf(id, s)]
             /\ sealings' = sealings \cup {s}
    BY <1>3 DEF PeerSends
  <2>2. n \in Users /\ e \in Ephemerals
    BY DEF Users, Fresh
  <2>3. Sealing(n, to, time, text, KeyOf(n), KeyOf(to), e) \in SealingRecord
    BY <2>2, KeyOfType, SealingType
  <2>4. UNCHANGED <<mixed, messages, task>>
    BY <1>3 DEF PeerSends
  <2> QED
    BY <1>1, <2>1, <2>3, <2>4, RowOfType DEF StoreTypeOK
<1>4. CASE RowsMixUp
  <2>1. PICK i \in MsgIds, j \in MsgIds, id \in MsgIds :
          /\ rows[i] # NoRow /\ rows[j] # NoRow
          /\ \E m \in Misread(rows[i], rows[j]) :
               rows' = [rows EXCEPT ![id] = [m EXCEPT !.message_id = id]]
    BY <1>4 DEF RowsMixUp
  <2>2. rows[i] \in Row /\ rows[j] \in Row
    BY <2>1 DEF StoreTypeOK
  <2>3. rows' \in [MsgIds -> Row \cup {NoRow}]
    BY <2>1, <2>2, MixedType DEF StoreTypeOK
  <2>4. mixed' \in 0 .. MaxMixed
    BY <1>4, DeliveryConstants DEF RowsMixUp, StoreTypeOK
  <2>5. UNCHANGED <<sealings, messages, task>>
    BY <1>4 DEF RowsMixUp
  <2> QED
    BY <1>1, <2>3, <2>4, <2>5 DEF StoreTypeOK
<1> QED
  BY <1>2, <1>3, <1>4

LEMMA ClientTypes ==
  ASSUME TypeInv, NEW p \in Processes, Client(p)
  PROVE  StoreTypeOK' /\ TaskTypeOK' /\ BatchIsMine'
<1> USE TypeParts
<1> DEFINE K == task[p].kind
<1>t. /\ K \in TaskKinds /\ task[p] \in TaskRecord(K) /\ task[p].mail \in MailOf(K)
      /\ task[p].batch \in SUBSET Row /\ task[p].tried \in SUBSET Row
      /\ task[p].cache \in SUBSET [name : Peers, key : Keys]
  BY TaskTypes DEF TypeInv
<1>b. \A m \in task[p].batch : m \in Row /\ m.recipient_id = Me /\ m.sender_username # Me
  BY PendingTypes, <1>t DEF Pending, BatchIsMine
<1>m. K = "sender" => /\ task[p].mail \in Row
                      /\ task[p].mail.recipient_id = Me /\ task[p].mail.sender_username # Me
  BY <1>t, PendingTypes DEF Pending, BatchIsMine
<1>s. ASSUME UNCHANGED <<rows, mixed, sealings, messages>>
      PROVE  StoreTypeOK'
  BY <1>s DEF StoreTypeOK
<1>c. command[p].pc # "prompt" => command[p].peer \in Peers /\ command[p].fetched # NoPin
  BY DEF TrustTypeOK
<1>f. command[p].pc # "prompt" => command[p].fetched.key \in Keys
  BY <1>c DEF TrustTypeOK, CommandRecord, Pin, Published
<1>1. ASSUME NEW n \in Peers, NEW kind \in {"send", "forward"}, NEW text \in Texts,
             Prepare(p, n, kind, text)
      PROVE  StoreTypeOK' /\ TaskTypeOK' /\ BatchIsMine'
  <2>1. [Idle EXCEPT !.kind = kind, !.mail = text] \in TaskRecord(kind)
    BY DEF Idle, TaskRecord, MailOf
  <2>2. [Idle EXCEPT !.kind = kind, !.mail = text].batch = {}
    BY DEF Idle
  <2> QED
    BY <1>1, <1>s, <2>1, <2>2, TaskInto DEF Prepare, mailVars, TaskKinds
<1>2. ASSUME NEW id \in MsgIds, messages[id] # NoRow
      PROVE  messages[id].plaintext \in Texts
  BY <1>2 DEF StoreTypeOK, StoredMessage
<1>3. ASSUME NEW time \in Times, NEW e \in Fresh, Seal(p, time, e)
      PROVE  StoreTypeOK' /\ TaskTypeOK' /\ BatchIsMine'
  <2> DEFINE s == Sealing(Me, command[p].peer, time, task[p].mail, MyKey,
                          command[p].fetched.key, e)
             k == IF K = "send" THEN "post" ELSE "repost"
             t == [task[p] EXCEPT !.kind = k, !.mail = s]
  <2>1. K \in {"send", "forward"} /\ UseKey(p) /\ sealings' = sealings \cup {s}
        /\ Into(p, t) /\ UNCHANGED <<rows, mixed, messages>>
    BY <1>3 DEF Seal
  <2>2. task[p].mail \in Texts
    BY <1>t, <2>1 DEF MailOf
  <2>3. s \in SealingRecord
    BY <1>c, <1>f, <2>1, <2>2, SealingType DEF UseKey, Users, Fresh, KeyPairs
  <2>4. t \in TaskRecord(k) /\ k \in {"post", "repost"} /\ t.batch = task[p].batch
    <3> HIDE DEF s
    <3> QED
      BY <1>t, <2>1, <2>3 DEF TaskRecord, MailOf
  <2>5. StoreTypeOK'
    BY <2>1, <2>3 DEF StoreTypeOK
  <2> HIDE DEF t, s
  <2> QED
    BY <1>b, <2>1, <2>4, <2>5, TaskInto DEF TaskKinds
<1>4. ASSUME NEW id \in MsgIds, NEW answered \in BOOLEAN, Post(p, id, answered)
      PROVE  StoreTypeOK' /\ TaskTypeOK' /\ BatchIsMine'
  <2>1. task[p].mail \in SealingRecord
    BY <1>t, <1>4 DEF Post, MailOf
  <2>2. RowOf(id, task[p].mail) \in Row /\ task[p].mail.plaintext \in Texts
    BY <2>1, RowOfType DEF SealingRecord
  <2>3. rows' \in [MsgIds -> Row \cup {NoRow}]
    BY <1>4, <2>2 DEF Post, StoreTypeOK
  <2>4. messages' \in [MsgIds -> StoredMessage \cup {NoRow}]
    BY <1>4, <2>2, StoredType DEF Post, StoreTypeOK
  <2>5. UNCHANGED <<mixed, sealings>> /\ Into(p, Idle)
    BY <1>4 DEF Post
  <2> QED
    BY <2>3, <2>4, <2>5, BackToIdle DEF StoreTypeOK
<1>5. CASE TaskEnds(p)
  BY <1>5, <1>s, BackToIdle DEF TaskEnds, mailVars
<1>6. CASE Sync(p)
  <2> DEFINE t == [Idle EXCEPT !.kind = "sync", !.batch = Inbox]
  <2>1. \A m \in Inbox : m \in Row /\ m.recipient_id = Me /\ m.sender_username # Me
    BY DEF Inbox, StoreTypeOK
  <2>2. t \in TaskRecord("sync") /\ t.batch = Inbox
    BY <2>1 DEF Idle, TaskRecord, MailOf
  <2>3. Into(p, t)
    BY <1>6 DEF Sync
  <2> HIDE DEF t
  <2> QED
    BY <1>6, <1>s, <2>1, <2>2, <2>3, TaskInto DEF Sync, mailVars, TaskKinds
<1>7. ASSUME NEW m \in task[p].batch, NEW tried \in SUBSET Row, K = "sync",
             Into(p, [task[p] EXCEPT !.batch = @ \ {m}, !.tried = tried])
      PROVE  TaskTypeOK' /\ BatchIsMine'
  <2> DEFINE t == [task[p] EXCEPT !.batch = @ \ {m}, !.tried = tried]
  <2>1. t \in TaskRecord("sync") /\ t.batch \subseteq task[p].batch
    BY <1>t, <1>7 DEF TaskRecord, MailOf
  <2>2. Into(p, t)
    BY <1>7
  <2> HIDE DEF t
  <2> QED
    BY <1>b, <2>1, <2>2, TaskInto DEF TaskKinds
<1>8. ASSUME NEW m \in task[p].batch, SkipMalformed(p, m)
      PROVE  StoreTypeOK' /\ TaskTypeOK' /\ BatchIsMine'
  <2>1. [task[p] EXCEPT !.batch = @ \ {m}]
          = [task[p] EXCEPT !.batch = @ \ {m}, !.tried = task[p].tried]
    BY <1>t DEF TaskRecord
  <2> QED
    BY <1>7, <1>8, <1>s, <1>t, <2>1 DEF SkipMalformed, mailVars
<1>9. ASSUME NEW m \in task[p].batch, OpenCached(p, m)
      PROVE  StoreTypeOK' /\ TaskTypeOK' /\ BatchIsMine'
  <2>1. task[p].tried \cup {m} \in SUBSET Row
    BY <1>t, <1>b
  <2>2. TaskTypeOK' /\ BatchIsMine'
    BY <1>7, <1>9, <2>1 DEF OpenCached
  <2>3. messages' \in [MsgIds -> StoredMessage \cup {NoRow}]
    BY <1>9, <1>b, OpenType DEF OpenCached
  <2> QED
    BY <1>9, <2>2, <2>3 DEF OpenCached, mailVars, StoreTypeOK
<1>10. ASSUME NEW m \in task[p].batch, LookupSender(p, m)
       PROVE  StoreTypeOK' /\ TaskTypeOK' /\ BatchIsMine'
  <2> DEFINE t == [task[p] EXCEPT !.kind = "sender", !.mail = m]
  <2>1. t \in TaskRecord("sender") /\ t.batch = task[p].batch /\ t.mail = m
    BY <1>t, <1>b DEF TaskRecord, MailOf
  <2>2. Into(p, t)
    BY <1>10 DEF LookupSender
  <2> HIDE DEF t
  <2> QED
    BY <1>10, <1>b, <1>s, <2>1, <2>2, TaskInto DEF LookupSender, mailVars, TaskKinds
<1>11. CASE SenderUnknown(p)
  <2> DEFINE t == [task[p] EXCEPT !.kind = "sync", !.mail = NoRow,
                                  !.batch = @ \ {task[p].mail}]
  <2>1. t \in TaskRecord("sync") /\ t.batch \subseteq task[p].batch
    BY <1>t DEF TaskRecord, MailOf
  <2>2. Into(p, t)
    BY <1>11 DEF SenderUnknown
  <2> HIDE DEF t
  <2> QED
    BY <1>11, <1>b, <1>s, <2>1, <2>2, TaskInto DEF SenderUnknown, mailVars, TaskKinds
<1>12. CASE OpenFirst(p)
  <2> DEFINE c == [name |-> command[p].peer, key |-> command[p].fetched.key]
             t == [task[p] EXCEPT
                     !.kind = "sync", !.mail = NoRow,
                     !.batch = @ \ {task[p].mail}, !.tried = @ \cup {task[p].mail},
                     !.cache = @ \cup {c}]
  <2>1. K = "sender" /\ Into(p, t) /\ UseKey(p) /\ UNCHANGED <<rows, mixed, sealings>>
    BY <1>12 DEF OpenFirst, mailVars
  <2>2. c \in [name : Peers, key : Keys]
    BY <1>c, <1>f, <2>1 DEF UseKey
  <2>3. t \in TaskRecord("sync") /\ t.batch \subseteq task[p].batch
    <3> HIDE DEF c
    <3> QED
      BY <1>t, <1>m, <2>1, <2>2 DEF TaskRecord, MailOf
  <2>4. messages' \in [MsgIds -> StoredMessage \cup {NoRow}]
    BY <1>12, <1>m, <2>1, OpenType DEF OpenFirst
  <2> HIDE DEF t
  <2>5. TaskTypeOK' /\ BatchIsMine'
    BY <1>b, <2>1, <2>3, TaskInto DEF TaskKinds
  <2> QED
    BY <2>1, <2>4, <2>5 DEF StoreTypeOK
<1>13. CASE Lookup(p) \/ Confirm(p)
  <2>1. UNCHANGED <<rows, mixed, sealings, messages, task>>
    BY <1>13 DEF Lookup, Confirm, mailVars
  <2> QED
    BY <1>s, <2>1 DEF TaskTypeOK, BatchIsMine, Pending
<1> QED
  BY <1>1, <1>2, <1>3, <1>4, <1>5, <1>6, <1>8, <1>9, <1>10, <1>11, <1>12, <1>13
     DEF Client, SendMessage, ForwardMessage

LEMMA TypeInvInductive ==
  ASSUME TypeInv, [DeliveryNext]_vars
  PROVE  TypeInv'
<1>1. TrustTypeOK'
  BY DeliveryIsTrustStep, TrustTypesInductive DEF TypeInv, DeliveryTypeOK
<1>2. StoreTypeOK' /\ TaskTypeOK' /\ BatchIsMine'
  <2>1. CASE UNCHANGED vars
    BY <2>1, TypeParts DEF vars, mailVars, StoreTypeOK, TaskTypeOK, BatchIsMine, Pending
  <2> QED
    BY <2>1, WorldTypes, ClientTypes DEF DeliveryNext
<1> QED
  BY <1>1, <1>2 DEF TypeInv, DeliveryTypeOK, StoreTypeOK, TaskTypeOK

LEMMA TypeInvInitially == DeliveryInit => TypeInv
<1> SUFFICES ASSUME DeliveryInit PROVE TypeInv
  OBVIOUS
<1>1. TrustTypeOK
  BY TrustBounds
     DEF DeliveryInit, Init, TrustTypeOK, Published, Pin, Prompt, CommandRecord
<1>2. StoreTypeOK
  BY DeliveryConstants DEF DeliveryInit, StoreTypeOK
<1>3. TaskTypeOK /\ BatchIsMine
  BY IdleType DEF DeliveryInit, TaskTypeOK, TaskKinds, BatchIsMine, Pending, Idle
<1> QED
  BY <1>1, <1>2, <1>3, TypeParts

LEMMA TypeInvHolds == DeliverySpec => []TypeInv
BY TypeInvInitially, TypeInvInductive, PTL DEF DeliverySpec

(***************************************************************************)
(* Every row, every message of the store and everything a task holds has   *)
(* its type, however rows are mixed up and processes interleave.           *)
(***************************************************************************)
THEOREM DeliveryTypeCorrectness == DeliverySpec => []DeliveryTypeOK
<1>1. TypeInv => DeliveryTypeOK
  BY DEF TypeInv
<1> QED
  BY <1>1, TypeInvHolds, PTL

(***************************************************************************)
(* A client that sends and syncs implements trust on first use: whatever   *)
(* it does to the pins is what its lookups and confirmations may do.       *)
(***************************************************************************)
THEOREM DeliveryImplementsTrust == DeliverySpec => Spec
<1>1. DeliveryInit => Init
  BY DEF DeliveryInit
<1>2. TypeInv /\ [DeliveryNext]_vars => [Next]_trustVars
  BY DeliveryIsTrustStep
<1> QED
  BY <1>1, <1>2, TypeInvHolds, PTL DEF DeliverySpec, Spec

-----------------------------------------------------------------------------
(* From here on one process has the store to itself.  The invariant says   *)
(* that what a row holds, mixed up or not, was sealed by somebody; that    *)
(* the keys a sync remembers are the pinned ones, and the lookup under way *)
(* is for the row in hand; and that what it tried is done with.            *)
Sealed(m) ==
  /\ \E s \in sealings : m.enc = s.skE
  /\ \E s \in sealings : m.ciphertext = EnvelopeOf(s).ciphertext

RowsInv == \A i \in MsgIds : rows[i] # NoRow => Sealed(rows[i])

Opens(m, s) ==
  /\ Carries(m, s)
  /\ s.pkR = MyKey
  /\ pinned[m.sender_username] # NoPin
  /\ s.skS = pinned[m.sender_username].key

TaskInv(p) ==
  /\ \A m \in Pending(p) \cup task[p].tried : Sealed(m)
  /\ task[p].kind \in {"post", "repost"}
       => task[p].mail \in sealings /\ task[p].mail.sender_id = Me
  /\ \A c \in task[p].cache : pinned[c.name] # NoPin /\ pinned[c.name].key = c.key
  /\ task[p].kind = "sync" => command[p].pc = "prompt"
  /\ task[p].kind = "sender" => /\ command[p].pc \in {"lookup", "pin", "use"}
                                /\ command[p].peer = task[p].mail.sender_username
  /\ \A m \in task[p].tried :
       /\ \E c \in task[p].cache : c.name = m.sender_username
       /\ (\E s \in sealings : Opens(m, s)) => messages[m.message_id] # NoRow

DeliveryInv == TypeInv /\ TrustInv /\ RowsInv /\ \A p \in Processes : TaskInv(p)

LEMMA FreshIsNew ==
  ASSUME NEW m, Sealed(m), NEW e \in Fresh, NEW s, s.skE = e
  PROVE  ~Carries(m, s)
BY DEF Sealed, Fresh, Carries, EnvelopeOf, SealAuth

LEMMA OpenKeeps ==
  ASSUME StoreTypeOK, NEW m \in Row, NEW key, Open(m, key),
         NEW i \in MsgIds, messages[i] # NoRow
  PROVE  messages'[i] # NoRow
<1>1. messages \in [MsgIds -> StoredMessage \cup {NoRow}] /\ m.message_id \in MsgIds
  BY DEF StoreTypeOK, Row
<1> QED
  BY <1>1 DEF Open

LEMMA OpenSaves ==
  ASSUME StoreTypeOK, NEW m \in Row, NEW key, Open(m, key),
         NEW s \in SealingRecord, Carries(m, s), s.pkR = MyKey, s.skS = key
  PROVE  messages'[m.message_id] # NoRow
<1>1. messages \in [MsgIds -> StoredMessage \cup {NoRow}] /\ m.message_id \in MsgIds
  BY DEF StoreTypeOK, Row
<1>2. Aad(m) = Aad(s)
  BY DEF Carries, Aad
<1>3. OpenAuth(m.enc, MyKey, key, kMsgInfo, Aad(m), m.ciphertext) = {s.plaintext}
  BY <1>2, SealedOpens DEF Carries, EnvelopeOf
<1>4. Stored(m, s.plaintext) # NoRow
  BY StoredType DEF SealingRecord
<1> QED
  BY <1>1, <1>3, <1>4, OpenKeeps DEF Open

LEMMA OpenIsAuthentic ==
  ASSUME StoreTypeOK, NEW m \in Row, NEW key, Open(m, key),
         Sealed(m), m.recipient_id = Me,
         NEW i \in MsgIds, messages[i] = NoRow, messages'[i] # NoRow
  PROVE  /\ messages'[i].row = m
         /\ \E s \in sealings :
              /\ Carries(m, s)
              /\ s.plaintext = messages'[i].plaintext
              /\ s.recipient_id = Me
              /\ s.pkR = MyKey
              /\ s.skS = key
<1>1. PICK s \in sealings : m.ciphertext = EnvelopeOf(s).ciphertext
  BY DEF Sealed
<1>2. PICK text \in OpenAuth(m.enc, MyKey, key, kMsgInfo, Aad(m), m.ciphertext) :
        messages' = [messages EXCEPT ![m.message_id] = Stored(m, text)]
  BY DEF Open
<1>3. m.enc = s.skE /\ s.pkR = MyKey /\ s.skS = key /\ Aad(m) = Aad(s)
        /\ text = s.plaintext
  BY <1>1, <1>2, OpenedWasSealed DEF EnvelopeOf
<1>4. messages'[i] = Stored(m, text)
  BY <1>2 DEF StoreTypeOK
<1>5. m.sender_id = s.sender_id /\ m.recipient_id = s.recipient_id
        /\ m.sent_at_ms = s.sent_at_ms
  BY <1>3 DEF Aad
<1>6. EnvelopeOf(s).enc = s.skE
  BY DEF EnvelopeOf, SealAuth
<1> QED
  BY <1>1, <1>3, <1>4, <1>5, <1>6 DEF Stored, Carries

LEMMA WorldInv ==
  ASSUME DeliveryInv, PeerRotates \/ PeerSends \/ RowsMixUp
  PROVE  RowsInv' /\ \A p \in Processes : TaskInv(p)'
<1> USE DEF DeliveryInv
<1>1. CASE PeerRotates
  BY <1>1 DEF PeerRotates, UpdateKey, mailVars, RowsInv, TaskInv, Sealed, Opens, Pending
<1>2. CASE PeerSends
  <2>1. PICK s \in sealings', e \in Fresh, id \in MsgIds :
          /\ s.skE = e
          /\ rows' = [rows EXCEPT ![id] = RowOf(id, s)]
          /\ sealings' = sealings \cup {s}
    <3>1. PICK n \in Peers, to \in Users, time \in Times, text \in Texts, e \in Fresh,
               id \in MsgIds :
            LET s == Sealing(n, to, time, text, KeyOf(n), KeyOf(to), e)
            IN /\ rows' = [rows EXCEPT ![id] = RowOf(id, s)]
               /\ sealings' = sealings \cup {s}
      BY <1>2 DEF PeerSends
    <3> DEFINE new == Sealing(n, to, time, text, KeyOf(n), KeyOf(to), e)
    <3>2. /\ new.skE = e
          /\ rows' = [rows EXCEPT ![id] = RowOf(id, new)]
          /\ sealings' = sealings \cup {new}
      BY <3>1 DEF Sealing
    <3> HIDE DEF new
    <3> QED
      BY <3>2
  <2>2. UNCHANGED <<trustVars, messages, task>>
    BY <1>2 DEF PeerSends
  <2>3. RowOf(id, s).enc = s.skE /\ RowOf(id, s).ciphertext = EnvelopeOf(s).ciphertext
    BY DEF RowOf, EnvelopeOf, SealAuth
  <2>4. \A m : Sealed(m) => Sealed(m)' /\ ~Carries(m, s)
    BY <2>1, FreshIsNew DEF Sealed
  <2>5. rows \in [MsgIds -> Row \cup {NoRow}]
    BY TypeParts DEF StoreTypeOK
  <2>6. Sealed(RowOf(id, s))'
    BY <2>1, <2>3 DEF Sealed
  <2>7. RowsInv'
    BY <2>1, <2>4, <2>5, <2>6 DEF RowsInv
  <2> QED
    BY <2>1, <2>2, <2>4, <2>7 DEF TaskInv, Opens, Pending, trustVars
<1>3. CASE RowsMixUp
  <2>1. PICK i \in MsgIds, j \in MsgIds, id \in MsgIds :
          /\ rows[i] # NoRow /\ rows[j] # NoRow
          /\ \E m \in Misread(rows[i], rows[j]) :
               rows' = [rows EXCEPT ![id] = [m EXCEPT !.message_id = id]]
    BY <1>3 DEF RowsMixUp
  <2>2. PICK m \in Misread(rows[i], rows[j]) :
          rows' = [rows EXCEPT ![id] = [m EXCEPT !.message_id = id]]
    BY <2>1
  <2>3. rows \in [MsgIds -> Row \cup {NoRow}] /\ rows[i] \in Row /\ rows[j] \in Row
    BY <2>1, TypeParts DEF StoreTypeOK
  <2>4. Sealed(rows[i]) /\ Sealed(rows[j])
    BY <2>1 DEF RowsInv
  <2>5. m.enc \in {rows[i].enc, rows[j].enc}
          /\ m.ciphertext \in {rows[i].ciphertext, rows[j].ciphertext}
    BY <2>3 DEF Misread, Row
  <2>6. Sealed([m EXCEPT !.message_id = id])
    BY <2>3, <2>4, <2>5, MixedType DEF Sealed
  <2>7. UNCHANGED <<trustVars, sealings, messages, task>>
    BY <1>3 DEF RowsMixUp
  <2>8. RowsInv'
    BY <2>2, <2>3, <2>6, <2>7 DEF RowsInv, Sealed
  <2> QED
    BY <2>7, <2>8 DEF TaskInv, Opens, Pending, Sealed, trustVars
<1> QED
  BY <1>1, <1>2, <1>3

(* The cases of a step of the one client.                                  *)
LEMMA ClientInv ==
  ASSUME OneProcess, DeliveryInv, NEW p \in Processes, Client(p)
  PROVE  RowsInv' /\ TaskInv(p)'
<1> USE DEF DeliveryInv
<1> DEFINE K == task[p].kind
<1>t. /\ K \in TaskKinds /\ task[p] \in TaskRecord(K) /\ task[p].mail \in MailOf(K)
      /\ task[p].batch \in SUBSET Row /\ task[p].tried \in SUBSET Row
      /\ task[p].cache \in SUBSET [name : Peers, key : Keys]
  BY TaskTypes DEF TypeInv
<1>u. DOMAIN task = Processes /\ StoreTypeOK /\ TrustTypeOK
  BY TypeParts DEF TaskTypeOK
<1>i. TaskInv(p)
  OBVIOUS
<1>j. ASSUME NEW t, Into(p, t)
      PROVE  task'[p] = t
  BY <1>j, <1>u DEF Into
<1>r. ASSUME UNCHANGED <<rows, sealings>>
      PROVE  RowsInv' /\ \A m : Sealed(m)' <=> Sealed(m)
  BY <1>r DEF RowsInv, Sealed
<1>k. ASSUME Into(p, Idle)
      PROVE  TaskInv(p)'
  BY <1>j, <1>k DEF TaskInv, Idle, Pending
<1>1. ASSUME NEW n, NEW kind \in {"send", "forward"}, NEW text, Prepare(p, n, kind, text)
      PROVE  RowsInv' /\ TaskInv(p)'
  <2>1. task'[p] = [Idle EXCEPT !.kind = kind, !.mail = text]
    BY <1>1, <1>j DEF Prepare
  <2>2. /\ task'[p].kind = kind /\ task'[p].batch = {}
        /\ task'[p].tried = {} /\ task'[p].cache = {}
    BY <2>1 DEF Idle
  <2>3. RowsInv'
    BY <1>1, <1>r DEF Prepare, mailVars
  <2> QED
    BY <2>2, <2>3 DEF TaskInv, Pending
<1>2. ASSUME NEW time \in Times, NEW e \in Fresh, Seal(p, time, e)
      PROVE  RowsInv' /\ TaskInv(p)'
  <2> DEFINE s == Sealing(Me, command[p].peer, time, task[p].mail, MyKey,
                          command[p].fetched.key, e)
             k == IF K = "send" THEN "post" ELSE "repost"
             t == [task[p] EXCEPT !.kind = k, !.mail = s]
  <2>1. K \in {"send", "forward"} /\ sealings' = sealings \cup {s}
        /\ Into(p, t) /\ UNCHANGED <<rows, messages, pinned>>
    BY <1>2 DEF Seal, UseKey
  <2>2. s.skE = e /\ s.sender_id = Me
    BY DEF Sealing
  <2> HIDE DEF s
  <2>3. /\ task'[p].kind \in {"post", "repost"} /\ task'[p].mail = s
        /\ task'[p].batch = task[p].batch /\ task'[p].tried = task[p].tried
        /\ task'[p].cache = task[p].cache
    BY <1>t, <1>j, <2>1 DEF TaskRecord
  <2>4. \A m : Sealed(m) => Sealed(m)' /\ ~Carries(m, s)
    BY <2>1, <2>2, FreshIsNew DEF Sealed
  <2>5. RowsInv'
    BY <2>1, <2>4 DEF RowsInv
  <2> QED
    BY <1>i, <2>1, <2>2, <2>3, <2>4, <2>5 DEF TaskInv, Opens, Pending
<1>3. ASSUME NEW id \in MsgIds, NEW answered, Post(p, id, answered)
      PROVE  RowsInv' /\ TaskInv(p)'
  <2> DEFINE s == task[p].mail
  <2>1. s \in sealings /\ rows' = [rows EXCEPT ![id] = RowOf(id, s)]
        /\ UNCHANGED sealings
    BY <1>3, <1>i DEF Post, TaskInv
  <2>2. RowOf(id, s).enc = s.skE /\ RowOf(id, s).ciphertext = EnvelopeOf(s).ciphertext
    BY DEF RowOf, EnvelopeOf, SealAuth
  <2>3. Sealed(RowOf(id, s))
    BY <2>1, <2>2 DEF Sealed
  <2>4. \A m : Sealed(m)' <=> Sealed(m)
    BY <2>1 DEF Sealed
  <2> HIDE DEF s
  <2>5. RowsInv'
    BY <1>u, <2>1, <2>3, <2>4 DEF RowsInv, StoreTypeOK
  <2> QED
    BY <1>3, <1>k, <2>5 DEF Post
<1>4. CASE TaskEnds(p)
  BY <1>4, <1>k, <1>r DEF TaskEnds, mailVars
<1>5. CASE Sync(p)
  <2>1. task'[p] = [Idle EXCEPT !.kind = "sync", !.batch = Inbox]
    BY <1>5, <1>j DEF Sync
  <2>2. /\ task'[p].kind = "sync" /\ task'[p].batch = Inbox
        /\ task'[p].tried = {} /\ task'[p].cache = {}
    BY <2>1 DEF Idle
  <2>3. \A m \in Inbox : Sealed(m)
    BY DEF Inbox, RowsInv
  <2>4. command'[p].pc = "prompt" /\ UNCHANGED <<rows, sealings>>
    BY <1>5 DEF Sync, Prompt, mailVars, trustVars
  <2> QED
    BY <1>r, <2>2, <2>3, <2>4 DEF TaskInv, Pending
<1>6. ASSUME NEW m \in task[p].batch, SkipMalformed(p, m)
      PROVE  RowsInv' /\ TaskInv(p)'
  <2>1. task'[p] = [task[p] EXCEPT !.batch = @ \ {m}]
    BY <1>6, <1>j DEF SkipMalformed
  <2>2. /\ task'[p].kind = "sync" /\ task'[p].batch \subseteq task[p].batch
        /\ task'[p].tried = task[p].tried /\ task'[p].cache = task[p].cache
    BY <1>6, <1>t, <2>1 DEF TaskRecord, SkipMalformed
  <2>3. UNCHANGED <<trustVars, rows, sealings, messages>> /\ K = "sync"
    BY <1>6 DEF SkipMalformed, mailVars
  <2> QED
    BY <1>i, <1>r, <2>2, <2>3 DEF TaskInv, Opens, Pending, trustVars
<1>7. ASSUME NEW m \in task[p].batch, OpenCached(p, m)
      PROVE  RowsInv' /\ TaskInv(p)'
  <2>1. task'[p] = [task[p] EXCEPT !.batch = @ \ {m}, !.tried = @ \cup {m}]
    BY <1>7, <1>j DEF OpenCached
  <2>2. /\ task'[p].kind = "sync" /\ task'[p].batch \subseteq task[p].batch
        /\ task'[p].tried = task[p].tried \cup {m} /\ task'[p].cache = task[p].cache
    BY <1>7, <1>t, <2>1 DEF TaskRecord, OpenCached
  <2>3. UNCHANGED <<trustVars, rows, sealings>> /\ K = "sync"
    BY <1>7 DEF OpenCached, mailVars
  <2>4. PICK c \in task[p].cache : c.name = m.sender_username /\ Open(m, c.key)
    BY <1>7 DEF OpenCached, Cached
  <2>5. m \in Row /\ Sealed(m)
    BY <1>i, <1>t DEF TaskInv, Pending
  <2>6. ASSUME NEW s \in sealings, Opens(m, s)
        PROVE  messages'[m.message_id] # NoRow
    BY <1>i, <1>u, <2>4, <2>5, <2>6, OpenSaves DEF TaskInv, Opens, StoreTypeOK
  <2>7. \A n \in Row : messages[n.message_id] # NoRow => messages'[n.message_id] # NoRow
    BY <1>u, <2>4, <2>5, OpenKeeps DEF Row
  <2>8. \A n, s : Opens(n, s)' <=> Opens(n, s)
    BY <2>3 DEF Opens, trustVars
  <2> QED
    BY <1>i, <1>r, <1>t, <2>2, <2>3, <2>4, <2>5, <2>6, <2>7, <2>8
       DEF TaskInv, Pending, trustVars
<1>8. ASSUME NEW m \in task[p].batch, LookupSender(p, m)
      PROVE  RowsInv' /\ TaskInv(p)'
  <2>1. task'[p] = [task[p] EXCEPT !.kind = "sender", !.mail = m]
    BY <1>8, <1>j DEF LookupSender
  <2>2. /\ task'[p].kind = "sender" /\ task'[p].mail = m
        /\ task'[p].batch = task[p].batch
        /\ task'[p].tried = task[p].tried /\ task'[p].cache = task[p].cache
    BY <1>t, <2>1 DEF TaskRecord
  <2>3. command'[p].pc = "lookup" /\ command'[p].peer = m.sender_username
    BY <1>8, <1>u DEF LookupSender, LookupUser, Fetch, TrustTypeOK
  <2>4. UNCHANGED <<pinned, rows, sealings, messages>>
    BY <1>8 DEF LookupSender, LookupUser, Fetch, mailVars
  <2>5. \A n \in Pending(p)' \cup task'[p].tried : Sealed(n)
    BY <1>i, <2>2 DEF TaskInv, Pending
  <2> QED
    BY <1>i, <1>r, <2>2, <2>3, <2>4, <2>5 DEF TaskInv, Opens
<1>9. CASE SenderUnknown(p)
  <2>1. task'[p] = [task[p] EXCEPT !.kind = "sync", !.mail = NoRow,
                                   !.batch = @ \ {task[p].mail}]
    BY <1>9, <1>j DEF SenderUnknown
  <2>2. /\ task'[p].kind = "sync" /\ task'[p].batch \subseteq task[p].batch
        /\ task'[p].tried = task[p].tried /\ task'[p].cache = task[p].cache
    BY <1>t, <2>1 DEF TaskRecord
  <2>3. command'[p].pc = "prompt"
    BY <1>9, <1>u DEF SenderUnknown, KeyChanged, GiveUp, Prompt, TrustTypeOK
  <2>4. UNCHANGED <<pinned, rows, sealings, messages>>
    BY <1>9 DEF SenderUnknown, KeyChanged, GiveUp, mailVars
  <2> QED
    BY <1>i, <1>r, <2>2, <2>3, <2>4 DEF TaskInv, Opens, Pending
<1>10. CASE OpenFirst(p)
  <2> DEFINE m == task[p].mail
             c == [name |-> command[p].peer, key |-> command[p].fetched.key]
  <2>1. task'[p] = [task[p] EXCEPT
                      !.kind = "sync", !.mail = NoRow,
                      !.batch = @ \ {m}, !.tried = @ \cup {m}, !.cache = @ \cup {c}]
    BY <1>10, <1>j DEF OpenFirst
  <2>2. /\ task'[p].kind = "sync" /\ task'[p].batch \subseteq task[p].batch
        /\ task'[p].tried = task[p].tried \cup {m}
        /\ task'[p].cache = task[p].cache \cup {c}
    <3> HIDE DEF m, c
    <3> QED
      BY <1>t, <2>1 DEF TaskRecord
  <2>3. UNCHANGED <<pinned, rows, sealings>> /\ K = "sender"
        /\ command[p].pc = "use" /\ command'[p].pc = "prompt" /\ Open(m, c.key)
    BY <1>10, <1>u DEF OpenFirst, UseKey, mailVars, Prompt, TrustTypeOK
  <2>4. c.name = m.sender_username /\ pinned[c.name] # NoPin /\ pinned[c.name].key = c.key
    BY <1>i, <2>3 DEF TaskInv, TrustInv, UsedKeyIsPinned
  <2>5. m \in Row /\ Sealed(m)
    BY <1>i, <1>t, <2>3 DEF TaskInv, Pending, MailOf
  <2> HIDE DEF m, c
  <2>6. ASSUME NEW s \in sealings, Opens(m, s)
        PROVE  messages'[m.message_id] # NoRow
    BY <1>u, <2>3, <2>4, <2>5, <2>6, OpenSaves DEF Opens, StoreTypeOK
  <2>7. \A n \in Row : messages[n.message_id] # NoRow => messages'[n.message_id] # NoRow
    BY <1>u, <2>3, <2>5, OpenKeeps DEF Row
  <2>8. \A n, s : Opens(n, s)' <=> Opens(n, s)
    BY <2>3 DEF Opens
  <2> QED
    BY <1>i, <1>r, <1>t, <2>2, <2>3, <2>4, <2>5, <2>6, <2>7, <2>8 DEF TaskInv, Pending
<1>11. CASE Lookup(p)
  <2>1. UNCHANGED <<rows, sealings, messages, task>>
    BY <1>11 DEF Lookup, mailVars
  <2>2. ASSUME NEW n \in Peers, pinned[n] # NoPin
        PROVE  pinned'[n] = pinned[n]
    BY <1>11, <1>u, <2>2
       DEF Lookup, FirstContact, KeyMatches, PinFetched, SavePin, TrustInv,
           ReadPinStands, TrustTypeOK
  <2>3. command[p].pc # "prompt" /\ command'[p].pc \in {"pin", "use"}
          /\ command'[p].peer = command[p].peer
    BY <1>11, <1>u
       DEF Lookup, FirstContact, KeyMatches, PinFetched, Goto, TrustTypeOK, CommandRecord
  <2>4. \A m \in task[p].tried : \A s : Opens(m, s)' => Opens(m, s)
    BY <1>i, <1>t, <2>2 DEF TaskInv, Opens
  <2> QED
    BY <1>i, <1>r, <1>t, <2>1, <2>2, <2>3, <2>4 DEF TaskInv, Pending
<1>12. CASE Confirm(p)
  <2>1. task[p] = Idle /\ UNCHANGED <<rows, sealings, task>>
    BY <1>12 DEF Confirm, mailVars
  <2> QED
    BY <1>r, <2>1 DEF TaskInv, Idle, Pending
<1> QED
  BY <1>1, <1>2, <1>3, <1>4, <1>5, <1>6, <1>7, <1>8, <1>9, <1>10, <1>11, <1>12
     DEF Client, SendMessage, ForwardMessage

LEMMA DeliveryInvInductive ==
  ASSUME OneProcess, DeliveryInv, [DeliveryNext]_vars
  PROVE  DeliveryInv'
<1>1. TypeInv' /\ TrustTypeOK'
  BY TypeInvInductive DEF DeliveryInv, TypeInv, DeliveryTypeOK
<1>2. TrustInv'
  BY <1>1, DeliveryIsTrustStep, TrustInvInductive DEF DeliveryInv
<1>3. RowsInv' /\ \A p \in Processes : TaskInv(p)'
  <2>1. ASSUME NEW p \in Processes, Client(p)
        PROVE  RowsInv' /\ \A q \in Processes : TaskInv(q)'
    <3>1. \A q \in Processes : q = p
      BY DEF OneProcess
    <3>2. RowsInv' /\ TaskInv(p)'
      BY <2>1, ClientInv
    <3> QED
      BY <3>1, <3>2
  <2>2. CASE UNCHANGED vars
    BY <2>2
       DEF DeliveryInv, vars, trustVars, mailVars, RowsInv, TaskInv, Sealed, Opens, Pending
  <2> QED
    BY <2>1, <2>2, WorldInv DEF DeliveryNext
<1> QED
  BY <1>1, <1>2, <1>3 DEF DeliveryInv

LEMMA DeliveryInvHolds == ASSUME OneProcess PROVE DeliverySpec => []DeliveryInv
<1>1. DeliveryInit => DeliveryInv
  <2> SUFFICES ASSUME DeliveryInit PROVE DeliveryInv
    OBVIOUS
  <2>1. TypeInv /\ TrustTypeOK
    BY TypeInvInitially DEF TypeInv, DeliveryTypeOK
  <2>2. TrustInv
    BY <2>1 DEF DeliveryInit, Init, Prompt, TrustInv, UsedKeyIsPinned, ReadPinStands
  <2>3. RowsInv /\ \A p \in Processes : TaskInv(p)
    BY DEF DeliveryInit, RowsInv, TaskInv, Idle, Pending
  <2> QED
    BY <2>1, <2>2, <2>3 DEF DeliveryInv
<1>2. DeliveryInv /\ [DeliveryNext]_vars => DeliveryInv'
  BY DeliveryInvInductive
<1> QED
  BY <1>1, <1>2, PTL DEF DeliverySpec

(***************************************************************************)
(* With one process, nothing that can be opened is skipped by a sync.      *)
(***************************************************************************)
THEOREM NothingIsSkipped ==
  ASSUME OneProcess PROVE DeliverySpec => []SyncSavesWhatOpens
<1>1. DeliveryInv => SyncSavesWhatOpens
  BY DEF DeliveryInv, TaskInv, SyncSavesWhatOpens, Opens
<1> QED
  BY <1>1, DeliveryInvHolds, PTL

(***************************************************************************)
(* With one process, a client that sends and syncs uses no key but the     *)
(* pinned one.                                                             *)
(***************************************************************************)
THEOREM DeliveryUsesPinnedKeys ==
  ASSUME OneProcess PROVE DeliverySpec => []UsedKeyIsPinned
<1>1. DeliveryInv => UsedKeyIsPinned
  BY DEF DeliveryInv, TrustInv
<1> QED
  BY <1>1, DeliveryInvHolds, PTL

(***************************************************************************)
(* With one process, what is saved is what the owner of the pinned key     *)
(* sealed for this user, with its labels, however many rows are mixed up.  *)
(***************************************************************************)
THEOREM WhatIsSavedIsAuthentic ==
  ASSUME OneProcess PROVE DeliverySpec => SavedIsAuthentic
<1> DEFINE Authentic(i) ==
      messages[i] = NoRow /\ messages'[i] # NoRow /\ messages'[i].row.sender_id # Me
        => \E s \in sealings :
             /\ Carries(messages'[i].row, s)
             /\ s.plaintext = messages'[i].plaintext
             /\ s.recipient_id = Me
             /\ s.pkR = MyKey
             /\ s.skS = pinned[messages'[i].row.sender_username].key
<1>1. ASSUME DeliveryInv, [DeliveryNext]_vars, NEW i \in MsgIds
      PROVE  Authentic(i)
  <2> USE DEF DeliveryInv
  <2>u. StoreTypeOK
    BY <1>1, TypeParts
  <2>1. CASE UNCHANGED messages
    BY <2>1
  <2>2. ASSUME NEW p \in Processes, NEW m \in task[p].batch, OpenCached(p, m)
        PROVE  Authentic(i)
    <3>1. PICK c \in task[p].cache : c.name = m.sender_username /\ Open(m, c.key)
      BY <2>2 DEF OpenCached, Cached
    <3>2. c.key = pinned[m.sender_username].key
      BY <1>1, <3>1 DEF TaskInv
    <3>3. m \in Row /\ m.recipient_id = Me /\ Sealed(m)
      BY <1>1, PendingTypes DEF Pending, TaskInv
    <3> QED
      BY <2>u, <3>1, <3>2, <3>3, OpenIsAuthentic
  <2>3. ASSUME NEW p \in Processes, OpenFirst(p)
        PROVE  Authentic(i)
    <3> DEFINE m == task[p].mail
               key == command[p].fetched.key
    <3>1. task[p].kind = "sender" /\ command[p].pc = "use" /\ Open(m, key)
      BY <2>3 DEF OpenFirst, UseKey
    <3>2. m \in Pending(p)
      BY <3>1 DEF Pending
    <3>3. m \in Row /\ m.recipient_id = Me /\ Sealed(m)
      BY <1>1, <3>2, PendingTypes DEF TaskInv
    <3>4. key = pinned[m.sender_username].key
      BY <1>1, <3>1 DEF TaskInv, TrustInv, UsedKeyIsPinned
    <3> HIDE DEF m, key
    <3> QED
      BY <2>u, <3>1, <3>3, <3>4, OpenIsAuthentic
  <2>4. ASSUME NEW p \in Processes, NEW id \in MsgIds, NEW answered \in BOOLEAN,
               Post(p, id, answered)
        PROVE  Authentic(i)
    <3> DEFINE s == task[p].mail
    <3>1. s.sender_id = Me
      BY <1>1, <2>4 DEF Post, TaskInv
    <3>2. Stored(RowOf(id, s), s.plaintext).row.sender_id = Me
      BY <3>1 DEF Stored, RowOf
    <3> QED
      BY <2>4, <2>u, <3>2 DEF Post, StoreTypeOK
  <2>5. ASSUME NEW p \in Processes, Client(p)
        PROVE  Authentic(i)
    BY <2>1, <2>2, <2>3, <2>4, <2>5
       DEF Client, SendMessage, ForwardMessage, Prepare, Seal, TaskEnds, Sync,
           SkipMalformed, LookupSender, SenderUnknown, Lookup, Confirm
  <2> QED
    BY <1>1, <2>1, <2>5 DEF DeliveryNext, PeerRotates, PeerSends, RowsMixUp, vars
<1>2. DeliveryInv /\ [DeliveryNext]_vars => [\A i \in MsgIds : Authentic(i)]_vars
  BY <1>1
<1> QED
  BY <1>2, DeliveryInvHolds, PTL DEF DeliverySpec, SavedIsAuthentic

(***************************************************************************)
(* With one process, every message this user seals, sent or forwarded, is  *)
(* sealed for the key pinned for its recipient.                            *)
(***************************************************************************)
THEOREM SealedForThePinnedKey ==
  ASSUME OneProcess PROVE DeliverySpec => SealsForThePinned
<1> DEFINE ForThePinned ==
      \A s \in sealings' \ sealings : s.skS = MyKey => s.pkR = pinned[s.recipient_id].key
<1>1. ASSUME DeliveryInv, [DeliveryNext]_vars
      PROVE  ForThePinned
  <2>1. CASE UNCHANGED sealings
    BY <2>1
  <2>2. ASSUME NEW p \in Processes, NEW time, NEW e, Seal(p, time, e)
        PROVE  ForThePinned
    BY <1>1, <2>2
       DEF Seal, UseKey, Sealing, DeliveryInv, TrustInv, UsedKeyIsPinned
  <2>3. ASSUME NEW p \in Processes, Client(p)
        PROVE  ForThePinned
    BY <2>1, <2>2, <2>3
       DEF Client, SendMessage, ForwardMessage, Prepare, Post, TaskEnds, Sync,
           SkipMalformed, LookupSender, OpenCached, SenderUnknown, OpenFirst, Lookup,
           Confirm, mailVars
  <2>4. CASE PeerSends
    <3>1. \A n \in Peers : KeyOf(n) # MyKey
      BY <1>1, KeyOfType, DeliveryConstants
         DEF DeliveryInv, TypeInv, DeliveryTypeOK, Users
    <3> QED
      BY <2>4, <3>1 DEF PeerSends, Sealing
  <2> QED
    BY <1>1, <2>1, <2>3, <2>4 DEF DeliveryNext, PeerRotates, RowsMixUp, mailVars, vars
<1>2. DeliveryInv /\ [DeliveryNext]_vars => [ForThePinned]_vars
  BY <1>1
<1> QED
  BY <1>2, DeliveryInvHolds, PTL DEF DeliverySpec, SealsForThePinned
=============================================================================
