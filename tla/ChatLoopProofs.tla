--------------------------- MODULE ChatLoopProofs ---------------------------
(***************************************************************************)
(* The chat loop, for any messages, keys, sizes of buf and bounds: types,  *)
(* the prompt line, what a number designates, that no change is hidden and *)
(* that the loop comes back to poll.                                       *)
(***************************************************************************)
EXTENDS ChatLoop, SequenceTheorems, TLAPS

USE KeysAssumption, BufferAssumption, ChatBounds, ChatIdsAssumption

(* The parts of the type invariant that the proofs take one at a time.     *)
ThreadsOK ==
  /\ thread \in Thread /\ displayed \in Thread
  /\ gone \subseteq Ids

Prompts == [shown : BOOLEAN, new : BOOLEAN, text : Seq(Token)]
LineOK ==
  /\ pending_refresh \in BOOLEAN
  /\ input \in Seq(Token)
  /\ prompt \in Prompts

TerminalOK ==
  /\ typed \in Seq(Token)
  /\ buffered \in 0 .. Len(typed)
  /\ pressed \in 0 .. MaxKeys

PlaceOK ==
  /\ pc \in {"enter", "poll", "sync", "line", "command", "left"}
  /\ pc = "line" => buffered > 0
  /\ pc \in {"enter", "poll", "sync"} => buffered = 0

CommandRecords == [does : Commands \cup {"text"}, id : Ids \cup {NoId}, number : Token]

CommandOK == command \in CommandRecords

CountersOK == changes \in 0 .. MaxChanges /\ faults \in 0 .. MaxFaults

LEMMA TypeParts ==
  ChatTypeOK <=> ThreadsOK /\ LineOK /\ TerminalOK /\ PlaceOK /\ CommandOK /\ CountersOK
BY DEF ChatTypeOK, ThreadsOK, LineOK, TerminalOK, PlaceOK, CommandOK, CountersOK,
       Prompts, CommandRecords

-----------------------------------------------------------------------------
(* Tokens and sequences.                                                   *)
LEMMA ByteIsToken == \A k \in AllKeys : Byte(k) \in Token
BY DEF Byte, Token

LEMMA TokenFields ==
  ASSUME NEW t \in Token
  PROVE  t.key \in AllKeys /\ t.n \in Nat /\ t.meant \in Ids \cup {NoId} /\ t.echoed \in BOOLEAN
<1>1. t.key \in AllKeys /\ t.n \in Numbers \cup {0} /\ t.meant \in Ids \cup {NoId} /\ t.echoed \in BOOLEAN
  BY DEF Token
<1>2. Numbers \cup {0} \subseteq Nat
  BY DEF AllKeys
<1> QED  BY <1>1, <1>2

LEMMA NumberToken ==
  ASSUME NEW n \in Numbers, NEW m \in Ids \cup {NoId}, NEW e \in BOOLEAN
  PROVE  [key |-> "number", n |-> n, meant |-> m, echoed |-> e] \in Token
BY DEF Token, AllKeys, Words

LEMMA ShownTyped ==
  ASSUME ThreadsOK, NEW n
  PROVE  Shown(n) \in Ids \cup {NoId}
<1>1. CASE n \in DOMAIN displayed
  <2>1. DOMAIN displayed = 1 .. Len(displayed)
    BY LenProperties DEF ThreadsOK, Thread
  <2>2. displayed[n] \in Entries
    BY <1>1, <2>1, ElementOfSeq DEF ThreadsOK, Thread
  <2> QED  BY <1>1, <2>2 DEF Shown, Entries
<1>2. CASE n \notin DOMAIN displayed
  BY <1>2 DEF Shown
<1> QED  BY <1>1, <1>2

LEMMA FirstTyped ==
  ASSUME TerminalOK, typed # <<>>
  PROVE  Head(typed) = typed[1] /\ typed[1] \in Token /\ Len(typed) \in Nat \ {0}
<1>1. Len(typed) \in Nat \ {0}
  BY EmptySeq DEF TerminalOK
<1>2. typed[1] \in Token
  BY <1>1, ElementOfSeq DEF TerminalOK
<1> QED  BY <1>1, <1>2 DEF TerminalOK

LEMMA LineHasBytes ==
  ASSUME TerminalOK, PlaceOK, pc = "line"
  PROVE  /\ typed # <<>> /\ 1 \in 1 .. buffered
         /\ Head(typed) = typed[1] /\ typed[1] \in Token
<1>1. buffered \in Nat \ {0} /\ Len(typed) \in Nat \ {0}
  BY LenProperties DEF TerminalOK, PlaceOK
<1>2. typed # <<>>
  BY <1>1
<1> QED  BY <1>1, <1>2, FirstTyped

LEMMA ConsumeTyped ==
  ASSUME TerminalOK, NEW k \in 1 .. buffered, Consume(k), pressed' = pressed
  PROVE  /\ TerminalOK'
         /\ buffered' = buffered - k
         /\ Len(typed') = Len(typed) - k
         /\ \A i \in 1 .. Len(typed') : typed'[i] = typed[i + k] /\ i + k \in 2 .. Len(typed)
<1>1. Len(typed) \in Nat /\ buffered \in 0 .. Len(typed) /\ k \in Nat \ {0} /\ k <= Len(typed)
  BY LenProperties DEF TerminalOK
<1>2. \A i \in k + 1 .. Len(typed) : typed[i] \in Token
  BY <1>1, ElementOfSeq DEF TerminalOK
<1>3. /\ SubSeq(typed, k + 1, Len(typed)) \in Seq(Token)
      /\ Len(SubSeq(typed, k + 1, Len(typed))) =
           IF k + 1 <= Len(typed) THEN Len(typed) - (k + 1) + 1 ELSE 0
      /\ \A i \in 1 .. Len(typed) - (k + 1) + 1 :
           SubSeq(typed, k + 1, Len(typed))[i] = typed[(k + 1) + i - 1]
  BY <1>1, <1>2, SubSeqProperties
<1>4. typed' = SubSeq(typed, k + 1, Len(typed)) /\ buffered' = buffered - k
  BY DEF Consume
<1>5. Len(typed') = Len(typed) - k
  BY <1>1, <1>3, <1>4
<1>6. \A i \in 1 .. Len(typed') : typed'[i] = typed[i + k] /\ i + k \in 2 .. Len(typed)
  BY <1>1, <1>3, <1>4, <1>5
<1> QED  BY <1>1, <1>3, <1>4, <1>5, <1>6 DEF TerminalOK

LEMMA AfterByteTyped ==
  ASSUME PlaceOK, TerminalOK, NEW k \in 0 .. buffered, buffered' = buffered - k, AfterByte(k)
  PROVE  PlaceOK'
BY LenProperties DEF PlaceOK, TerminalOK, AfterByte

-----------------------------------------------------------------------------
LEMMA Singleton ==
  ASSUME NEW S, NEW e \in S
  PROVE  <<e>> \in Seq(S) /\ Len(<<e>>) = 1 /\ <<e>>[1] = e
OBVIOUS

(* The thread stays a sequence of entries.                                 *)
LEMMA EntriesTyped ==
  ASSUME thread \in Thread, NEW a \in Nat, NEW b \in Int, b <= Len(thread), a >= 1
  PROVE  SubSeq(thread, a, b) \in Thread
<1>1. \A i \in a .. b : thread[i] \in Entries
  BY LenProperties, ElementOfSeq DEF Thread
<1> QED  BY <1>1, SubSeqProperties DEF Thread

LEMMA WithTyped ==
  ASSUME thread \in Thread, NEW m \in Ids, thread' \in With(m)
  PROVE  thread' \in Thread
<1>1. Len(thread) \in Nat
  BY LenProperties DEF Thread
<1>2. PICK i \in 0 .. Len(thread) :
        thread' = SubSeq(thread, 1, i) \o <<Entry(m, FALSE)>> \o SubSeq(thread, i + 1, Len(thread))
  BY DEF With
<1>3. SubSeq(thread, 1, i) \in Thread /\ SubSeq(thread, i + 1, Len(thread)) \in Thread
  BY <1>1, EntriesTyped
<1>4. Entry(m, FALSE) \in Entries
  BY DEF Entry, Entries
<1>5. <<Entry(m, FALSE)>> \in Thread
  BY <1>4, Singleton DEF Thread
<1>6. SubSeq(thread, 1, i) \o <<Entry(m, FALSE)>> \in Thread
  BY <1>3, <1>5, ConcatProperties DEF Thread
<1> QED  BY <1>2, <1>3, <1>6, ConcatProperties DEF Thread

LEMMA WithoutTyped ==
  ASSUME thread \in Thread, NEW m, thread' \in Without(m)
  PROVE  thread' \in Thread
<1>1. Len(thread) \in Nat /\ DOMAIN thread = 1 .. Len(thread)
  BY LenProperties DEF Thread
<1>2. PICK i \in DOMAIN thread :
        thread' = SubSeq(thread, 1, i - 1) \o SubSeq(thread, i + 1, Len(thread))
  BY DEF Without
<1>3. SubSeq(thread, 1, i - 1) \in Thread /\ SubSeq(thread, i + 1, Len(thread)) \in Thread
  BY <1>1, EntriesTyped
<1> QED  BY <1>2, <1>3, ConcatProperties DEF Thread

LEMMA MarkedTyped ==
  ASSUME thread \in Thread, NEW m, thread' \in Marked(m)
  PROVE  thread' \in Thread
<1>1. DOMAIN thread = 1 .. Len(thread)
  BY LenProperties DEF Thread
<1>2. PICK i \in DOMAIN thread : thread' = [thread EXCEPT ![i].revoked = TRUE]
  BY DEF Marked
<1>3. thread[i] \in Entries
  BY <1>1, ElementOfSeq DEF Thread
<1>4. [thread[i] EXCEPT !.revoked = TRUE] \in Entries
  BY <1>3 DEF Entries
<1>5. thread' = [thread EXCEPT ![i] = [thread[i] EXCEPT !.revoked = TRUE]]
  BY <1>2
<1> QED  BY <1>1, <1>4, <1>5, ExceptSeq DEF Thread

(* Whatever happens to the store, the thread read from it is one.          *)
LEMMA ChangeTyped ==
  ASSUME ThreadsOK, NEW m \in Ids, Arrives(m) \/ Goes(m) \/ Recalled(m)
  PROVE  thread' \in Thread /\ gone' \subseteq Ids
BY WithTyped, WithoutTyped, MarkedTyped DEF ThreadsOK, Arrives, Goes, Recalled

LEMMA EffectTyped ==
  ASSUME ThreadsOK, CommandOK, Effect \/ UNCHANGED <<thread, gone>>
  PROVE  thread' \in Thread /\ gone' \subseteq Ids
<1>1. CASE UNCHANGED <<thread, gone>>
  BY <1>1 DEF ThreadsOK
<1>2. CASE command.does = "/delete" /\ Goes(command.id)
  <2>1. command.id \in Ids
    <3>1. thread' \in Without(command.id)
      BY <1>2 DEF Goes
    <3>2. PICK j \in DOMAIN thread : thread[j].id = command.id
      BY <3>1 DEF Without
    <3>3. thread[j] \in Entries
      BY LenProperties, ElementOfSeq DEF ThreadsOK, Thread
    <3> QED  BY <3>2, <3>3 DEF Entries
  <2> QED  BY <1>2, <2>1, ChangeTyped
<1>3. CASE command.does = "/revoke" /\ command.id \in OwnIds /\ Recalled(command.id)
  BY <1>3, ChangeTyped DEF Ids
<1>4. CASE command.does = "text" /\ \E m \in OwnIds : Arrives(m)
  BY <1>4, ChangeTyped DEF Ids
<1> QED  BY <1>1, <1>2, <1>3, <1>4 DEF Effect

-----------------------------------------------------------------------------
LEMMA RedrawTyped ==
  ASSUME RedrawPrompt, pending_refresh' \in BOOLEAN, input' \in Seq(Token)
  PROVE  prompt' \in Prompts
BY DEF RedrawPrompt, Prompts

LEMMA ReprintTyped ==
  ASSUME FullReprint, thread' \in Thread, gone' \subseteq Ids, input' \in Seq(Token)
  PROVE  ThreadsOK' /\ LineOK'
<1>1. displayed' \in Thread /\ pending_refresh' \in BOOLEAN /\ RedrawPrompt
  BY DEF FullReprint
<1> QED  BY <1>1, RedrawTyped DEF ThreadsOK, LineOK

LEMMA BlankTyped == Blank \in Prompts /\ NoCommand \in CommandRecords
<1>1. Blank \in Prompts
  BY EmptySeq DEF Blank, Prompts
<1>2. Byte("number") \in Token
  BY ByteIsToken DEF AllKeys, Words
<1>3. NoCommand \in CommandRecords
  BY <1>2 DEF NoCommand, CommandRecords, Commands
<1> QED  BY <1>1, <1>3

LEMMA FaultCounts ==
  ASSUME CountersOK, Fault, changes' = changes
  PROVE  CountersOK'
BY DEF CountersOK, Fault

LEMMA TypingTyped ==
  ASSUME TerminalOK, LineOK, PlaceOK, NEW bytes \in Seq(Token), Typing(bytes)
  PROVE  TerminalOK' /\ PlaceOK' /\ Len(typed') = Len(typed) + Len(bytes)
         /\ \A i \in 1 .. Len(typed') :
              typed'[i] = IF i <= Len(typed) THEN typed[i] ELSE bytes[i - Len(typed)]
<1>1. /\ typed' = typed \o bytes /\ buffered' = buffered
      /\ pressed' = pressed + 1 /\ pressed < MaxKeys /\ pc' = pc
  BY DEF Typing
<1>2. Len(typed) \in Nat /\ Len(bytes) \in Nat
  BY LenProperties DEF TerminalOK
<1>3. /\ typed' \in Seq(Token) /\ Len(typed') = Len(typed) + Len(bytes)
      /\ \A i \in 1 .. Len(typed') :
           typed'[i] = IF i <= Len(typed) THEN typed[i] ELSE bytes[i - Len(typed)]
  BY <1>1, ConcatProperties DEF TerminalOK
<1>4. buffered' \in 0 .. Len(typed') /\ pressed' \in 0 .. MaxKeys
  BY <1>1, <1>2, <1>3 DEF TerminalOK
<1> QED  BY <1>1, <1>3, <1>4 DEF TerminalOK, PlaceOK

(* What one press of a key puts into the terminal's queue.                 *)
NumberBytes(n) ==
  <<[key |-> "number", n |-> n, meant |-> Shown(n), echoed |-> LineEchoed]>>

LEMMA PressCases ==
  ASSUME Press, ThreadsOK
  PROVE  \E bytes \in Seq(Token) :
           /\ Typing(bytes)
           /\ \/ \A i \in 1 .. Len(bytes) : ~bytes[i].echoed
              \/ \E n \in Numbers : bytes = NumberBytes(n)
<1>1. CASE \E k \in Keys \ {"number", "esc"} : Typing(<<Byte(k)>>)
  <2>1. PICK k \in Keys : Typing(<<Byte(k)>>)
    BY <1>1
  <2>2. Byte(k) \in Token /\ ~Byte(k).echoed
    BY ByteIsToken DEF Byte
  <2>3. /\ <<Byte(k)>> \in Seq(Token)
        /\ \A i \in 1 .. Len(<<Byte(k)>>) : <<Byte(k)>>[i] = Byte(k)
    BY <2>2, Singleton
  <2> QED  BY <2>1, <2>2, <2>3
<1>2. CASE \E n \in Numbers : Typing(NumberBytes(n))
  <2>1. PICK n \in Numbers : Typing(NumberBytes(n))
    BY <1>2
  <2>2. Shown(n) \in Ids \cup {NoId} /\ LineEchoed \in BOOLEAN
    BY ShownTyped DEF LineEchoed
  <2>3. [key |-> "number", n |-> n, meant |-> Shown(n), echoed |-> LineEchoed] \in Token
    BY <2>2, NumberToken
  <2>4. NumberBytes(n) \in Seq(Token)
    BY <2>3, Singleton DEF NumberBytes
  <2> QED  BY <2>1, <2>4
<1>3. CASE Typing(<<Byte("esc"), Byte("["), Byte("A")>>)
  <2> DEFINE bytes == <<Byte("esc"), Byte("["), Byte("A")>>
  <2>1. Byte("esc") \in Token /\ Byte("[") \in Token /\ Byte("A") \in Token
    BY ByteIsToken DEF AllKeys, Words
  <2>2. bytes \in Seq(Token) /\ Len(bytes) = 3
    BY <2>1
  <2>3. bytes[1] = Byte("esc") /\ bytes[2] = Byte("[") /\ bytes[3] = Byte("A")
    OBVIOUS
  <2>4. \A i \in 1 .. Len(bytes) : ~bytes[i].echoed
    BY <2>2, <2>3 DEF Byte
  <2> QED  BY <1>3, <2>2, <2>4
<1> QED  BY <1>1, <1>2, <1>3 DEF Press, NumberBytes

-----------------------------------------------------------------------------
(* Type correctness, one lemma for the steps of the line editor and one    *)
(* for the rest of run_chat.                                               *)
Types == ThreadsOK /\ LineOK /\ TerminalOK /\ PlaceOK /\ CommandOK /\ CountersOK

LEMMA FrontTyped ==
  ASSUME NEW S, NEW s \in Seq(S), NEW n \in 0 .. Len(s)
  PROVE  /\ SubSeq(s, 1, n) \in Seq(S)
         /\ Len(SubSeq(s, 1, n)) = n
         /\ \A i \in 1 .. n : SubSeq(s, 1, n)[i] = s[i]
<1>1. Len(s) \in Nat /\ n \in Int
  BY LenProperties
<1>2. \A i \in 1 .. n : s[i] \in S
  BY <1>1, ElementOfSeq
<1>3. /\ SubSeq(s, 1, n) \in Seq(S)
      /\ Len(SubSeq(s, 1, n)) = IF 1 <= n THEN n - 1 + 1 ELSE 0
      /\ \A i \in 1 .. n - 1 + 1 : SubSeq(s, 1, n)[i] = s[1 + i - 1]
  BY <1>1, <1>2, SubSeqProperties
<1> QED  BY <1>1, <1>3

LEMMA PopTyped ==
  ASSUME LineOK, input # <<>>
  PROVE  /\ SubSeq(input, 1, Len(input) - 1) \in Seq(Token)
         /\ Len(SubSeq(input, 1, Len(input) - 1)) = Len(input) - 1
         /\ \A i \in 1 .. Len(input) - 1 : SubSeq(input, 1, Len(input) - 1)[i] = input[i]
<1>1. Len(input) - 1 \in 0 .. Len(input)
  BY EmptySeq DEF LineOK
<1> QED  BY <1>1, FrontTyped DEF LineOK

LEMMA PrintableTypes ==
  ASSUME Types, Printable
  PROVE  Types'
<1>1. /\ Head(typed) \in Token /\ 1 \in 1 .. buffered
  BY LineHasBytes DEF Printable, Types
<1>2. TerminalOK' /\ PlaceOK'
  BY <1>1, ConsumeTyped, AfterByteTyped DEF Printable, Types
<1>3. input' \in Seq(Token)
  BY <1>1, AppendProperties DEF Printable, Types, LineOK
<1>4. prompt' \in Prompts
  <2>1. prompt.text \in Seq(Token) /\ prompt \in Prompts
    BY DEF Types, LineOK, Prompts
  <2>2. Append(prompt.text, Head(typed)) \in Seq(Token)
    BY <1>1, <2>1, AppendProperties
  <2>3. prompt' = [prompt EXCEPT !.text = Append(prompt.text, Head(typed))]
    BY DEF Printable
  <2> QED  BY <2>1, <2>2, <2>3 DEF Prompts
<1>5. ThreadsOK' /\ CommandOK' /\ CountersOK' /\ pending_refresh' \in BOOLEAN
  BY DEF Types, ThreadsOK, CommandOK, CountersOK, LineOK, Printable
<1> QED  BY <1>2, <1>3, <1>4, <1>5 DEF Types, LineOK

LEMMA EraseTypes ==
  ASSUME Types, Erase, prompt.text = input
  PROVE  Types'
<1>1. 1 \in 1 .. buffered
  BY LineHasBytes DEF Erase, At, Types
<1>2. TerminalOK' /\ PlaceOK'
  BY <1>1, ConsumeTyped, AfterByteTyped DEF Erase, Types
<1>3. CommandOK' /\ CountersOK'
  BY DEF Types, CommandOK, CountersOK, Erase
<1>4. ThreadsOK' /\ LineOK'
  <2>1. CASE input # <<>>
    <3>1. input' \in Seq(Token)
      BY <2>1, PopTyped DEF Types, Erase
    <3>2. prompt' = [prompt EXCEPT !.text = input']
      BY <2>1 DEF Erase
    <3>3. prompt' \in Prompts
      BY <3>1, <3>2 DEF Types, LineOK, Prompts
    <3> QED  BY <2>1, <3>1, <3>3 DEF Types, ThreadsOK, LineOK, Erase
  <2>2. CASE input = <<>> /\ pending_refresh
    <3>1. FullReprint /\ UNCHANGED <<thread, gone, input>>
      BY <2>2 DEF Erase
    <3> QED  BY <3>1, ReprintTyped DEF Types, ThreadsOK, LineOK
  <2>3. CASE input = <<>> /\ ~pending_refresh
    BY <2>3 DEF Types, ThreadsOK, LineOK, Erase
  <2> QED  BY <2>1, <2>2, <2>3 DEF Types, LineOK
<1> QED  BY <1>2, <1>3, <1>4 DEF Types

LEMMA EscapeTypes ==
  ASSUME Types, Escape
  PROVE  Types'
<1>1. 1 \in 1 .. buffered /\ buffered \in Nat
  BY LineHasBytes, LenProperties DEF Escape, At, Types, TerminalOK
<1>2. EscapeLength \in 1 .. buffered
  BY <1>1 DEF EscapeLength
<1>3. TerminalOK' /\ PlaceOK'
  BY <1>1, <1>2, ConsumeTyped, AfterByteTyped DEF Escape, Types
<1> QED  BY <1>3 DEF Types, ThreadsOK, LineOK, CommandOK, CountersOK, Escape

LEMMA CtrlDTypes ==
  ASSUME Types, CtrlD
  PROVE  Types'
<1>1. 1 \in 1 .. buffered
  BY LineHasBytes DEF CtrlD, At, Types
<1>2. TerminalOK'
  BY <1>1, ConsumeTyped DEF CtrlD, Types
<1>3. PlaceOK'
  <2>1. CASE input = <<>>
    BY <2>1 DEF CtrlD, PlaceOK
  <2>2. CASE input # <<>>
    BY <1>1, <2>2, ConsumeTyped, AfterByteTyped DEF CtrlD, Types
  <2> QED  BY <2>1, <2>2
<1> QED  BY <1>2, <1>3 DEF Types, ThreadsOK, LineOK, CommandOK, CountersOK, CtrlD

LEMMA EnterEmptyTypes ==
  ASSUME Types, EnterEmpty
  PROVE  Types'
<1>1. 1 \in 1 .. buffered
  BY LineHasBytes DEF EnterEmpty, At, Types
<1>2. TerminalOK' /\ PlaceOK'
  BY <1>1, ConsumeTyped, AfterByteTyped DEF EnterEmpty, Types
<1>3. CommandOK' /\ CountersOK'
  BY DEF Types, CommandOK, CountersOK, EnterEmpty
<1>4. ThreadsOK' /\ LineOK'
  <2>1. CASE pending_refresh
    BY <2>1, ReprintTyped DEF Types, ThreadsOK, LineOK, EnterEmpty
  <2>2. CASE ~pending_refresh
    <3>1. prompt' \in Prompts
      BY <2>2, RedrawTyped DEF Types, LineOK, EnterEmpty
    <3> QED  BY <2>2, <3>1 DEF Types, ThreadsOK, LineOK, EnterEmpty
  <2> QED  BY <2>1, <2>2
<1> QED  BY <1>2, <1>3, <1>4 DEF Types

LEMMA TargetTyped ==
  ASSUME Types, input # <<>>
  PROVE  /\ Target \in Ids \cup {NoId}
         /\ Target # NoId => 2 \in 1 .. Len(input) /\ input[2] \in Token
                             /\ input[2].key = "number" /\ Target = Shown(input[2].n)
<1>1. Len(input) \in Nat \ {0}
  BY EmptySeq DEF Types, LineOK
<1>2. CASE Target = NoId
  BY <1>2
<1>3. CASE Target # NoId
  <2>1. Arguments >= Needed /\ Target = ResolveIndex(input[2])
    BY <1>3 DEF Target
  <2>2. 2 \in 1 .. Len(input)
    BY <1>1, <2>1 DEF Arguments, Needed
  <2>3. input[2] \in Token
    BY <2>2, ElementOfSeq DEF Types, LineOK
  <2>4. input[2].key = "number" /\ Target = Shown(input[2].n)
    BY <1>3, <2>1 DEF ResolveIndex
  <2> QED  BY <2>2, <2>3, <2>4, ShownTyped DEF Types
<1> QED  BY <1>2, <1>3

LEMMA ExecuteLineTypes ==
  ASSUME Types, ExecuteLine
  PROVE  Types'
<1>1. 1 \in 1 .. buffered
  BY LineHasBytes DEF ExecuteLine, At, Types
<1>2. TerminalOK' /\ PlaceOK'
  BY <1>1, ConsumeTyped DEF ExecuteLine, Types, PlaceOK
<1>3. CommandOK'
  <2>1. Byte("number") \in Token
    BY ByteIsToken DEF AllKeys, Words
  <2>2. command' \in CommandRecords
    BY <2>1, TargetTyped DEF ExecuteLine, CommandRecords
  <2> QED  BY <2>2 DEF CommandOK
<1>4. LineOK'
  BY EmptySeq, BlankTyped DEF Types, LineOK, ExecuteLine
<1> QED  BY <1>2, <1>3, <1>4 DEF Types, ThreadsOK, CountersOK, ExecuteLine

LEMMA RejectLineTypes ==
  ASSUME Types, RejectLine
  PROVE  Types'
<1>1. 1 \in 1 .. buffered
  BY LineHasBytes DEF RejectLine, At, Types
<1>2. TerminalOK' /\ PlaceOK'
  BY <1>1, ConsumeTyped, AfterByteTyped DEF RejectLine, Types
<1>3. ThreadsOK' /\ LineOK'
  BY EmptySeq, ReprintTyped DEF Types, ThreadsOK, RejectLine
<1> QED  BY <1>2, <1>3 DEF Types, CommandOK, CountersOK, RejectLine

LEMMA LeaveByLineTypes ==
  ASSUME Types, LeaveByLine
  PROVE  Types'
<1>1. 1 \in 1 .. buffered
  BY LineHasBytes DEF LeaveByLine, At, Types
<1>2. TerminalOK' /\ PlaceOK'
  BY <1>1, ConsumeTyped DEF LeaveByLine, Types, PlaceOK
<1>3. LineOK'
  BY EmptySeq, BlankTyped DEF Types, LineOK, LeaveByLine
<1> QED  BY <1>2, <1>3 DEF Types, ThreadsOK, CommandOK, CountersOK, LeaveByLine

LEMMA CommandDoneTypes ==
  ASSUME Types, CommandDone
  PROVE  Types'
<1>1. TerminalOK' /\ PlaceOK'
  BY LenProperties DEF Types, TerminalOK, PlaceOK, CommandDone, AfterByte
<1>2. thread' \in Thread /\ gone' \subseteq Ids
  BY EffectTyped DEF CommandDone, Types
<1>3. ThreadsOK' /\ LineOK'
  BY <1>2, ReprintTyped DEF Types, LineOK, CommandDone
<1> QED  BY <1>1, <1>3, BlankTyped DEF Types, CommandOK, CountersOK, CommandDone

LEMMA ReprintFailsTypes ==
  ASSUME Types, ReprintFails
  PROVE  Types'
<1>1. thread' \in Thread /\ gone' \subseteq Ids
  BY EffectTyped DEF ReprintFails, Types
<1> QED  BY <1>1, FaultCounts DEF Types, ThreadsOK, LineOK, TerminalOK, PlaceOK, CommandOK, ReprintFails

LEMMA EnterTypes ==
  ASSUME Types, Enter
  PROVE  Types'
<1>1. prompt' \in Prompts
  BY RedrawTyped DEF Types, LineOK, Enter
<1> QED
  BY <1>1 DEF Types, ThreadsOK, LineOK, TerminalOK, PlaceOK, CommandOK, CountersOK, Enter

LEMMA SyncedTypes ==
  ASSUME Types, Synced
  PROVE  Types'
<1>1. ThreadsOK' /\ LineOK'
  <2>1. CASE ~ThreadChanged(displayed, thread)
    BY <2>1 DEF Types, ThreadsOK, LineOK, Synced, RefreshOrHint
  <2>2. CASE ThreadChanged(displayed, thread) /\ input = <<>>
    BY <2>2, ReprintTyped DEF Types, ThreadsOK, LineOK, Synced, RefreshOrHint
  <2>3. CASE ThreadChanged(displayed, thread) /\ input # <<>>
    <3>1. prompt' \in Prompts
      BY <2>3, RedrawTyped DEF Types, LineOK, Synced, RefreshOrHint
    <3> QED  BY <2>3, <3>1 DEF Types, ThreadsOK, LineOK, Synced, RefreshOrHint
  <2> QED  BY <2>1, <2>2, <2>3
<1> QED  BY <1>1 DEF Types, TerminalOK, PlaceOK, CommandOK, CountersOK, Synced

LEMMA SyncFailsTypes ==
  ASSUME Types, SyncFails
  PROVE  Types'
<1>1. prompt' \in Prompts
  BY RedrawTyped DEF Types, LineOK, SyncFails
<1> QED
  BY <1>1, FaultCounts DEF Types, ThreadsOK, LineOK, TerminalOK, PlaceOK, CommandOK, SyncFails

LEMMA ReadTypes ==
  ASSUME Types, Read
  PROVE  Types'
<1>1. Len(typed) \in Nat \ {0}
  BY EmptySeq DEF Types, TerminalOK, Read
<1>2. buffered' \in 1 .. Len(typed)
  BY <1>1 DEF Read
<1> QED
  BY <1>1, <1>2 DEF Types, ThreadsOK, LineOK, TerminalOK, PlaceOK, CommandOK, CountersOK, Read

LEMMA LeavingTypes ==
  ASSUME Types, EnterFails \/ HangUp
  PROVE  Types'
BY FaultCounts DEF Types, ThreadsOK, LineOK, TerminalOK, PlaceOK, CommandOK, EnterFails, HangUp

LEMMA TimeoutTypes ==
  ASSUME Types, Timeout
  PROVE  Types'
BY DEF Types, ThreadsOK, LineOK, TerminalOK, PlaceOK, CommandOK, CountersOK, Timeout

LEMMA StoreChangesTypes ==
  ASSUME Types, StoreChanges
  PROVE  Types'
<1>1. thread' \in Thread /\ gone' \subseteq Ids
  BY ChangeTyped DEF StoreChanges, Types
<1> QED
  BY <1>1 DEF Types, ThreadsOK, LineOK, TerminalOK, PlaceOK, CommandOK, CountersOK, StoreChanges

LEMMA PressTypes ==
  ASSUME Types, Press
  PROVE  Types'
<1>1. PICK bytes \in Seq(Token) : Typing(bytes)
  BY PressCases DEF Types
<1>2. TerminalOK' /\ PlaceOK'
  BY <1>1, TypingTyped DEF Types
<1> QED  BY <1>1, <1>2 DEF Types, ThreadsOK, LineOK, CommandOK, CountersOK, Typing

-----------------------------------------------------------------------------
(* While the loop waits or takes a line apart, the prompt line is the      *)
(* input; entering and executing a line happen with an empty one.          *)
PromptHolds ==
  /\ pc \in {"poll", "sync", "line"} =>
       prompt = [shown |-> TRUE, new |-> pending_refresh, text |-> input]
  /\ pc \in {"enter", "command"} => input = <<>>

(* A number typed below an echoed line start still stands beside its       *)
(* message: in the line, and at the head of what is waiting.               *)
MeansShown(t) == t.echoed => t.key = "number" /\ t.meant = Shown(t.n)

NumbersHold ==
  /\ \A i \in 1 .. Len(input) : MeansShown(input[i])
  /\ \A i \in 1 .. Len(typed) :
       typed[i].echoed => i = 1 /\ input # <<>> /\ MeansShown(typed[i])
  /\ NumberMeansWhatWasShown

ChatInv == Types /\ PromptHolds /\ NumbersHold

LEMMA NoneAfterHead ==
  ASSUME Types, NumbersHold, NEW k \in 1 .. buffered, Consume(k), pressed' = pressed
  PROVE  \A i \in 1 .. Len(typed') : ~typed'[i].echoed
<1>1. \A i \in 1 .. Len(typed') : typed'[i] = typed[i + k] /\ i + k \in 2 .. Len(typed)
  BY ConsumeTyped DEF Types
<1>2. Len(typed) \in Nat
  BY LenProperties DEF Types, TerminalOK
<1>3. \A j \in 2 .. Len(typed) : ~typed[j].echoed
  BY <1>2 DEF NumbersHold
<1> QED  BY <1>1, <1>3

(* A step after which the line is empty, nothing echoed waits and no       *)
(* command starts, whatever has been reprinted.                            *)
LEMMA EmptyLineNumbers ==
  ASSUME input' = <<>>, pc' # "command", \A i \in 1 .. Len(typed') : ~typed'[i].echoed
  PROVE  NumbersHold'
<1>1. Len(input') = 0
  BY EmptySeq
<1> QED  BY <1>1 DEF NumbersHold, NumberMeansWhatWasShown

(* A step that leaves the line, the terminal's queue and the print alone.  *)
LEMMA SameNumbers ==
  ASSUME NumbersHold, UNCHANGED <<input, typed, displayed>>,
         pc' # "command" \/ UNCHANGED <<pc, command>>
  PROVE  NumbersHold'
BY DEF NumbersHold, NumberMeansWhatWasShown, MeansShown, Shown

(* Nothing waits that was typed below the start of a line when there is no *)
(* line.                                                                   *)
LEMMA NothingWaits ==
  ASSUME NumbersHold, input = <<>>
  PROVE  \A i \in 1 .. Len(typed) : ~typed[i].echoed
BY DEF NumbersHold

LEMMA PressInv ==
  ASSUME ChatInv, Press
  PROVE  PromptHolds' /\ NumbersHold'
<1>1. PICK bytes \in Seq(Token) :
        /\ Typing(bytes)
        /\ \/ \A i \in 1 .. Len(bytes) : ~bytes[i].echoed
           \/ \E n \in Numbers : bytes = NumberBytes(n)
  BY PressCases DEF ChatInv, Types
<1>2. /\ Len(typed') = Len(typed) + Len(bytes)
      /\ \A i \in 1 .. Len(typed') :
           typed'[i] = IF i <= Len(typed) THEN typed[i] ELSE bytes[i - Len(typed)]
  BY <1>1, TypingTyped DEF ChatInv, Types
<1>3. UNCHANGED <<input, displayed, pc, command, prompt, pending_refresh>>
  BY <1>1 DEF Typing
<1>4. PromptHolds'
  BY <1>3 DEF ChatInv, PromptHolds
<1>5. Len(typed) \in Nat /\ Len(bytes) \in Nat
  BY LenProperties DEF ChatInv, Types, TerminalOK
<1>6. ASSUME NEW i \in 1 .. Len(typed'), typed'[i].echoed
      PROVE  i = 1 /\ input # <<>> /\ MeansShown(typed'[i])
  <2>1. CASE i <= Len(typed)
    <3>1. typed'[i] = typed[i] /\ i \in 1 .. Len(typed)
      BY <1>2, <1>5, <2>1
    <3> QED  BY <1>6, <3>1 DEF ChatInv, NumbersHold
  <2>2. CASE ~(i <= Len(typed))
    <3>1. typed'[i] = bytes[i - Len(typed)] /\ i - Len(typed) \in 1 .. Len(bytes)
      BY <1>2, <1>5, <2>2
    <3>2. PICK n \in Numbers : bytes = NumberBytes(n)
      BY <1>1, <1>6, <3>1
    <3>3. Len(bytes) = 1 /\ bytes[1] = [key |-> "number", n |-> n, meant |-> Shown(n),
                                         echoed |-> LineEchoed]
      BY <3>2 DEF NumberBytes
    <3>4. typed'[i] = bytes[1] /\ i = Len(typed) + 1
      BY <1>5, <3>1, <3>3
    <3>5. LineEchoed
      BY <1>6, <3>3, <3>4
    <3>6. typed = <<>> /\ input # <<>>
      BY <3>5 DEF LineEchoed
    <3>7. Len(typed) = 0
      BY <3>6
    <3> QED  BY <3>3, <3>4, <3>6, <3>7 DEF MeansShown
  <2> QED  BY <2>1, <2>2
<1>7. NumbersHold'
  <2>1. \A i \in 1 .. Len(input') : MeansShown(input[i])
    BY <1>3 DEF ChatInv, NumbersHold
  <2>2. NumberMeansWhatWasShown'
    BY <1>3 DEF ChatInv, NumbersHold, NumberMeansWhatWasShown
  <2> QED  BY <1>3, <1>6, <2>1, <2>2 DEF NumbersHold, MeansShown, Shown
<1> QED  BY <1>4, <1>7

LEMMA PrintableInv ==
  ASSUME ChatInv, Printable
  PROVE  PromptHolds' /\ NumbersHold'
<1>1. /\ 1 \in 1 .. buffered /\ Head(typed) = typed[1] /\ typed[1] \in Token
      /\ typed # <<>>
  BY LineHasBytes DEF Printable, ChatInv, Types
<1>2. UNCHANGED displayed /\ input' = Append(input, typed[1]) /\ pc' # "command"
  BY <1>1 DEF Printable, AfterByte
<1>3. PromptHolds'
  <2>1. prompt = [shown |-> TRUE, new |-> pending_refresh, text |-> input]
    BY DEF ChatInv, PromptHolds, Printable
  <2>2. prompt' = [shown |-> TRUE, new |-> pending_refresh', text |-> input']
    BY <2>1 DEF Printable
  <2> QED  BY <2>2 DEF PromptHolds, Printable, AfterByte
<1>4. \A i \in 1 .. Len(typed') : ~typed'[i].echoed
  BY <1>1, NoneAfterHead DEF Printable, ChatInv
<1>5. /\ Len(input') = Len(input) + 1 /\ Len(input) \in Nat
      /\ \A i \in 1 .. Len(input) : input'[i] = input[i]
      /\ input'[Len(input) + 1] = typed[1]
  BY <1>1, <1>2, AppendProperties, LenProperties DEF ChatInv, Types, LineOK
<1>6. MeansShown(typed[1])
  <2>1. 1 \in 1 .. Len(typed)
    BY <1>1, EmptySeq DEF ChatInv, Types, TerminalOK
  <2> QED  BY <2>1 DEF ChatInv, NumbersHold, MeansShown
<1>7. \A i \in 1 .. Len(input') : MeansShown(input'[i])
  BY <1>5, <1>6 DEF ChatInv, NumbersHold
<1>8. NumbersHold'
  BY <1>2, <1>4, <1>7 DEF NumbersHold, NumberMeansWhatWasShown, MeansShown, Shown
<1> QED  BY <1>3, <1>8

LEMMA EraseInv ==
  ASSUME ChatInv, Erase
  PROVE  PromptHolds' /\ NumbersHold'
<1>1. 1 \in 1 .. buffered /\ pc' # "command" /\ pc' # "enter"
  BY LineHasBytes DEF Erase, At, ChatInv, Types, AfterByte
<1>2. \A i \in 1 .. Len(typed') : ~typed'[i].echoed
  BY <1>1, NoneAfterHead DEF Erase, ChatInv
<1>3. prompt = [shown |-> TRUE, new |-> pending_refresh, text |-> input]
  BY DEF ChatInv, PromptHolds, Erase, At
<1>4. CASE input # <<>>
  <2>1. /\ input' = SubSeq(input, 1, Len(input) - 1)
        /\ prompt' = [prompt EXCEPT !.text = SubSeq(prompt.text, 1, Len(prompt.text) - 1)]
        /\ UNCHANGED <<displayed, pending_refresh>>
    BY <1>4 DEF Erase
  <2>2. prompt' = [shown |-> TRUE, new |-> pending_refresh', text |-> input']
    BY <1>3, <2>1
  <2>3. /\ Len(input') = Len(input) - 1 /\ Len(input) \in Nat
        /\ \A i \in 1 .. Len(input') : input'[i] = input[i]
    BY <1>4, <2>1, PopTyped, LenProperties DEF ChatInv, Types, LineOK
  <2>4. \A i \in 1 .. Len(input') : MeansShown(input'[i])
    BY <2>3 DEF ChatInv, NumbersHold
  <2>5. NumbersHold'
    BY <1>1, <1>2, <2>1, <2>4 DEF NumbersHold, NumberMeansWhatWasShown, MeansShown, Shown
  <2> QED  BY <1>1, <2>2, <2>5 DEF PromptHolds
<1>5. CASE input = <<>>
  <2>1. input' = <<>>
    BY <1>5 DEF Erase
  <2>2. NumbersHold'
    BY <1>1, <1>2, <2>1, EmptyLineNumbers
  <2>3. prompt' = [shown |-> TRUE, new |-> pending_refresh', text |-> input']
    BY <1>3, <1>5 DEF Erase, FullReprint, RedrawPrompt
  <2> QED  BY <1>1, <2>2, <2>3 DEF PromptHolds
<1> QED  BY <1>4, <1>5

LEMMA EscapeInv ==
  ASSUME ChatInv, Escape
  PROVE  PromptHolds' /\ NumbersHold'
<1>1. 1 \in 1 .. buffered /\ buffered \in Nat
  BY LineHasBytes, LenProperties DEF Escape, At, ChatInv, Types, TerminalOK
<1>2. EscapeLength \in 1 .. buffered
  BY <1>1 DEF EscapeLength
<1>3. \A i \in 1 .. Len(typed') : ~typed'[i].echoed
  BY <1>2, NoneAfterHead DEF Escape, ChatInv
<1>4. PromptHolds'
  BY DEF ChatInv, PromptHolds, Escape, At, AfterByte
<1>5. NumbersHold'
  BY <1>3 DEF ChatInv, NumbersHold, NumberMeansWhatWasShown, MeansShown, Shown, Escape, AfterByte
<1> QED  BY <1>4, <1>5

LEMMA CtrlDInv ==
  ASSUME ChatInv, CtrlD
  PROVE  PromptHolds' /\ NumbersHold'
<1>1. 1 \in 1 .. buffered
  BY LineHasBytes DEF CtrlD, At, ChatInv, Types
<1>2. \A i \in 1 .. Len(typed') : ~typed'[i].echoed
  BY <1>1, NoneAfterHead DEF CtrlD, ChatInv
<1>3. PromptHolds'
  BY DEF ChatInv, PromptHolds, CtrlD, At, AfterByte
<1>4. NumbersHold'
  BY <1>2 DEF ChatInv, NumbersHold, NumberMeansWhatWasShown, MeansShown, Shown, CtrlD, AfterByte
<1> QED  BY <1>3, <1>4

LEMMA EnterEmptyInv ==
  ASSUME ChatInv, EnterEmpty
  PROVE  PromptHolds' /\ NumbersHold'
<1>1. 1 \in 1 .. buffered /\ pc' # "command" /\ pc' # "enter" /\ input' = <<>>
  BY LineHasBytes DEF EnterEmpty, At, ChatInv, Types, AfterByte
<1>2. \A i \in 1 .. Len(typed') : ~typed'[i].echoed
  BY <1>1, NoneAfterHead DEF EnterEmpty, ChatInv
<1>3. NumbersHold'
  BY <1>1, <1>2, EmptyLineNumbers
<1> QED  BY <1>1, <1>3 DEF PromptHolds, EnterEmpty, FullReprint, RedrawPrompt

LEMMA RejectLineInv ==
  ASSUME ChatInv, RejectLine
  PROVE  PromptHolds' /\ NumbersHold'
<1>1. 1 \in 1 .. buffered /\ pc' # "command" /\ pc' # "enter" /\ input' = <<>>
  BY LineHasBytes DEF RejectLine, At, ChatInv, Types, AfterByte
<1>2. \A i \in 1 .. Len(typed') : ~typed'[i].echoed
  BY <1>1, NoneAfterHead DEF RejectLine, ChatInv
<1>3. NumbersHold'
  BY <1>1, <1>2, EmptyLineNumbers
<1> QED  BY <1>1, <1>3 DEF PromptHolds, RejectLine, FullReprint, RedrawPrompt

LEMMA LeaveByLineInv ==
  ASSUME ChatInv, LeaveByLine
  PROVE  PromptHolds' /\ NumbersHold'
<1>1. 1 \in 1 .. buffered
  BY LineHasBytes DEF LeaveByLine, At, ChatInv, Types
<1>2. \A i \in 1 .. Len(typed') : ~typed'[i].echoed
  BY <1>1, NoneAfterHead DEF LeaveByLine, ChatInv
<1>3. NumbersHold'
  BY <1>2, EmptyLineNumbers DEF LeaveByLine
<1> QED  BY <1>3 DEF PromptHolds, LeaveByLine

(* The number of the line is one of its tokens, and means what is shown.   *)
LEMMA ExecuteLineInv ==
  ASSUME ChatInv, ExecuteLine
  PROVE  PromptHolds' /\ NumbersHold'
<1>1. 1 \in 1 .. buffered
  BY LineHasBytes DEF ExecuteLine, At, ChatInv, Types
<1>2. \A i \in 1 .. Len(typed') : ~typed'[i].echoed
  BY <1>1, NoneAfterHead DEF ExecuteLine, ChatInv
<1>3. command'.number.echoed => command'.id = command'.number.meant
  <2>1. CASE Target = NoId
    <3>1. command'.number = Byte("number")
      BY <2>1 DEF ExecuteLine
    <3> QED  BY <3>1 DEF Byte
  <2>2. CASE Target # NoId
    <3>1. 2 \in 1 .. Len(input) /\ Target = Shown(input[2].n)
      BY <2>2, TargetTyped DEF ChatInv, ExecuteLine
    <3>2. MeansShown(input[2])
      BY <3>1 DEF ChatInv, NumbersHold
    <3>3. command'.id = Target /\ command'.number = input[2]
      BY <2>2 DEF ExecuteLine
    <3> QED  BY <3>1, <3>2, <3>3 DEF MeansShown
  <2> QED  BY <2>1, <2>2
<1>4. Len(input') = 0 /\ input' = <<>>
  BY EmptySeq DEF ExecuteLine
<1>5. NumbersHold'
  BY <1>2, <1>3, <1>4 DEF NumbersHold, NumberMeansWhatWasShown
<1> QED  BY <1>4, <1>5 DEF PromptHolds, ExecuteLine

LEMMA CommandDoneInv ==
  ASSUME ChatInv, CommandDone
  PROVE  PromptHolds' /\ NumbersHold'
<1>1. pc' # "command" /\ pc' # "enter" /\ input' = <<>>
  BY DEF ChatInv, PromptHolds, CommandDone, AfterByte
<1>2. \A i \in 1 .. Len(typed') : ~typed'[i].echoed
  BY NothingWaits DEF ChatInv, PromptHolds, CommandDone
<1>3. NumbersHold'
  BY <1>1, <1>2, EmptyLineNumbers
<1> QED  BY <1>1, <1>3 DEF PromptHolds, CommandDone, FullReprint, RedrawPrompt

LEMMA EnterInv ==
  ASSUME ChatInv, Enter
  PROVE  PromptHolds' /\ NumbersHold'
<1>1. pc' # "command" /\ input' = <<>>
  BY DEF ChatInv, PromptHolds, Enter
<1>2. \A i \in 1 .. Len(typed') : ~typed'[i].echoed
  BY NothingWaits DEF ChatInv, PromptHolds, Enter
<1>3. NumbersHold'
  BY <1>1, <1>2, EmptyLineNumbers
<1> QED  BY <1>1, <1>3 DEF PromptHolds, Enter, RedrawPrompt

LEMMA SyncedInv ==
  ASSUME ChatInv, Synced
  PROVE  PromptHolds' /\ NumbersHold'
<1>1. pc' = "poll" /\ UNCHANGED <<input, typed>>
  BY DEF Synced
<1>2. prompt = [shown |-> TRUE, new |-> pending_refresh, text |-> input]
  BY DEF ChatInv, PromptHolds, Synced
<1>3. prompt' = [shown |-> TRUE, new |-> pending_refresh', text |-> input']
  BY <1>1, <1>2 DEF Synced, RefreshOrHint, FullReprint, RedrawPrompt
<1>4. NumbersHold'
  <2>1. CASE input = <<>>
    BY <1>1, <2>1, EmptyLineNumbers, NothingWaits DEF ChatInv
  <2>2. CASE input # <<>>
    <3>1. UNCHANGED displayed
      BY <2>2 DEF Synced, RefreshOrHint
    <3> QED  BY <1>1, <3>1, SameNumbers DEF ChatInv
  <2> QED  BY <2>1, <2>2
<1> QED  BY <1>1, <1>3, <1>4 DEF PromptHolds

LEMMA OtherStepsInv ==
  ASSUME ChatInv,
         StoreChanges \/ Timeout \/ Read \/ SyncFails \/ EnterFails \/ HangUp \/ ReprintFails
  PROVE  PromptHolds' /\ NumbersHold'
<1>1. CASE StoreChanges
  BY <1>1, SameNumbers DEF ChatInv, PromptHolds, StoreChanges
<1>2. CASE Timeout
  BY <1>2, SameNumbers DEF ChatInv, PromptHolds, Timeout
<1>3. CASE Read
  BY <1>3, SameNumbers DEF ChatInv, PromptHolds, Read
<1>4. CASE SyncFails
  BY <1>4, SameNumbers DEF ChatInv, PromptHolds, SyncFails, RedrawPrompt
<1>5. CASE EnterFails \/ HangUp \/ ReprintFails
  BY <1>5, SameNumbers DEF ChatInv, PromptHolds, EnterFails, HangUp, ReprintFails
<1> QED  BY <1>1, <1>2, <1>3, <1>4, <1>5

-----------------------------------------------------------------------------
LEMMA ChatInit == Init => ChatInv
<1> SUFFICES ASSUME Init PROVE ChatInv
  OBVIOUS
<1>1. ThreadsOK
  <2>1. ASSUME NEW m \in PeerIds PROVE <<Entry(m, FALSE)>> \in Thread
    <3>1. Entry(m, FALSE) \in Entries
      BY DEF Entry, Entries, Ids
    <3> QED  BY <3>1, Singleton DEF Thread
  <2>2. <<>> \in Thread
    BY EmptySeq DEF Thread
  <2> QED  BY <2>1, <2>2 DEF Init, ThreadsOK
<1>2. LineOK /\ TerminalOK
  <2>1. <<>> \in Seq(Token) /\ Len(<<>>) = 0
    BY EmptySeq
  <2>2. LineOK
    BY <2>1, BlankTyped DEF Init, LineOK
  <2>3. TerminalOK
    BY <2>1 DEF Init, TerminalOK
  <2> QED  BY <2>2, <2>3
<1>3. PlaceOK /\ CommandOK /\ CountersOK
  BY BlankTyped DEF Init, PlaceOK, CommandOK, CountersOK
<1>4. PromptHolds
  BY DEF Init, PromptHolds
<1>5. NumbersHold
  <2>1. Len(input) = 0 /\ Len(typed) = 0
    BY EmptySeq DEF Init
  <2> QED  BY <2>1 DEF Init, NumbersHold, NumberMeansWhatWasShown
<1> QED  BY <1>1, <1>2, <1>3, <1>4, <1>5 DEF ChatInv, Types

LEMMA ChatNext == ChatInv /\ [Next]_chatVars => ChatInv'
<1> SUFFICES ASSUME ChatInv, [Next]_chatVars PROVE ChatInv'
  OBVIOUS
<1>a. Types
  BY DEF ChatInv
<1>1. CASE UNCHANGED chatVars
  BY <1>1 DEF ChatInv, Types, ThreadsOK, LineOK, TerminalOK, PlaceOK, CommandOK, CountersOK,
              PromptHolds, NumbersHold, NumberMeansWhatWasShown, MeansShown, Shown, chatVars
<1>2. CASE Press
  BY <1>a, <1>2, PressTypes, PressInv DEF ChatInv
<1>3. CASE StoreChanges \/ Timeout \/ Read \/ Failure
  BY <1>a, <1>3, StoreChangesTypes, TimeoutTypes, ReadTypes, SyncFailsTypes, LeavingTypes,
     ReprintFailsTypes, OtherStepsInv DEF ChatInv, Failure
<1>4. CASE Enter
  BY <1>a, <1>4, EnterTypes, EnterInv DEF ChatInv
<1>5. CASE Synced
  BY <1>a, <1>5, SyncedTypes, SyncedInv DEF ChatInv
<1>6. CASE Printable
  BY <1>a, <1>6, PrintableTypes, PrintableInv DEF ChatInv
<1>7. CASE Erase
  <2>1. prompt.text = input
    BY <1>7 DEF ChatInv, PromptHolds, Erase, At
  <2> QED  BY <1>a, <1>7, <2>1, EraseTypes, EraseInv DEF ChatInv
<1>8. CASE Escape
  BY <1>a, <1>8, EscapeTypes, EscapeInv DEF ChatInv
<1>9. CASE CtrlD
  BY <1>a, <1>9, CtrlDTypes, CtrlDInv DEF ChatInv
<1>10. CASE EnterEmpty
  BY <1>a, <1>10, EnterEmptyTypes, EnterEmptyInv DEF ChatInv
<1>11. CASE ExecuteLine
  BY <1>a, <1>11, ExecuteLineTypes, ExecuteLineInv DEF ChatInv
<1>12. CASE RejectLine
  BY <1>a, <1>12, RejectLineTypes, RejectLineInv DEF ChatInv
<1>13. CASE LeaveByLine
  BY <1>a, <1>13, LeaveByLineTypes, LeaveByLineInv DEF ChatInv
<1>14. CASE CommandDone
  BY <1>a, <1>14, CommandDoneTypes, CommandDoneInv DEF ChatInv
<1> QED
  BY <1>1, <1>2, <1>3, <1>4, <1>5, <1>6, <1>7, <1>8, <1>9, <1>10, <1>11, <1>12, <1>13, <1>14
  DEF Next, Loop

LEMMA ChatInvariance == Spec => []ChatInv
BY ChatInit, ChatNext, PTL DEF Spec

(* The variables of run_chat stay of their type, for any reads, keys and   *)
(* failures.                                                               *)
THEOREM ChatTypeCorrectness == Spec => []ChatTypeOK
<1>1. ChatInv => ChatTypeOK
  BY TypeParts DEF ChatInv, Types
<1> QED  BY <1>1, ChatInvariance, PTL

(* No redraw in the background loses or hides the line being composed.     *)
THEOREM PromptAlwaysShowsLine == Spec => []PromptShowsLine
<1>1. ChatInv => PromptShowsLine
  BY DEF ChatInv, PromptHolds, PromptShowsLine
<1> QED  BY <1>1, ChatInvariance, PTL

(* A number typed below the echoed start of a line acts on the message it  *)
(* was shown beside, for any thread, size of buf and change of the store.  *)
THEOREM NumbersKeepTheirMeaning == Spec => []NumberMeansWhatWasShown
<1>1. ChatInv => NumberMeansWhatWasShown
  BY DEF ChatInv, NumbersHold
<1> QED  BY <1>1, ChatInvariance, PTL

-----------------------------------------------------------------------------
(* A change is on the screen, or announced beside an unfinished line.      *)
Noticed == displayed = thread \/ (prompt.new /\ input # <<>>)

(* What a step may not do to the screen: end a sync or a command without   *)
(* a word of what it has changed, show a thread that the store does not    *)
(* hold, or take back "(new)" before the thread is reprinted.              *)
ScreenKeepsUp ==
  /\ pc = "sync" /\ pc' # "sync" => Noticed' \/ faults' = faults + 1
  /\ pc = "command" /\ pc' # "command" => displayed' = thread' \/ faults' = faults + 1
  /\ displayed' # displayed => displayed' = thread'
  /\ pending_refresh /\ ~pending_refresh' => displayed' = thread'

(* A bound on the steps before the loop is back in poll.                   *)
StepsToPoll ==
  CASE pc \in {"enter", "sync"} -> 1
    [] pc = "line"              -> 2 * buffered
    [] pc = "command"           -> 2 * buffered + 1
    [] OTHER                    -> 0

LoopAdvances ==
  UNCHANGED <<pc, buffered>> \/ pc = "poll" \/ StepsToPoll' < StepsToPoll

(* Threads that list_thread's caller finds no difference in are the same.  *)
LEMMA NoChangeIsSame ==
  ASSUME NEW a \in Thread, NEW b \in Thread, ~ThreadChanged(a, b)
  PROVE  a = b
<1>1. a \in Seq(Entries) /\ b \in Seq(Entries) /\ Len(a) = Len(b)
  BY DEF Thread, ThreadChanged
<1>2. ASSUME NEW i \in 1 .. Len(a)
      PROVE  a[i] = b[i]
  <2>1. a[i] \in Entries /\ b[i] \in Entries
    BY <1>1, ElementOfSeq
  <2>2. i \in DOMAIN a
    BY <1>1, LenProperties
  <2>3. a[i].id = b[i].id /\ a[i].revoked = b[i].revoked
    BY <2>2 DEF ThreadChanged
  <2> QED  BY <2>1, <2>3 DEF Entries
<1> QED  BY <1>1, <1>2, SeqEqual

LEMMA SyncedKeepsUp ==
  ASSUME Types, Synced
  PROVE  ScreenKeepsUp
<1>1. pc = "sync" /\ pc' = "poll" /\ thread' = thread /\ input' = input
  BY DEF Synced
<1>2. CASE ~ThreadChanged(displayed, thread)
  <2>1. displayed = thread
    BY <1>2, NoChangeIsSame DEF Types, ThreadsOK
  <2> QED  BY <1>1, <1>2, <2>1 DEF Synced, RefreshOrHint, ScreenKeepsUp, Noticed
<1>3. CASE ThreadChanged(displayed, thread) /\ input = <<>>
  BY <1>1, <1>3 DEF Synced, RefreshOrHint, FullReprint, ScreenKeepsUp, Noticed
<1>4. CASE ThreadChanged(displayed, thread) /\ input # <<>>
  <2>1. pending_refresh' = TRUE /\ displayed' = displayed
        /\ prompt' = [shown |-> TRUE, new |-> pending_refresh', text |-> input']
    BY <1>4 DEF Synced, RefreshOrHint, RedrawPrompt
  <2> QED  BY <1>1, <1>4, <2>1 DEF ScreenKeepsUp, Noticed
<1> QED  BY <1>2, <1>3, <1>4

LEMMA StepKeepsUp == Types /\ [Next]_chatVars => ScreenKeepsUp
<1> SUFFICES ASSUME Types, [Next]_chatVars PROVE ScreenKeepsUp
  OBVIOUS
<1>1. CASE Synced
  BY <1>1, SyncedKeepsUp
<1>2. CASE SyncFails \/ ReprintFails
  BY <1>2 DEF SyncFails, ReprintFails, Fault, ScreenKeepsUp
<1>3. CASE Enter
  BY <1>3 DEF Enter, ScreenKeepsUp
<1>4. CASE CommandDone
  BY <1>4 DEF CommandDone, FullReprint, ScreenKeepsUp
<1>5. CASE Erase \/ EnterEmpty \/ RejectLine
  BY <1>5 DEF Erase, EnterEmpty, RejectLine, At, FullReprint, ScreenKeepsUp
<1>6. CASE Press \/ StoreChanges
  <2>1. UNCHANGED <<displayed, pending_refresh, pc>>
    BY <1>6 DEF Press, Typing, StoreChanges
  <2> QED  BY <2>1 DEF ScreenKeepsUp
<1>7. CASE Timeout \/ Read \/ EnterFails \/ HangUp
  BY <1>7 DEF Timeout, Read, EnterFails, HangUp, ScreenKeepsUp
<1>8. CASE Printable \/ Escape \/ CtrlD \/ ExecuteLine \/ LeaveByLine
  BY <1>8 DEF Printable, Escape, CtrlD, ExecuteLine, LeaveByLine, At, ScreenKeepsUp
<1>9. CASE UNCHANGED chatVars
  BY <1>9 DEF chatVars, ScreenKeepsUp
<1> QED
  BY <1>1, <1>2, <1>3, <1>4, <1>5, <1>6, <1>7, <1>8, <1>9 DEF Next, Loop, Failure

(* The bytes in buf only become fewer until poll is called again.          *)
LEMMA LineAdvances ==
  ASSUME Types, pc = "line", NEW k \in 1 .. buffered, buffered' = buffered - k,
         AfterByte(k) \/ pc' \in {"command", "left"}
  PROVE  StepsToPoll' < StepsToPoll
<1>1. buffered \in Nat \ {0}
  BY LenProperties DEF Types, TerminalOK, PlaceOK
<1>2. pc' \in {"poll", "line", "command", "left"}
  BY DEF AfterByte
<1> QED  BY <1>1, <1>2 DEF StepsToPoll

LEMMA StepAdvances == Types /\ [Next]_chatVars => LoopAdvances
<1> SUFFICES ASSUME Types, [Next]_chatVars PROVE LoopAdvances
  OBVIOUS
<1>1. CASE pc = "poll" \/ UNCHANGED <<pc, buffered>>
  BY <1>1 DEF LoopAdvances
<1>2. CASE pc \in {"enter", "sync"} /\ (Enter \/ EnterFails \/ Synced \/ SyncFails)
  BY <1>2 DEF Enter, EnterFails, Synced, SyncFails, LoopAdvances, StepsToPoll
<1>3. CASE CommandDone \/ ReprintFails
  <2>1. buffered' = buffered /\ buffered \in Nat /\ pc \in {"command", "line"}
    BY <1>3, LenProperties DEF CommandDone, ReprintFails, Reprints, At, Types, TerminalOK
  <2>2. pc' \in {"poll", "line", "left"} /\ (pc' = "line" => pc = "command")
    BY <1>3 DEF CommandDone, ReprintFails, AfterByte
  <2>3. pc = "line" => buffered > 0
    BY <2>1 DEF Types, PlaceOK
  <2> QED  BY <2>1, <2>2, <2>3 DEF LoopAdvances, StepsToPoll
<1>4. CASE Printable \/ Erase \/ CtrlD \/ EnterEmpty \/ ExecuteLine \/ RejectLine \/ LeaveByLine
  <2>1. pc = "line" /\ buffered' = buffered - 1
        /\ (AfterByte(1) \/ pc' \in {"command", "left"})
    BY <1>4 DEF Printable, Erase, CtrlD, EnterEmpty, ExecuteLine, RejectLine, LeaveByLine,
                At, Consume
  <2>2. 1 \in 1 .. buffered
    BY <2>1, LineHasBytes DEF Types
  <2> QED  BY <2>1, <2>2, LineAdvances DEF LoopAdvances
<1>5. CASE Escape
  <2>1. pc = "line" /\ buffered' = buffered - EscapeLength /\ AfterByte(EscapeLength)
    BY <1>5 DEF Escape, At, Consume
  <2>2. buffered \in Nat \ {0}
    BY <2>1, LenProperties DEF Types, TerminalOK, PlaceOK
  <2>3. EscapeLength \in 1 .. buffered
    BY <2>2 DEF EscapeLength
  <2> QED  BY <2>1, <2>3, LineAdvances DEF LoopAdvances
<1> QED
  BY <1>1, <1>2, <1>3, <1>4, <1>5
  DEF Next, Loop, Failure, Press, Typing, StoreChanges, Timeout, Read, HangUp,
      Enter, EnterFails, Synced, SyncFails, chatVars

(* The safety part of ChangesAreNoticed: a sync or a command that ends     *)
(* well leaves no change unnoticed, what is printed is what the store      *)
(* holds, and a deferred redraw is made good before its hint disappears,   *)
(* at whatever moment the thread changes.                                  *)
THEOREM ChangesAreNotHidden == Spec => [][ScreenKeepsUp]_chatVars
<1>1. ChatInv /\ [Next]_chatVars => ScreenKeepsUp
  BY StepKeepsUp DEF ChatInv
<1> QED  BY <1>1, ChatInvariance, PTL DEF Spec

(* And what its liveness rests on besides fairness: outside poll every     *)
(* step brings the loop nearer to the next poll, which is where it syncs.  *)
(* No sequence of bytes, and no number of them read at once, keeps it from *)
(* there, while the user types on or the store changes.                    *)
THEOREM LoopReturnsToPoll ==
  Spec => [](StepsToPoll \in Nat) /\ [][LoopAdvances]_chatVars
<1>1. ChatInv => StepsToPoll \in Nat
  BY LenProperties DEF ChatInv, Types, TerminalOK, StepsToPoll
<1>2. ChatInv /\ [Next]_chatVars => LoopAdvances
  BY StepAdvances DEF ChatInv
<1> QED  BY <1>1, <1>2, ChatInvariance, PTL DEF Spec
=============================================================================
