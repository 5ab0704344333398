------------------------------ MODULE ChatLoop ------------------------------
(***************************************************************************)
(* run_chat of the C++ client: one thread of control that waits in poll,   *)
(* reads what was typed, edits the line, executes commands that block on   *)
(* the network and, after 5 s without input, synchronises.  The user types *)
(* at any time, also while the loop is blocked: the terminal keeps those   *)
(* bytes.  Another process of the same user, or the sync in progress,      *)
(* changes the thread in store.db at any time.                             *)
(*                                                                         *)
(* A word is typed, and erased, as a whole; the reading of a word is the   *)
(* reading of its bytes.                                                   *)
(***************************************************************************)
EXTENDS Naturals, Sequences

CONSTANTS
  OwnIds, PeerIds,  (* ids of messages of the user and of the peer         *)
  NoId,             (* the empty id                                        *)
  Keys,             (* what the user types, a subset of AllKeys            *)
  Numbers,          (* the numbers typed after a command                   *)
  BufSize,          (* sizeof buf, 128 bytes                               *)
  MaxKeys,          (* bound on keys pressed                               *)
  MaxChanges,       (* bound on changes of the store from elsewhere        *)
  MaxFaults         (* bound on failed syncs and failed statements         *)

Targeting == {"/delete", "/revoke", "/forward"}
Commands  == Targeting \cup {"/sync", "/list", "/back"}
Words     == Commands \cup {"number", "text", "[", "A"}  (* printable      *)
AllKeys   == Words \cup {"enter", "erase", "esc", "ctrl-d"}
Ids       == OwnIds \cup PeerIds

ASSUME KeysAssumption    == Keys \subseteq AllKeys /\ Numbers \subseteq Nat \ {0}
ASSUME BufferAssumption  == BufSize \in Nat \ {0}
ASSUME ChatBounds        == MaxKeys \in Nat /\ MaxChanges \in Nat /\ MaxFaults \in Nat
ASSUME ChatIdsAssumption == OwnIds \cap PeerIds = {} /\ NoId \notin Ids

VARIABLES
  thread,           (* list_thread(peer): what store.db holds, in order    *)
  gone,             (* ids whose rows are marked deleted                   *)
  displayed,        (* the thread as it was printed last                   *)
  pending_refresh,  (* a change has arrived while a line was being typed   *)
  input,            (* the line being composed                             *)
  typed,            (* bytes typed and not processed yet                   *)
  buffered,         (* how many of them have been read into buf            *)
  prompt,           (* the line of the screen the cursor is on             *)
  pc,               (* where run_chat is                                   *)
  command,          (* the command in progress: what it does, to which id  *)
  pressed, changes, faults    (* counters for the bounds                   *)

chatVars == <<thread, gone, displayed, pending_refresh, input, typed, buffered,
              prompt, pc, command, pressed, changes, faults>>

(* meant and echoed are what the user went by on typing a number: the      *)
(* message shown beside it, and whether the start of the line stood on the *)
(* screen, with nothing typed since.                                       *)
Byte(k)      == [key |-> k, n |-> 0, meant |-> NoId, echoed |-> FALSE]
Entry(m, r)  == [id |-> m, revoked |-> r]
Blank        == [shown |-> FALSE, new |-> FALSE, text |-> <<>>]
NoCommand    == [does |-> "/list", id |-> NoId, number |-> Byte("number")]

Init ==
  /\ thread \in {<<>>} \cup { <<Entry(m, FALSE)>> : m \in PeerIds }
  /\ gone = {} /\ displayed = <<>>
  /\ pending_refresh = FALSE
  /\ input = <<>> /\ typed = <<>> /\ buffered = 0
  /\ prompt = Blank
  /\ pc = "enter"
  /\ command = NoCommand
  /\ pressed = 0 /\ changes = 0 /\ faults = 0

Fault == faults < MaxFaults /\ faults' = faults + 1

-----------------------------------------------------------------------------
(* The thread in store.db.  A new message goes to the place its sender's   *)
(* clock gives it.                                                         *)
InThread(m) == \E i \in DOMAIN thread : thread[i].id = m
With(m) ==
  { SubSeq(thread, 1, i) \o <<Entry(m, FALSE)>> \o SubSeq(thread, i + 1, Len(thread)) :
      i \in 0 .. Len(thread) }
Without(m) ==
  { SubSeq(thread, 1, i - 1) \o SubSeq(thread, i + 1, Len(thread)) :
      i \in { j \in DOMAIN thread : thread[j].id = m } }
Marked(m) ==
  { [thread EXCEPT ![i].revoked = TRUE] : i \in { j \in DOMAIN thread : thread[j].id = m } }

Arrives(m)  == m \notin gone /\ ~InThread(m) /\ thread' \in With(m) /\ UNCHANGED gone
Goes(m)     == thread' \in Without(m) /\ gone' = gone \cup {m}
Recalled(m) == thread' \in Marked(m) /\ UNCHANGED gone

(* A sync, of this process or another, or a command of another process.    *)
StoreChanges ==
  /\ pc \notin {"line", "left"}
  /\ changes < MaxChanges
  /\ changes' = changes + 1
  /\ \E m \in Ids : Arrives(m) \/ Goes(m) \/ Recalled(m)
  /\ UNCHANGED <<displayed, pending_refresh, input, typed, buffered, prompt, pc,
                 command, pressed, faults>>

ThreadSizeChanged(a, b) == Len(a) # Len(b)        (* mutant: sizes only    *)
ThreadChanged(a, b) ==
  \/ Len(a) # Len(b)
  \/ \E i \in DOMAIN a : a[i].id # b[i].id \/ a[i].revoked # b[i].revoked

-----------------------------------------------------------------------------
(* The screen.  redraw_prompt rewrites the prompt line; full_reprint       *)
(* prints the thread of the store and a prompt below it.                   *)
RedrawPrompt ==
  prompt' = [shown |-> TRUE, new |-> pending_refresh', text |-> input']

FullReprint ==
  /\ displayed' = thread'
  /\ pending_refresh' = FALSE
  /\ RedrawPrompt

(* The user presses a key; an arrow key sends three bytes at once.         *)
LineEchoed == input # <<>> /\ typed = <<>>
Shown(n)   == IF n \in DOMAIN displayed THEN displayed[n].id ELSE NoId

Typing(bytes) ==
  /\ pc \notin {"line", "left"}
  /\ pressed < MaxKeys
  /\ pressed' = pressed + 1
  /\ typed' = typed \o bytes
  /\ UNCHANGED <<thread, gone, displayed, pending_refresh, input, buffered, prompt, pc,
                 command, changes, faults>>

Press ==
  \/ \E k \in Keys \ {"number", "esc"} : Typing(<<Byte(k)>>)
  \/ \E n \in Numbers :
       /\ "number" \in Keys
       /\ Typing(<<[key |-> "number", n |-> n, meant |-> Shown(n), echoed |-> LineEchoed]>>)
  \/ "esc" \in Keys /\ Typing(<<Byte("esc"), Byte("["), Byte("A")>>)

-----------------------------------------------------------------------------
(* On entry: a quiet sync, then the thread.  An exception leaves the chat. *)
Enter ==
  /\ pc = "enter"
  /\ displayed' = thread
  /\ pc' = "poll"
  /\ UNCHANGED <<thread, gone, pending_refresh, input, typed, buffered, command, pressed, changes, faults>>
  /\ RedrawPrompt

EnterFails ==
  /\ pc = "enter"
  /\ Fault
  /\ pc' = "left"
  /\ UNCHANGED <<thread, gone, displayed, pending_refresh, input, typed, buffered, prompt,
                 command, pressed, changes>>

(* 5 s without input: the sync starts, and the loop no longer looks at the *)
(* terminal until it is over.                                              *)
Timeout ==
  /\ pc = "poll"
  /\ typed = <<>>
  /\ pc' = "sync"
  /\ UNCHANGED <<thread, gone, displayed, pending_refresh, input, typed, buffered, prompt,
                 command, pressed, changes, faults>>

RefreshAlways ==             (* mutant: no test of input.empty()           *)
  IF ThreadChanged(displayed, thread)
  THEN FullReprint
  ELSE UNCHANGED <<displayed, pending_refresh, prompt>>
RefreshOrHint ==
  IF ~ThreadChanged(displayed, thread)
  THEN UNCHANGED <<displayed, pending_refresh, prompt>>
  ELSE IF input = <<>>
       THEN FullReprint
       ELSE pending_refresh' = TRUE /\ RedrawPrompt /\ UNCHANGED displayed

Synced ==
  /\ pc = "sync"
  /\ pc' = "poll"
  /\ UNCHANGED <<thread, gone, input, typed, buffered, command, pressed, changes, faults>>
  /\ RefreshOrHint

SyncFailsBlank ==            (* mutant: the error is printed, no prompt    *)
  /\ pc = "sync"
  /\ Fault
  /\ pc' = "poll"
  /\ prompt' = Blank
  /\ UNCHANGED <<thread, gone, displayed, pending_refresh, input, typed, buffered, command,
                 pressed, changes>>
SyncFails ==
  /\ pc = "sync"
  /\ Fault
  /\ pc' = "poll"
  /\ UNCHANGED <<thread, gone, displayed, pending_refresh, input, typed, buffered, command, pressed, changes>>
  /\ RedrawPrompt

ReadFull ==                  (* mutant: buf is taken to be full            *)
  /\ pc = "poll"
  /\ typed # <<>>
  /\ buffered' = BufSize
  /\ pc' = "line"
  /\ UNCHANGED <<thread, gone, displayed, pending_refresh, input, typed, prompt, command,
                 pressed, changes, faults>>
(* read: as much as there is, up to the size of buf.                       *)
Read ==
  /\ pc = "poll"
  /\ typed # <<>>
  /\ buffered' = IF Len(typed) < BufSize THEN Len(typed) ELSE BufSize
  /\ pc' = "line"
  /\ UNCHANGED <<thread, gone, displayed, pending_refresh, input, typed, prompt, command,
                 pressed, changes, faults>>

(* poll or read fails, or there is no terminal any more.                   *)
HangUp ==
  /\ pc = "poll"
  /\ Fault
  /\ pc' = "left"
  /\ UNCHANGED <<thread, gone, displayed, pending_refresh, input, typed, buffered, prompt,
                 command, pressed, changes>>

-----------------------------------------------------------------------------
(* The next k bytes of buf are done with; poll again after the last.       *)
Consume(k) ==
  /\ typed' = SubSeq(typed, k + 1, Len(typed))
  /\ buffered' = buffered - k

AfterByte(k) == pc' = IF buffered = k THEN "poll" ELSE "line"

At(key) == pc = "line" /\ Head(typed).key = key

Printable ==
  /\ pc = "line"
  /\ Head(typed).key \in Words
  /\ Consume(1) /\ AfterByte(1)
  /\ input' = Append(input, Head(typed))
  /\ prompt' = [prompt EXCEPT !.text = Append(@, Head(typed))]
  /\ UNCHANGED <<thread, gone, displayed, pending_refresh, command, pressed, changes, faults>>

Erase ==
  /\ At("erase")
  /\ Consume(1) /\ AfterByte(1)
  /\ UNCHANGED <<thread, gone, command, pressed, changes, faults>>
  /\ IF input # <<>>
     THEN /\ input' = SubSeq(input, 1, Len(input) - 1)
          /\ prompt' = [prompt EXCEPT !.text = SubSeq(@, 1, Len(@) - 1)]
          /\ UNCHANGED <<displayed, pending_refresh>>
     ELSE /\ UNCHANGED input
          /\ IF pending_refresh
             THEN FullReprint
             ELSE UNCHANGED <<displayed, pending_refresh, prompt>>

(* ESC [ x is dropped as far as it is in buf.                              *)
EscapeLength ==
  IF buffered > 1 /\ typed[2].key = "["
  THEN IF buffered > 2 THEN 3 ELSE 2
  ELSE 1
Escape ==
  /\ At("esc")
  /\ Consume(EscapeLength) /\ AfterByte(EscapeLength)
  /\ UNCHANGED <<thread, gone, displayed, pending_refresh, input, prompt, command, pressed, changes, faults>>

CtrlD ==
  /\ At("ctrl-d")
  /\ Consume(1)
  /\ IF input = <<>> THEN pc' = "left" ELSE AfterByte(1)
  /\ UNCHANGED <<thread, gone, displayed, pending_refresh, input, prompt, command, pressed, changes, faults>>

EnterEmpty ==
  /\ At("enter")
  /\ input = <<>>
  /\ Consume(1) /\ AfterByte(1)
  /\ UNCHANGED <<thread, gone, input, command, pressed, changes, faults>>
  /\ IF pending_refresh
     THEN FullReprint
     ELSE UNCHANGED <<displayed, pending_refresh>> /\ RedrawPrompt

-----------------------------------------------------------------------------
(* handle_line.  Words are separated by spaces; /forward takes a name too. *)
Sub       == input[1].key
Arguments == Len(input) - 1
Needed    == IF Sub = "/forward" THEN 2 ELSE 1

ResolveIndex(token) ==
  IF token.key = "number" THEN Shown(token.n) ELSE NoId

Target ==
  IF Sub \in Targeting /\ Arguments >= Needed THEN ResolveIndex(input[2]) ELSE NoId

(* A command that makes requests, anything that is no command being sent.  *)
Requests == Sub = "/sync" \/ Sub \notin Commands \/ Target # NoId

ExecuteLine ==
  /\ At("enter")
  /\ input # <<>>
  /\ Sub # "/back"
  /\ Requests
  /\ Consume(1)
  /\ input' = <<>>
  /\ prompt' = Blank
  /\ command' = [does |-> IF Sub \in Commands THEN Sub ELSE "text", id |-> Target,
                 number |-> IF Target # NoId THEN input[2] ELSE Byte("number")]
  /\ pc' = "command"
  /\ UNCHANGED <<thread, gone, displayed, pending_refresh, pressed, changes, faults>>

(* /list, a missing argument, no number or none of the thread.             *)
RejectLine ==
  /\ At("enter")
  /\ input # <<>>
  /\ Sub # "/back"
  /\ ~Requests
  /\ Consume(1) /\ AfterByte(1)
  /\ input' = <<>>
  /\ UNCHANGED <<thread, gone, command, pressed, changes, faults>>
  /\ FullReprint

LeaveByLine ==
  /\ At("enter")
  /\ input # <<>>
  /\ Sub = "/back"
  /\ Consume(1)
  /\ input' = <<>>
  /\ prompt' = Blank
  /\ pc' = "left"
  /\ UNCHANGED <<thread, gone, displayed, pending_refresh, command, pressed, changes, faults>>

(* What the command does to the thread once the server has agreed; a       *)
(* refusal or an exception leaves it as it is.                             *)
Effect ==
  CASE command.does = "/delete" -> Goes(command.id)
    [] command.does = "/revoke" -> command.id \in OwnIds /\ Recalled(command.id)
    [] command.does = "text"    -> \E m \in OwnIds : Arrives(m)
    [] OTHER                    -> FALSE

CommandDone ==
  /\ pc = "command"
  /\ Effect \/ UNCHANGED <<thread, gone>>
  /\ command' = NoCommand
  /\ AfterByte(0)
  /\ UNCHANGED <<input, typed, buffered, pressed, changes, faults>>
  /\ FullReprint

(* full_reprint after input is outside the try block: when the store       *)
(* cannot be read, the exception leaves the chat.                          *)
Reprints ==
  \/ (At("enter") \/ At("erase")) /\ input = <<>> /\ pending_refresh
  \/ At("enter") /\ input # <<>> /\ Sub # "/back" /\ ~Requests

ReprintFails ==
  /\ \/ pc = "command" /\ (Effect \/ UNCHANGED <<thread, gone>>)
     \/ Reprints /\ UNCHANGED <<thread, gone>>
  /\ Fault
  /\ pc' = "left"
  /\ UNCHANGED <<displayed, pending_refresh, input, typed, buffered, prompt, command, pressed, changes>>

-----------------------------------------------------------------------------
Loop ==
  \/ Enter \/ Timeout \/ Synced
  \/ Read \/ Printable \/ Erase \/ Escape \/ CtrlD \/ EnterEmpty
  \/ ExecuteLine \/ RejectLine \/ LeaveByLine \/ CommandDone

Failure == EnterFails \/ SyncFails \/ HangUp \/ ReprintFails

Next == Press \/ StoreChanges \/ Loop \/ Failure

Spec == Init /\ [][Next]_chatVars

(***************************************************************************)
(* Fairness.  run_chat goes on as long as it has something to do, and a    *)
(* request ends.  poll times out because MaxKeys lets the user stop typing *)
(* at some time.  Nobody is obliged to type or to finish a line.           *)
(***************************************************************************)
FairSpec == Spec /\ WF_chatVars(Loop)

-----------------------------------------------------------------------------
Token  == [key : AllKeys, n : Numbers \cup {0}, meant : Ids \cup {NoId}, echoed : BOOLEAN]
Entries == [id : Ids, revoked : BOOLEAN]
Thread == Seq(Entries)

(* Part of buf is always left while a line is processed, and a hint stands *)
(* only as long as the loop has not reprinted.                             *)
ChatTypeOK ==
  /\ thread \in Thread /\ displayed \in Thread
  /\ gone \subseteq Ids
  /\ pending_refresh \in BOOLEAN
  /\ input \in Seq(Token) /\ typed \in Seq(Token)
  /\ buffered \in 0 .. Len(typed)
  /\ prompt \in [shown : BOOLEAN, new : BOOLEAN, text : Seq(Token)]
  /\ pc \in {"enter", "poll", "sync", "line", "command", "left"}
  /\ command \in [does : Commands \cup {"text"}, id : Ids \cup {NoId}, number : Token]
  /\ pressed \in 0 .. MaxKeys /\ changes \in 0 .. MaxChanges /\ faults \in 0 .. MaxFaults
  /\ pc = "line" => buffered > 0
  /\ pc \in {"enter", "poll", "sync"} => buffered = 0

(***************************************************************************)
(* The comments in main.cpp on input and on the deferred redraw: a redraw  *)
(* in the background neither loses the line that is being composed nor     *)
(* leaves the screen behind.  Whenever the loop waits, the prompt line of  *)
(* the screen is the line as it will be executed, with "(new)" exactly     *)
(* while a change is being held back.                                      *)
(***************************************************************************)
PromptShowsLine ==
  pc \in {"poll", "sync"} =>
    prompt = [shown |-> TRUE, new |-> pending_refresh, text |-> input]

(***************************************************************************)
(* resolve_index takes a number against the thread printed last, and the   *)
(* thread is not reprinted under a line being composed.  So a command acts *)
(* on the message that stood beside the number when the user typed it,     *)
(* whatever arrives, goes or is recalled meanwhile, if by then the loop    *)
(* had echoed the start of the line and nothing typed was waiting.         *)
(***************************************************************************)
NumberMeansWhatWasShown ==
  pc = "command" /\ command.number.echoed => command.id = command.number.meant

(***************************************************************************)
(* A change of the store comes to the user's notice: again and again the   *)
(* screen shows the thread as it is, or the prompt says "(new)" beside a   *)
(* line that is not finished, unless the user leaves the chat.             *)
(***************************************************************************)
ChangesAreNoticed ==
  []<>(\/ displayed = thread
       \/ prompt.new /\ input # <<>>
       \/ pc = "left")
=============================================================================
