----------------------------- MODULE Transport -----------------------------
(***************************************************************************)
(* HTTP over TLS in the C++ client: HttpClient opens one TlsConnection per *)
(* request, writes the request, reads until the connection ends and parses *)
(* what it has read; the caller in Client looks at the status and, for     *)
(* most requests, at the body.  The network between is external; the other *)
(* end is the backend: a request it has all of is executed and answered by *)
(* a success, or refused by a 4xx before any statement has changed a row,  *)
(* or answered by a 500 when a statement threw - which says nothing of     *)
(* what the database did, for the acknowledgement of a COMMIT may be what  *)
(* was lost.  The connection is closed, as the request's                   *)
(* "Connection: close" asks; either end may fail at any point.             *)
(***************************************************************************)
EXTENDS Naturals

CONSTANTS
  Requests,
  HasBody,        (* the POSTs                                             *)
  ReadsBody,      (* those whose caller parses the body of the answer      *)
  NoRequest,
  MaxAddresses    (* bound on what a name resolves to                      *)

ASSUME TransportConstants ==
  /\ HasBody \subseteq Requests
  /\ ReadsBody \subseteq Requests
  /\ NoRequest \notin Requests
  /\ MaxAddresses \in Nat

VARIABLES
  conn,      (* the request under way and its TlsConnection                *)
  held,      (* descriptors and OpenSSL objects the process has not freed  *)
  result,    (* what the caller of each request was told                   *)
  link,      (* each request's connection, as the network and server see it *)
  served     (* requests that have taken effect in the database            *)

vars == <<conn, held, result, link, served>>

(* A request is its head and, for a POST, a body.  An answer is read as    *)
(* far as 1, within its head; 2, the blank line; 3, within its body;       *)
(* 4, all of it.                                                           *)
Length(r) == IF r \in HasBody THEN 2 ELSE 1

Separator == 2

Whole == 4

Kinds == {"fd", "ctx", "ssl"}

NoHandles == [h \in Kinds |-> 0]

Closed ==
  [req |-> NoRequest, pc |-> "idle", rest |-> 0, own |-> NoHandles, sent |-> 0, out |-> 0]

Connected(genuine) ==
  [wire |-> "open", genuine |-> genuine, arrived |-> 0, status |-> "none", parts |-> 0]

NoLink == [wire |-> "none", genuine |-> FALSE, arrived |-> 0, status |-> "none", parts |-> 0]

Init ==
  /\ conn = Closed
  /\ held = NoHandles
  /\ result = [r \in Requests |-> "none"]
  /\ link = [r \in Requests |-> NoLink]
  /\ served = {}

At(pc) == conn.pc = pc

Opened(h) == [held EXCEPT ![h] = @ + 1]

Owning(pc, h) == [conn EXCEPT !.pc = pc, !.own = [@ EXCEPT ![h] = 1]]

(* cleanup, at the end of the constructor's catch and in the destructor:   *)
(* what the object has is freed.                                           *)
Freed == [h \in Kinds |-> held[h] - conn.own[h]]

(* Every way out of request: by an exception, or with a response.          *)
LeaveAndKeep(outcome) ==             (* mutant: the object is not reset    *)
  /\ conn' = [Closed EXCEPT !.out = conn.out]
  /\ held' = Freed
  /\ result' = [result EXCEPT ![conn.req] = outcome]
Leave(outcome) ==
  /\ conn' = Closed
  /\ held' = Freed
  /\ result' = [result EXCEPT ![conn.req] = outcome]

Throw == Leave("failed") /\ UNCHANGED <<link, served>>

-----------------------------------------------------------------------------
(* The constructor of TlsConnection.                                       *)
Request(r) ==
  /\ At("idle")
  /\ result[r] = "none"
  /\ conn' = [Closed EXCEPT !.req = r, !.pc = "resolve"]
  /\ UNCHANGED <<held, result, link, served>>

Resolve ==
  /\ At("resolve")
  /\ \/ /\ \E n \in 1 .. MaxAddresses : conn' = [conn EXCEPT !.pc = "connect", !.rest = n]
        /\ UNCHANGED <<held, result, link, served>>
     \/ Throw

(* The next address: socket or connect fails, and the descriptor of the    *)
(* attempt is closed; or it is connected, to the right server or not.      *)
AddressFailsOpen ==                  (* mutant: close(fd) is forgotten     *)
  /\ At("connect")
  /\ conn.rest > 0
  /\ conn' = [conn EXCEPT !.rest = @ - 1]
  /\ held' = Opened("fd")
  /\ UNCHANGED <<result, link, served>>
AddressFails ==
  /\ At("connect")
  /\ conn.rest > 0
  /\ conn' = [conn EXCEPT !.rest = @ - 1]
  /\ UNCHANGED <<held, result, link, served>>

AddressConnects ==
  /\ At("connect")
  /\ conn.rest > 0
  /\ conn' = Owning("context", "fd")
  /\ held' = Opened("fd")
  /\ \E genuine \in BOOLEAN :
       link' = [link EXCEPT ![conn.req] = Connected(genuine)]
  /\ UNCHANGED <<result, served>>

NoAddressLeft == At("connect") /\ conn.rest = 0 /\ Throw

(* SSL_CTX_new and SSL_new, then the settings of each; any may fail.       *)
New(pc, h, settings) ==
  /\ At(pc)
  /\ conn' = Owning(settings, h)
  /\ held' = Opened(h)
  /\ UNCHANGED <<result, link, served>>

Set(pc, next) ==
  /\ At(pc)
  /\ conn' = [conn EXCEPT !.pc = next]
  /\ UNCHANGED <<held, result, link, served>>

SetUp ==
  \/ New("context", "ctx", "options") \/ Set("options", "session")
  \/ New("session", "ssl", "settings") \/ Set("settings", "handshake")

SetUpFails ==
  (At("context") \/ At("options") \/ At("session") \/ At("settings")) /\ Throw

(* SSL_VERIFY_PEER and the host name make SSL_connect fail for another     *)
(* server; it also fails by the network.                                   *)
AnyPeer == link[conn.req].wire = "open"               (* mutant: unverified *)
VerifiedPeer == link[conn.req].wire = "open" /\ link[conn.req].genuine

Handshake == At("handshake") /\ VerifiedPeer /\ Set("handshake", "write")

HandshakeFails == At("handshake") /\ Throw

-----------------------------------------------------------------------------
(* write, read_all and parse_http_response.  What is written may not       *)
(* arrive any more.  Writing to a connection that has ended throws, or     *)
(* ends the process by SIGPIPE, which is not ignored; either way the       *)
(* caller has no answer and nothing stays open.                            *)
Write ==
  /\ At("write")
  /\ conn.sent < Length(conn.req)
  /\ conn' = [conn EXCEPT !.sent = @ + 1]
  /\ link' = IF link[conn.req].wire = "open"
             THEN [link EXCEPT ![conn.req] = [link[conn.req] EXCEPT !.arrived = @ + 1]]
             ELSE link
  /\ UNCHANGED <<held, result, served>>

WriteFails ==
  /\ At("write")
  /\ conn.sent < Length(conn.req)
  /\ link[conn.req].wire # "open"
  /\ Throw

WrittenOnce ==                       (* mutant: one SSL_write, no loop     *)
  conn.sent > 0 /\ Set("write", "read")
Written == conn.sent = Length(conn.req) /\ Set("write", "read")

Read ==
  /\ At("read")
  /\ conn.out < link[conn.req].parts
  /\ conn' = [conn EXCEPT !.out = @ + 1]
  /\ UNCHANGED <<held, result, link, served>>

(* A response needs the blank line; its length is not compared with the    *)
(* headers.  A caller that parses the body of a success throws when it is  *)
(* cut short, since no proper prefix of an object parses; one that looks   *)
(* at the status alone has it.                                             *)
ParsedShort(r) ==                    (* mutant: a body cut short is taken  *)
  IF conn.out < Separator THEN "failed" ELSE link[r].status
Parsed(r) ==
  IF \/ conn.out < Separator
     \/ r \in ReadsBody /\ link[r].status = "done" /\ conn.out < Whole
  THEN "failed"
  ELSE link[r].status

(* SSL_read reports close_notify, the end of the TCP stream without it,    *)
(* or an error; the last two whether or not all that was sent was read.    *)
Ended ==
  \/ link[conn.req].wire = "notified" /\ conn.out = link[conn.req].parts
  \/ link[conn.req].wire = "cut"

ReadEnds ==
  /\ At("read")
  /\ Ended
  /\ Leave(Parsed(conn.req))
  /\ UNCHANGED <<link, served>>

ReadFails == At("read") /\ link[conn.req].wire = "cut" /\ Throw

ClientStep ==
  \/ Resolve \/ AddressFails \/ AddressConnects \/ NoAddressLeft
  \/ SetUp \/ SetUpFails \/ Handshake \/ HandshakeFails
  \/ Write \/ WriteFails \/ Written \/ Read \/ ReadEnds \/ ReadFails

-----------------------------------------------------------------------------
(* The server's end of a connection, which may outlive the request, and    *)
(* its failures.  Every 4xx of the backend is decided by what its handler  *)
(* has read, before it writes; a success is answered once the COMMIT, or   *)
(* the one UPDATE of the request, has been acknowledged.                   *)
Changed(r, l) == link' = [link EXCEPT ![r] = l] /\ UNCHANGED <<conn, held, result>>

Executes(r) ==
  /\ link[r].wire = "open"
  /\ link[r].arrived = Length(r)
  /\ link[r].status = "none"
  /\ Changed(r, [link[r] EXCEPT !.status = "done"])
  /\ served' = served \cup {r}

Refuses(r) ==
  /\ link[r].wire = "open"
  /\ link[r].arrived > 0
  /\ link[r].status = "none"
  /\ Changed(r, [link[r] EXCEPT !.status = "refused"])
  /\ UNCHANGED served

(* A statement of the handler threw: its catch rolls back and answers 500. *)
Errs(r) ==
  /\ link[r].wire = "open"
  /\ link[r].arrived = Length(r)
  /\ link[r].status = "none"
  /\ Changed(r, [link[r] EXCEPT !.status = "error"])
  /\ UNCHANGED served

(* What was thrown was the loss of an acknowledgement: the transaction is  *)
(* durable all the same, and the ROLLBACK undoes nothing.  And a handler   *)
(* whose connection has ended goes on without it.                          *)
TakesEffect(r) ==
  /\ link[r].arrived = Length(r)
  /\ link[r].status = "error" \/ (link[r].status = "none" /\ link[r].wire # "open")
  /\ r \notin served
  /\ served' = served \cup {r}
  /\ UNCHANGED <<conn, held, result, link>>

Answers(r) ==
  /\ link[r].wire = "open"
  /\ link[r].status # "none"
  /\ link[r].parts < Whole
  /\ Changed(r, [link[r] EXCEPT !.parts = @ + 1])
  /\ UNCHANGED served

Closes(r) ==
  /\ link[r].wire = "open"
  /\ link[r].parts = Whole
  /\ \E end \in {"notified", "cut"} : Changed(r, [link[r] EXCEPT !.wire = end])
  /\ UNCHANGED served

Fails(r) ==
  /\ link[r].wire = "open"
  /\ Changed(r, [link[r] EXCEPT !.wire = "cut"])
  /\ UNCHANGED served

Server(r) == Executes(r) \/ Answers(r) \/ Closes(r)

Next ==
  \/ ClientStep
  \/ \E r \in Requests :
       Request(r) \/ Server(r) \/ Refuses(r) \/ Errs(r) \/ TakesEffect(r) \/ Fails(r)

Spec == Init /\ [][Next]_vars

(* The client goes on while it can, and a server that has the request      *)
(* answers and closes.                                                     *)
FairSpec == Spec /\ WF_vars(ClientStep) /\ \A r \in Requests : WF_vars(Server(r))

-----------------------------------------------------------------------------
Handles == [Kinds -> 0 .. 1]

Outcomes == {"done", "refused", "error", "failed"}

Stages ==
  {"idle", "resolve", "connect", "context", "options", "session", "settings",
   "handshake", "write", "read"}

Connection ==
  [req : Requests \cup {NoRequest}, pc : Stages,
   rest : 0 .. MaxAddresses, own : Handles, sent : 0 .. 2, out : 0 .. Whole]

Link ==
  [wire : {"none", "open", "notified", "cut"}, genuine : BOOLEAN, arrived : 0 .. 2,
   status : {"none", "done", "refused", "error"}, parts : 0 .. Whole]

(* The types, and that the object is gone when no request is under way.    *)
TransportTypeOK ==
  /\ conn \in Connection
  /\ conn = Closed \/ (conn.req \in Requests /\ ~At("idle"))
  /\ result \in [Requests -> Outcomes \cup {"none"}]
  /\ link \in [Requests -> Link]
  /\ served \subseteq Requests

(***************************************************************************)
(* TlsConnection frees what it opened, whichever address connected and     *)
(* whichever call failed: at every moment the process holds exactly the    *)
(* handles of the connection under way, so none between two requests.      *)
(***************************************************************************)
NoHandleIsLost == held = conn.own

(***************************************************************************)
(* cpp_client/README.md: the certificate is verified against the host      *)
(* name.  Nothing of a request, the token of its head included, reaches    *)
(* another server, whichever of the addresses answered.                    *)
(***************************************************************************)
OnlyTheServerIsTold == \A r \in Requests : link[r].arrived > 0 => link[r].genuine

(***************************************************************************)
(* What a caller is told is what the server did, although the length of    *)
(* the response is never checked and the end of the stream without         *)
(* close_notify is taken for its end: a success has taken effect, with all *)
(* of the body where the caller uses it, and what was refused with a 4xx   *)
(* has not and will not.  A 500 is no refusal: like an exception it leaves *)
(* both possible, whatever catch blocks and ROLLBACKs have run.            *)
(***************************************************************************)
OutcomeIsTrue ==
  \A r \in Requests :
    /\ result[r] = "done" => r \in served
    /\ result[r] = "done" /\ r \in ReadsBody => link[r].parts = Whole
    /\ result[r] = "refused" => r \notin served

(***************************************************************************)
(* read_all has no timeout and goes on until the connection ends: a call   *)
(* returns in the end when the server, having the request, answers and     *)
(* closes, or the connection fails.                                        *)
(***************************************************************************)
CallReturns == (conn.pc # "idle") ~> (conn.pc = "idle")
=============================================================================
