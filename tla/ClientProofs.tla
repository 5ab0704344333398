---------------------------- MODULE ClientProofs ----------------------------
(***************************************************************************)
(* What is proved of the C++ client below its commands: of Transport, for  *)
(* any requests and any number of addresses, its types, that no handle is  *)
(* lost, that only the verified server is told anything, and that the      *)
(* outcome a caller sees is true; of ClientSession, for any processes and  *)
(* accounts, its types and that a published key can be recovered.          *)
(***************************************************************************)
EXTENDS Transport, ClientSession, TLAPS

LEMMA ConnectionFields ==
  ASSUME TransportTypeOK
  PROVE  /\ conn.own \in Handles /\ conn.rest \in 0 .. MaxAddresses
         /\ conn.sent \in 0 .. 2 /\ conn.out \in 0 .. Whole
         /\ conn.pc # "idle" => conn.req \in Requests
         /\ conn.pc = "idle" => conn = Closed
BY DEF TransportTypeOK, Connection, At, Closed

LEMMA ClosedType == Closed \in Connection
BY TransportConstants DEF Closed, Connection, NoHandles, Handles, Whole, Stages

LEMMA LinkStep ==
  ASSUME TransportTypeOK, NEW r \in Requests, NEW l \in Link, link' = [link EXCEPT ![r] = l]
  PROVE  link' \in [Requests -> Link]
BY DEF TransportTypeOK

(* Each field can be set on its own.                                       *)
LEMMA ConnectionUpdates ==
  ASSUME NEW c \in Connection, NEW pc \in Stages
  PROVE  /\ [c EXCEPT !.pc = pc] \in Connection
         /\ \A o \in Handles : [c EXCEPT !.pc = pc, !.own = o] \in Connection
         /\ \A n \in 0 .. MaxAddresses : [c EXCEPT !.pc = pc, !.rest = n] \in Connection
         /\ \A n \in 0 .. MaxAddresses : [c EXCEPT !.rest = n] \in Connection
         /\ \A n \in 0 .. 2 : [c EXCEPT !.sent = n] \in Connection
         /\ \A n \in 0 .. Whole : [c EXCEPT !.out = n] \in Connection
         /\ \A r \in Requests : [c EXCEPT !.req = r, !.pc = pc] \in Connection
BY DEF Connection

LEMMA LinkUpdates ==
  ASSUME NEW l \in Link
  PROVE  /\ \A n \in 0 .. 2 : [l EXCEPT !.arrived = n] \in Link
         /\ \A n \in 0 .. Whole : [l EXCEPT !.parts = n] \in Link
         /\ \A w \in {"open", "notified", "cut"} : [l EXCEPT !.wire = w] \in Link
         /\ \A s \in {"done", "refused", "error"} : [l EXCEPT !.status = s] \in Link
BY DEF Link

LEMMA LinkTypes ==
  /\ NoLink \in Link
  /\ \A genuine \in BOOLEAN : Connected(genuine) \in Link
BY DEF NoLink, Connected, Link, Whole

(* What the client has of its request is at most what passed the link: it  *)
(* bounds what arrives and makes every outcome the server's.               *)
Sound(r) ==
  /\ link[r].arrived > 0 => link[r].genuine
  /\ link[r].status = "done" => r \in served
  /\ r \in served => link[r].status # "refused" /\ link[r].arrived # 0
  /\ r \in served /\ link[r].wire = "open" => link[r].status # "none"
  /\ link[r].status = "none" => link[r].parts = 0
  /\ result[r] \in {"done", "refused", "error"} => link[r].status = result[r]
  /\ result[r] = "done" /\ r \in ReadsBody => link[r].parts = Whole
  /\ result[r] = "none" /\ (conn.req # r \/ conn.pc \in {"resolve", "connect"})
       => link[r] = NoLink

InHand ==
  conn.req \in Requests =>
    /\ result[conn.req] = "none"
    /\ link[conn.req].arrived <= conn.sent
    /\ conn.out <= link[conn.req].parts
    /\ conn.pc \in {"write", "read"} => link[conn.req].genuine

TransportInv ==
  /\ TransportTypeOK
  /\ \A r \in Requests : Sound(r)
  /\ InHand

(* What the end of a response gives the caller.                            *)
LEMMA ParsedIsTrue ==
  ASSUME TransportInv, At("read")
  PROVE  /\ Parsed(conn.req) \in Outcomes
         /\ Parsed(conn.req) \in {"done", "refused", "error"}
              => link[conn.req].status = Parsed(conn.req)
         /\ Parsed(conn.req) = "done" /\ conn.req \in ReadsBody
              => link[conn.req].parts = Whole
<1>1. conn.req \in Requests /\ conn.out \in 0 .. Whole
  BY ConnectionFields DEF TransportInv, At
<1>2. link[conn.req] \in Link /\ Sound(conn.req) /\ conn.out <= link[conn.req].parts
  BY <1>1 DEF TransportInv, TransportTypeOK, InHand
<1>3. link[conn.req].status \in {"none", "done", "refused", "error"} /\ link[conn.req].parts \in 0 .. Whole
  BY <1>2 DEF Link
<1>4. conn.out >= Separator => link[conn.req].status # "none"
  BY <1>1, <1>2, <1>3 DEF Sound, Separator, Whole
<1>5. conn.out >= Whole => link[conn.req].parts = Whole
  BY <1>1, <1>2, <1>3 DEF Whole
<1>6. conn.out < Separator \/ conn.out >= Separator
  BY <1>1 DEF Separator, Whole
<1>7. conn.out < Whole \/ conn.out >= Whole
  BY <1>1 DEF Whole
<1> QED
  BY <1>3, <1>4, <1>5, <1>6, <1>7 DEF Parsed, Outcomes

(* Every action keeps the types.                                           *)
LEMMA TypesInductive ==
  ASSUME TransportInv, [Next]_vars
  PROVE  TransportTypeOK'
<1>c. /\ conn \in Connection /\ link \in [Requests -> Link] /\ served \subseteq Requests
      /\ result \in [Requests -> Outcomes \cup {"none"}]
      /\ conn.pc # "idle" => conn.req \in Requests
      /\ conn.own \in Handles
  BY ConnectionFields DEF TransportInv, TransportTypeOK
<1>t. TransportTypeOK
  BY DEF TransportInv
<1>1. ASSUME NEW outcome \in Outcomes, Leave(outcome), UNCHANGED <<link, served>>
      PROVE  TransportTypeOK'
  BY <1>1, <1>c, ClosedType DEF Leave, TransportTypeOK
<1>2. ASSUME Throw
      PROVE  TransportTypeOK'
  BY <1>1, <1>2 DEF Throw, Outcomes
<1>3. ASSUME NEW c \in Connection, conn' = c, c.req \in Requests, c.pc # "idle",
             UNCHANGED <<result, served>>, link' \in [Requests -> Link]
      PROVE  TransportTypeOK'
  BY <1>3, <1>c DEF TransportTypeOK, At
<1>4. ASSUME NEW r \in Requests, NEW l \in Link, Changed(r, l), served' \subseteq Requests
      PROVE  TransportTypeOK'
  <2>1. link' \in [Requests -> Link]
    BY <1>4, <1>t, LinkStep DEF Changed
  <2> QED
    BY <1>4, <1>c, <1>t, <2>1 DEF Changed, TransportTypeOK, At
<1>5. ASSUME NEW pc \in Stages \ {"idle"}, NEW next \in Stages \ {"idle"}, Set(pc, next)
      PROVE  TransportTypeOK'
  <2>1. /\ [conn EXCEPT !.pc = next] \in Connection
        /\ [conn EXCEPT !.pc = next].req = conn.req /\ [conn EXCEPT !.pc = next].pc = next
    BY <1>c, ConnectionUpdates DEF Connection
  <2> QED
    BY <1>3, <1>5, <1>c, <2>1 DEF Set, At
<1>6. ASSUME NEW pc \in Stages \ {"idle"}, NEW h \in Kinds
      PROVE  /\ Owning(pc, h) \in Connection
             /\ Owning(pc, h).req = conn.req /\ Owning(pc, h).pc = pc
  <2>1. [conn.own EXCEPT ![h] = 1] \in Handles
    BY <1>c DEF Handles
  <2> QED
    BY <1>c, <2>1, ConnectionUpdates DEF Owning, Connection
<1>7. ASSUME NEW pc \in Stages \ {"idle"}, NEW h \in Kinds,
             NEW next \in Stages \ {"idle"}, New(pc, h, next)
      PROVE  TransportTypeOK'
  BY <1>3, <1>6, <1>7, <1>c DEF New, At
<1>8. ASSUME NEW r \in Requests, Request(r)
      PROVE  TransportTypeOK'
  <2>1. [Closed EXCEPT !.req = r, !.pc = "resolve"] \in Connection
    BY ClosedType, ConnectionUpdates DEF Stages
  <2> QED
    BY <1>3, <1>8, <1>c, <2>1 DEF Request, Closed
<1>9. ASSUME conn' \in Connection, conn'.req = conn.req, conn'.pc = conn.pc, ~At("idle"),
             UNCHANGED <<result, served>>, link' \in [Requests -> Link]
      PROVE  TransportTypeOK'
  BY <1>9, <1>c DEF TransportTypeOK, At
<1>10. CASE Resolve
  <2>1. ASSUME NEW n \in 1 .. MaxAddresses, conn' = [conn EXCEPT !.pc = "connect", !.rest = n],
               UNCHANGED <<held, result, link, served>>, At("resolve")
        PROVE  TransportTypeOK'
    <3>1. n \in 0 .. MaxAddresses
      BY TransportConstants
    <3>2. [conn EXCEPT !.pc = "connect", !.rest = n] \in Connection
      BY <1>c, <3>1, ConnectionUpdates DEF Stages
    <3>3. conn'.req = conn.req /\ conn'.pc = "connect"
      BY <1>c, <2>1 DEF Connection
    <3> QED
      BY <1>3, <1>c, <2>1, <3>2, <3>3 DEF At
  <2> QED
    BY <1>2, <1>10, <2>1 DEF Resolve
<1>11. CASE AddressFails
  <2>1. conn.rest - 1 \in 0 .. MaxAddresses
    BY <1>11, <1>t, ConnectionFields, TransportConstants DEF AddressFails
  <2>2. conn' \in Connection /\ conn'.req = conn.req /\ conn'.pc = conn.pc
    BY <1>11, <1>c, <2>1, ConnectionUpdates DEF AddressFails, Connection
  <2> QED
    BY <1>9, <1>11, <1>c, <2>2 DEF AddressFails, At
<1>12. CASE AddressConnects
  <2>1. link' \in [Requests -> Link]
    BY <1>12, <1>c, <1>t, LinkTypes, LinkStep DEF AddressConnects, At
  <2>2. "context" \in Stages \ {"idle"} /\ "fd" \in Kinds
    BY DEF Stages, Kinds
  <2> QED
    BY <1>3, <1>6, <1>12, <1>c, <2>1, <2>2 DEF AddressConnects, At
<1>13. CASE SetUp
  BY <1>5, <1>7, <1>13 DEF SetUp, Stages, Kinds
<1>14. CASE Write
  <2>1. conn.sent + 1 \in 0 .. 2
    BY <1>14, <1>t, ConnectionFields DEF Write, Length
  <2>2. conn' \in Connection /\ conn'.req = conn.req /\ conn'.pc = conn.pc
    BY <1>14, <1>c, <2>1, ConnectionUpdates DEF Write, Connection
  <2>3. conn.req \in Requests /\ link[conn.req] \in Link
    BY <1>14, <1>c DEF Write, At
  <2>4. link[conn.req].arrived + 1 \in 0 .. 2
    <3>1. conn.sent \in 0 .. 2 /\ conn.sent < 2 /\ link[conn.req].arrived \in 0 .. 2
      BY <1>14, <1>t, <2>3, ConnectionFields DEF Write, Length, Link
    <3>2. link[conn.req].arrived <= conn.sent
      BY <2>3 DEF TransportInv, InHand
    <3> QED
      BY <3>1, <3>2
  <2>5. [link[conn.req] EXCEPT !.arrived = @ + 1] \in Link
    BY <2>3, <2>4, LinkUpdates
  <2>6. link' \in [Requests -> Link]
    <3>1. CASE link[conn.req].wire = "open"
      <4>1. link' = [link EXCEPT ![conn.req] = [link[conn.req] EXCEPT !.arrived = @ + 1]]
        BY <1>14, <3>1 DEF Write
      <4> QED
        BY <1>t, <2>3, <2>5, <4>1, LinkStep
    <3> QED
      BY <1>14, <1>c, <3>1 DEF Write
  <2> QED
    BY <1>9, <1>14, <1>c, <2>2, <2>6 DEF Write, At
<1>15. CASE Handshake \/ Written
  BY <1>5, <1>15 DEF Handshake, Written, Stages
<1>16. CASE Read
  <2>1. conn.req \in Requests /\ link[conn.req].parts \in 0 .. Whole
    BY <1>16, <1>c DEF Read, At, Link
  <2>2. conn.out + 1 \in 0 .. Whole
    BY <1>16, <1>t, <2>1, ConnectionFields DEF Read, Whole
  <2>3. conn' \in Connection /\ conn'.req = conn.req /\ conn'.pc = conn.pc
    BY <1>16, <1>c, <2>2, ConnectionUpdates DEF Read, Connection
  <2> QED
    BY <1>9, <1>16, <1>c, <2>3 DEF Read, At
<1>17. CASE ReadEnds
  BY <1>1, <1>17, ParsedIsTrue DEF ReadEnds
<1>18. CASE NoAddressLeft \/ SetUpFails \/ HandshakeFails \/ WriteFails \/ ReadFails
  BY <1>2, <1>18 DEF NoAddressLeft, SetUpFails, HandshakeFails, WriteFails, ReadFails
<1>19. ASSUME NEW r \in Requests, Server(r) \/ Refuses(r) \/ Errs(r) \/ Fails(r)
       PROVE  TransportTypeOK'
  <2>1. link[r] \in Link /\ link[r].parts \in 0 .. Whole
    BY <1>c DEF Link
  <2>2. CASE Executes(r)
    BY <1>4, <1>c, <2>1, <2>2, LinkUpdates DEF Executes
  <2>3. CASE Refuses(r)
    BY <1>4, <1>c, <2>1, <2>3, LinkUpdates DEF Refuses
  <2>e. CASE Errs(r)
    BY <1>4, <1>c, <2>1, <2>e, LinkUpdates DEF Errs
  <2>4. CASE Answers(r)
    <3>1. link[r].parts + 1 \in 0 .. Whole
      BY <2>1, <2>4 DEF Answers, Whole
    <3> QED
      BY <1>4, <1>c, <2>1, <2>4, <3>1, LinkUpdates DEF Answers
  <2>5. CASE Closes(r)
    BY <1>4, <1>c, <2>1, <2>5, LinkUpdates DEF Closes
  <2>6. CASE Fails(r)
    BY <1>4, <1>c, <2>1, <2>6, LinkUpdates DEF Fails
  <2> QED
    BY <1>19, <2>2, <2>3, <2>e, <2>4, <2>5, <2>6 DEF Server
<1>20. ASSUME NEW r \in Requests, TakesEffect(r)
       PROVE  TransportTypeOK'
  BY <1>20, <1>t DEF TakesEffect, TransportTypeOK, At
<1>21. CASE UNCHANGED vars
  BY <1>21, <1>t DEF vars, TransportTypeOK, At
<1> QED
  BY <1>8, <1>10, <1>11, <1>12, <1>13, <1>14, <1>15, <1>16, <1>17, <1>18, <1>19, <1>20,
     <1>21
     DEF Next, ClientStep

(* Every action keeps what relates the client and the links.               *)
LEMMA LinksInductive ==
  ASSUME TransportInv, [Next]_vars
  PROVE  (\A r \in Requests : Sound(r)') /\ InHand'
<1>c. /\ conn \in Connection /\ link \in [Requests -> Link] /\ served \subseteq Requests
      /\ result \in [Requests -> Outcomes \cup {"none"}]
      /\ conn.pc # "idle" => conn.req \in Requests
      /\ conn.req = NoRequest \/ conn.req \in Requests
  BY ConnectionFields DEF TransportInv, TransportTypeOK, Connection
<1>h. (\A r \in Requests : Sound(r)) /\ InHand
  BY DEF TransportInv
<1>o. NoRequest \notin Requests
  BY TransportConstants
<1>f. /\ \A r \in Requests : link[r].parts \in 0 .. Whole /\ link[r].arrived \in 0 .. 2
      /\ conn.sent \in 0 .. 2 /\ conn.out \in 0 .. Whole
  BY <1>c DEF Link, Connection
<1>1. ASSUME NEW outcome \in Outcomes, Leave(outcome), UNCHANGED <<link, served>>,
             conn.req \in Requests,
             outcome \in {"done", "refused", "error"} => link[conn.req].status = outcome,
             outcome = "done" /\ conn.req \in ReadsBody => link[conn.req].parts = Whole
      PROVE  (\A r \in Requests : Sound(r)') /\ InHand'
  <2>1. conn' = Closed /\ conn'.req = NoRequest
    BY <1>1 DEF Leave, Closed
  <2>2. InHand'
    BY <1>o, <2>1 DEF InHand
  <2>3. ASSUME NEW r \in Requests
        PROVE  Sound(r)'
    <3>1. CASE r = conn.req
      <4>1. result'[r] = outcome
        BY <1>1, <1>c, <3>1 DEF Leave
      <4> QED
        BY <1>1, <1>h, <3>1, <4>1 DEF Sound, Outcomes
    <3>2. CASE r # conn.req
      <4>1. result'[r] = result[r]
        BY <1>1, <1>c, <3>2 DEF Leave
      <4> QED
        BY <1>1, <1>h, <3>2, <4>1 DEF Sound
    <3> QED
      BY <3>1, <3>2
  <2> QED
    BY <2>2, <2>3
<1>2. ASSUME Throw, ~At("idle")
      PROVE  (\A r \in Requests : Sound(r)') /\ InHand'
  <2>1. conn.req \in Requests /\ "failed" \in Outcomes
    BY <1>2, <1>c DEF At, Outcomes
  <2> QED
    BY <1>1, <1>2, <2>1 DEF Throw
<1>3. ASSUME conn'.req = conn.req, conn'.sent = conn.sent, conn'.out = conn.out,
             conn'.pc \in {"resolve", "connect"} => conn.pc \in {"resolve", "connect"},
             conn'.pc \in {"write", "read"}
               => conn.pc \in {"write", "read"} \/ link[conn.req].genuine,
             UNCHANGED <<result, link, served>>
      PROVE  (\A r \in Requests : Sound(r)') /\ InHand'
  BY <1>3, <1>h DEF Sound, InHand
<1>4. ASSUME NEW pc, NEW next, Set(pc, next), next \notin {"resolve", "connect"},
             next \in {"write", "read"} => pc = "write" \/ link[conn.req].genuine
      PROVE  (\A r \in Requests : Sound(r)') /\ InHand'
  BY <1>3, <1>4, <1>c DEF Set, At, Connection
<1>5. ASSUME NEW pc, NEW h, NEW next \in {"options", "settings"}, New(pc, h, next)
      PROVE  (\A r \in Requests : Sound(r)') /\ InHand'
  BY <1>3, <1>5, <1>c DEF New, Owning, Connection
<1>6. ASSUME NEW r \in Requests, Request(r)
      PROVE  (\A q \in Requests : Sound(q)') /\ InHand'
  <2>1. conn.req \notin Requests
    BY <1>6, <1>o, ConnectionFields DEF Request, TransportInv, Closed, At
  <2>2. conn'.req = r /\ conn'.pc = "resolve" /\ conn'.sent = 0 /\ conn'.out = 0
    BY <1>6 DEF Request, Closed
  <2>3. link[r] = NoLink /\ result[r] = "none"
    BY <1>6, <1>h, <2>1 DEF Request, Sound
  <2>4. InHand'
    BY <1>6, <2>2, <2>3 DEF InHand, Request, NoLink
  <2>5. \A q \in Requests : Sound(q)'
    BY <1>6, <1>h, <2>1, <2>2 DEF Sound, Request
  <2> QED
    BY <2>4, <2>5
<1>7. CASE Resolve
  BY <1>2, <1>3, <1>7, <1>c DEF Resolve, At, Connection
<1>8. CASE AddressFails
  BY <1>3, <1>8, <1>c DEF AddressFails, At, Connection
<1>9. CASE AddressConnects
  <2>1. conn.req \in Requests /\ conn.pc = "connect"
    BY <1>9, <1>c DEF AddressConnects, At
  <2>2. conn'.req = conn.req /\ conn'.sent = conn.sent /\ conn'.out = conn.out /\ conn'.pc = "context"
    BY <1>9, <1>c DEF AddressConnects, Owning, Connection
  <2>3. PICK genuine \in BOOLEAN : link' = [link EXCEPT ![conn.req] = Connected(genuine)]
    BY <1>9 DEF AddressConnects
  <2>4. /\ link'[conn.req] = Connected(genuine)
        /\ \A r \in Requests \ {conn.req} : link'[r] = link[r]
    BY <1>c, <2>1, <2>3
  <2>5. link[conn.req] = NoLink /\ result[conn.req] = "none"
    BY <1>h, <2>1 DEF Sound, InHand
  <2>6. conn.req \notin served
    BY <1>h, <2>1, <2>5 DEF Sound, NoLink
  <2>7. /\ Connected(genuine).arrived = 0 /\ Connected(genuine).status = "none"
        /\ Connected(genuine).parts = 0
    BY DEF Connected
  <2>8. InHand'
    <3>1. conn.out <= 0 /\ conn.sent >= 0
      BY <1>f, <1>h, <2>1, <2>5 DEF InHand, NoLink
    <3> QED
      BY <1>9, <2>1, <2>2, <2>4, <2>5, <2>7, <3>1 DEF InHand, AddressConnects
  <2>9. Sound(conn.req)'
    BY <1>9, <2>2, <2>4, <2>5, <2>6, <2>7 DEF Sound, AddressConnects
  <2>10. ASSUME NEW r \in Requests, r # conn.req
         PROVE  Sound(r)'
    BY <1>9, <1>h, <2>2, <2>4, <2>10 DEF Sound, AddressConnects
  <2> QED
    BY <2>2, <2>8, <2>9, <2>10
<1>10. CASE SetUp
  BY <1>4, <1>5, <1>10 DEF SetUp
<1>11. CASE Handshake
  BY <1>4, <1>11 DEF Handshake, VerifiedPeer
<1>12. CASE Write
  <2>1. conn.req \in Requests /\ conn.pc = "write"
    BY <1>12, <1>c DEF Write, At
  <2>2. /\ conn'.req = conn.req /\ conn'.sent = conn.sent + 1 /\ conn'.out = conn.out
        /\ conn'.pc = conn.pc
    BY <1>12, <1>c DEF Write, Connection
  <2>3. /\ \A r \in Requests \ {conn.req} : link'[r] = link[r]
        /\ \/ link'[conn.req] = link[conn.req]
           \/ link'[conn.req] = [link[conn.req] EXCEPT !.arrived = @ + 1]
    BY <1>12, <1>c, <2>1 DEF Write
  <2>4. /\ link'[conn.req].genuine = link[conn.req].genuine
        /\ link'[conn.req].status = link[conn.req].status
        /\ link'[conn.req].parts = link[conn.req].parts
        /\ link'[conn.req].arrived \in {link[conn.req].arrived, link[conn.req].arrived + 1}
    BY <1>c, <2>1, <2>3 DEF Link
  <2>5. link[conn.req].genuine /\ result[conn.req] = "none"
    BY <1>h, <2>1 DEF InHand
  <2>6. InHand'
    <3>1. link'[conn.req].arrived <= conn'.sent
      BY <1>f, <1>h, <2>1, <2>2, <2>4 DEF InHand
    <3> QED
      BY <1>12, <1>h, <2>1, <2>2, <2>4, <2>5, <3>1 DEF InHand, Write
  <2>7. Sound(conn.req)'
    <3>1. link[conn.req].arrived # 0 => link'[conn.req].arrived # 0
      BY <1>f, <2>1, <2>4
    <3>2. link'[conn.req].wire = link[conn.req].wire
      BY <1>c, <2>1, <2>3 DEF Link
    <3> QED
      BY <1>12, <1>h, <2>1, <2>2, <2>4, <2>5, <3>1, <3>2 DEF Sound, Write
  <2>8. ASSUME NEW r \in Requests, r # conn.req
        PROVE  Sound(r)'
    BY <1>12, <1>h, <2>2, <2>3, <2>8 DEF Sound, Write
  <2> QED
    BY <2>2, <2>6, <2>7, <2>8
<1>13. CASE Written
  BY <1>4, <1>13 DEF Written
<1>14. CASE Read
  <2>1. conn.req \in Requests /\ conn.pc = "read"
    BY <1>14, <1>c DEF Read, At
  <2>2. /\ conn'.req = conn.req /\ conn'.sent = conn.sent /\ conn'.out = conn.out + 1
        /\ conn'.pc = conn.pc
    BY <1>14, <1>c DEF Read, Connection
  <2>3. conn.out + 1 <= link[conn.req].parts
    BY <1>14, <1>f, <2>1 DEF Read
  <2> QED
    BY <1>14, <1>h, <2>1, <2>2, <2>3 DEF Read, Sound, InHand
<1>15. CASE ReadEnds
  <2>1. conn.req \in Requests /\ At("read")
    BY <1>15, <1>c DEF ReadEnds, At
  <2> QED
    BY <1>1, <1>15, <2>1, ParsedIsTrue DEF ReadEnds
<1>16. CASE NoAddressLeft \/ SetUpFails \/ HandshakeFails \/ WriteFails \/ ReadFails
  BY <1>2, <1>16 DEF NoAddressLeft, SetUpFails, HandshakeFails, WriteFails, ReadFails, At
<1>17. ASSUME NEW r \in Requests, Server(r) \/ Refuses(r) \/ Errs(r) \/ Fails(r)
       PROVE  (\A q \in Requests : Sound(q)') /\ InHand'
  <2>1. link[r] \in Link /\ link[r] # NoLink
    BY <1>17, <1>c DEF Server, Executes, Refuses, Errs, Answers, Closes, Fails, NoLink
  <2>2. ~(result[r] = "none" /\ (conn.req # r \/ conn.pc \in {"resolve", "connect"}))
    BY <1>h, <2>1 DEF Sound
  <2>3. UNCHANGED <<conn, result>> /\ \A q \in Requests \ {r} : link'[q] = link[q]
    BY <1>17, <1>c DEF Server, Executes, Refuses, Errs, Answers, Closes, Fails, Changed
  <2>4. /\ link'[r].genuine = link[r].genuine /\ link'[r].arrived = link[r].arrived
        /\ link'[r].parts \in {link[r].parts, link[r].parts + 1}
    BY <1>17, <1>c, <2>1
       DEF Server, Executes, Refuses, Errs, Answers, Closes, Fails, Changed, Link
  <2>g. link'[r].arrived > 0 => link'[r].genuine
    BY <1>h, <2>4 DEF Sound
  <2>5. InHand'
    BY <1>h, <1>f, <2>3, <2>4 DEF InHand
  <2>6. ASSUME NEW q \in Requests, q # r
        PROVE  Sound(q)'
    <3>1. q \in served' <=> q \in served
      BY <1>17, <2>6 DEF Server, Executes, Refuses, Errs, Answers, Closes, Fails
    <3> QED
      BY <1>h, <2>3, <2>6, <3>1 DEF Sound
  <2>s. ASSUME link'[r].status = "done" => r \in served',
               r \in served' => link'[r].status # "refused" /\ link'[r].arrived # 0,
               r \in served' /\ link'[r].wire = "open" => link'[r].status # "none",
               link'[r].status = "none" => link'[r].parts = 0,
               result[r] \in {"done", "refused", "error"} => link'[r].status = result[r],
               result[r] = "done" /\ r \in ReadsBody => link'[r].parts = Whole
        PROVE  Sound(r)'
    BY <2>2, <2>3, <2>g, <2>s DEF Sound
  <2>p. /\ link[r].status = "done" => r \in served
        /\ r \in served => link[r].status # "refused" /\ link[r].arrived # 0
        /\ r \in served /\ link[r].wire = "open" => link[r].status # "none"
        /\ link[r].status = "none" => link[r].parts = 0
        /\ result[r] \in {"done", "refused", "error"} => link[r].status = result[r]
        /\ result[r] = "done" /\ r \in ReadsBody => link[r].parts = Whole
    BY <1>h DEF Sound
  <2>7. CASE Executes(r)
    <3>1. /\ link'[r].status = "done" /\ link'[r].parts = link[r].parts
          /\ served' = served \cup {r} /\ link[r].status = "none"
          /\ link[r].arrived = Length(r)
      BY <1>c, <2>1, <2>7 DEF Executes, Changed, Link
    <3>2. link'[r].arrived # 0
      BY <2>4, <3>1 DEF Length
    <3> QED
      BY <2>5, <2>6, <2>s, <2>p, <3>1, <3>2
  <2>8. CASE Refuses(r)
    <3>1. /\ link'[r].status = "refused" /\ link'[r].parts = link[r].parts
          /\ served' = served /\ link[r].status = "none" /\ link[r].wire = "open"
      BY <1>c, <2>1, <2>8 DEF Refuses, Changed, Link
    <3> QED
      BY <2>5, <2>6, <2>s, <2>p, <3>1
  <2>e. CASE Errs(r)
    <3>1. /\ link'[r].status = "error" /\ link'[r].parts = link[r].parts
          /\ served' = served /\ link[r].status = "none" /\ link[r].wire = "open"
      BY <1>c, <2>1, <2>e DEF Errs, Changed, Link
    <3> QED
      BY <2>5, <2>6, <2>s, <2>p, <3>1
  <2>9. CASE Answers(r)
    <3>1. /\ link'[r].status = link[r].status /\ link[r].status # "none"
          /\ served' = served /\ link[r].parts < Whole
      BY <1>c, <2>1, <2>9 DEF Answers, Changed, Link
    <3>a. link'[r].arrived = link[r].arrived
      BY <2>4
    <3>2. link[r].parts # Whole
      BY <1>f, <3>1 DEF Whole
    <3> QED
      BY <2>5, <2>6, <2>s, <2>p, <2>4, <3>1, <3>2, <3>a
  <2>10. CASE Closes(r) \/ Fails(r)
    <3>1. /\ link'[r].status = link[r].status /\ link'[r].parts = link[r].parts
          /\ served' = served /\ link'[r].wire # "open"
      BY <1>c, <2>1, <2>10 DEF Closes, Fails, Changed, Link
    <3> QED
      BY <2>4, <2>5, <2>6, <2>s, <2>p, <3>1
  <2> QED
    BY <1>17, <2>7, <2>8, <2>e, <2>9, <2>10 DEF Server
<1>18. ASSUME NEW r \in Requests, TakesEffect(r)
       PROVE  (\A q \in Requests : Sound(q)') /\ InHand'
  <2>1. link[r].arrived # 0 /\ link[r].status # "refused"
    BY <1>18 DEF TakesEffect, Length
  <2>2. ASSUME NEW q \in Requests
        PROVE  Sound(q)'
    BY <1>18, <1>h, <2>1 DEF TakesEffect, Sound
  <2> QED
    BY <1>18, <1>h, <2>2 DEF TakesEffect, InHand
<1>19. CASE UNCHANGED vars
  BY <1>19, <1>h DEF vars, Sound, InHand
<1> QED
  BY <1>6, <1>7, <1>8, <1>9, <1>10, <1>11, <1>12, <1>13, <1>14, <1>15, <1>16, <1>17, <1>18,
     <1>19
     DEF Next, ClientStep

LEMMA TransportInvInitial ==
  ASSUME Init
  PROVE  TransportInv
<1>1. TransportTypeOK
  BY ClosedType, LinkTypes DEF Init, TransportTypeOK
<1>2. ASSUME NEW r \in Requests
      PROVE  Sound(r)
  <2>1. link[r] = NoLink /\ result[r] = "none" /\ served = {}
    BY DEF Init
  <2>2. NoLink.arrived = 0 /\ NoLink.status = "none" /\ NoLink.parts = 0
    BY DEF NoLink
  <2> QED
    BY <2>1, <2>2 DEF Sound
<1>3. InHand
  BY TransportConstants DEF Init, InHand, Closed
<1> QED
  BY <1>1, <1>2, <1>3 DEF TransportInv

LEMMA TransportInvHolds == Spec => []TransportInv
<1>1. TransportInv /\ [Next]_vars => TransportInv'
  BY TypesInductive, LinksInductive DEF TransportInv
<1> QED
  BY <1>1, TransportInvInitial, PTL DEF Spec

(***************************************************************************)
(* The request under way, the links and what callers were told stay of     *)
(* their type, for any requests and addresses.                             *)
(***************************************************************************)
THEOREM TransportTypeCorrectness == Spec => []TransportTypeOK
<1>1. TransportInv => TransportTypeOK
  BY DEF TransportInv
<1> QED
  BY <1>1, TransportInvHolds, PTL

(***************************************************************************)
(* Nothing of a request arrives at a server whose certificate was not      *)
(* verified: SSL_connect comes before the first SSL_write.                 *)
(***************************************************************************)
THEOREM OnlyTheVerifiedServerIsTold == Spec => []OnlyTheServerIsTold
<1>1. TransportInv => OnlyTheServerIsTold
  BY DEF TransportInv, Sound, OnlyTheServerIsTold
<1> QED
  BY <1>1, TransportInvHolds, PTL

(***************************************************************************)
(* What a caller is told by a response is what the server did, although    *)
(* the response may have been cut short.                                   *)
(***************************************************************************)
THEOREM OutcomesAreTrue == Spec => []OutcomeIsTrue
<1>1. TransportInv => OutcomeIsTrue
  BY DEF TransportInv, Sound, OutcomeIsTrue
<1> QED
  BY <1>1, TransportInvHolds, PTL

(* What the object owns at each stage.                                     *)
HandlesInv ==
  /\ NoHandleIsLost
  /\ conn.pc \in {"idle", "resolve", "connect"} => conn.own = NoHandles
  /\ conn.pc = "context" => conn.own["ctx"] = 0 /\ conn.own["ssl"] = 0
  /\ conn.pc \in {"options", "session"} => conn.own["ssl"] = 0

LEMMA HandlesInductive ==
  ASSUME TransportTypeOK, HandlesInv, [Next]_vars
  PROVE  HandlesInv'
<1>c. conn \in Connection /\ conn.own \in Handles /\ held = conn.own
  BY ConnectionFields DEF HandlesInv, NoHandleIsLost, TransportTypeOK
<1>1. ASSUME NEW outcome, Leave(outcome)
      PROVE  HandlesInv'
  <2>1. conn'.own = NoHandles /\ conn'.pc = "idle"
    BY <1>1 DEF Leave, Closed
  <2>2. held' = NoHandles
    BY <1>1, <1>c DEF Leave, Freed, NoHandles, Handles
  <2> QED
    BY <2>1, <2>2 DEF HandlesInv, NoHandleIsLost
<1>2. CASE Throw
  BY <1>1, <1>2 DEF Throw
<1>3. ASSUME UNCHANGED held, conn'.own = conn.own,
             conn'.pc = conn.pc \/ (conn.pc = "idle" /\ conn'.pc = "resolve")
               \/ (conn.pc = "resolve" /\ conn'.pc = "connect")
               \/ (conn.pc = "options" /\ conn'.pc = "session")
               \/ conn'.pc \in {"handshake", "write", "read"}
      PROVE  HandlesInv'
  BY <1>3 DEF HandlesInv, NoHandleIsLost
<1>4. ASSUME NEW h \in Kinds, NEW pc \in Stages, conn' = Owning(pc, h), held' = Opened(h),
             conn.own[h] = 0
      PROVE  NoHandleIsLost' /\ conn'.own = [conn.own EXCEPT ![h] = 1] /\ conn'.pc = pc
  BY <1>4, <1>c DEF NoHandleIsLost, Owning, Opened, Connection, Handles
<1>5. CASE AddressConnects
  <2>1. conn.own = NoHandles
    BY <1>5 DEF AddressConnects, At, HandlesInv
  <2>2. NoHandleIsLost' /\ conn'.own = [conn.own EXCEPT !["fd"] = 1] /\ conn'.pc = "context"
    BY <1>4, <1>5, <2>1 DEF AddressConnects, NoHandles, Kinds, Stages
  <2> QED
    BY <2>1, <2>2 DEF HandlesInv, NoHandles, Kinds
<1>6. CASE New("context", "ctx", "options")
  <2>1. conn.own["ctx"] = 0 /\ conn.own["ssl"] = 0
    BY <1>6 DEF New, At, HandlesInv
  <2>2. NoHandleIsLost' /\ conn'.own = [conn.own EXCEPT !["ctx"] = 1] /\ conn'.pc = "options"
    BY <1>4, <1>6, <2>1 DEF New, Kinds, Stages
  <2> QED
    BY <1>c, <2>1, <2>2 DEF HandlesInv, Handles, Kinds
<1>7. CASE New("session", "ssl", "settings")
  <2>1. conn.own["ssl"] = 0
    BY <1>7 DEF New, At, HandlesInv
  <2>2. NoHandleIsLost' /\ conn'.pc = "settings"
    BY <1>4, <1>7, <2>1 DEF New, Kinds, Stages
  <2> QED
    BY <2>2 DEF HandlesInv
<1>8. CASE Set("options", "session") \/ Set("settings", "handshake")
  BY <1>3, <1>8, <1>c DEF Set, At, Connection
<1>9. CASE Resolve
  BY <1>2, <1>3, <1>9, <1>c DEF Resolve, At, Connection
<1>10. CASE AddressFails \/ Write \/ Read
  BY <1>3, <1>10, <1>c DEF AddressFails, Write, Read, At, Connection
<1>11. CASE Handshake \/ Written
  BY <1>3, <1>11, <1>c DEF Handshake, Written, Set, At, Connection
<1>12. CASE ReadEnds
  BY <1>1, <1>12 DEF ReadEnds
<1>13. CASE NoAddressLeft \/ SetUpFails \/ HandshakeFails \/ WriteFails \/ ReadFails
  BY <1>2, <1>13 DEF NoAddressLeft, SetUpFails, HandshakeFails, WriteFails, ReadFails
<1>14. ASSUME NEW r \in Requests, Request(r)
       PROVE  HandlesInv'
  <2>1. conn.own = NoHandles
    BY <1>14 DEF Request, At, HandlesInv
  <2>2. conn'.own = NoHandles /\ conn'.pc = "resolve"
    BY <1>14 DEF Request, Closed
  <2> QED
    BY <1>3, <1>14, <2>1, <2>2 DEF Request, At
<1>15. ASSUME NEW r \in Requests, Server(r) \/ Refuses(r) \/ Errs(r) \/ Fails(r)
       PROVE  HandlesInv'
  BY <1>3, <1>15 DEF Server, Executes, Refuses, Errs, Answers, Closes, Fails, Changed
<1>16. ASSUME NEW r \in Requests, TakesEffect(r)
       PROVE  HandlesInv'
  BY <1>3, <1>16 DEF TakesEffect
<1>17. CASE UNCHANGED vars
  BY <1>3, <1>17 DEF vars
<1> QED
  BY <1>5, <1>6, <1>7, <1>8, <1>9, <1>10, <1>11, <1>12, <1>13, <1>14, <1>15, <1>16, <1>17
     DEF Next, ClientStep, SetUp

(***************************************************************************)
(* Whatever call of the constructor, of write or of read_all fails, and    *)
(* whichever address answered, the process holds the handles of the        *)
(* connection under way and no others.                                     *)
(***************************************************************************)
THEOREM HandlesAreFreed == Spec => []NoHandleIsLost
<1>1. Init => HandlesInv
  BY DEF Init, HandlesInv, NoHandleIsLost, Closed
<1>2. TransportTypeOK /\ HandlesInv /\ [Next]_vars => HandlesInv'
  BY HandlesInductive
<1>3. HandlesInv => NoHandleIsLost
  BY DEF HandlesInv
<1> QED
  BY <1>1, <1>2, <1>3, TransportTypeCorrectness, PTL DEF Spec

-----------------------------------------------------------------------------
(* How a call ends.  What the client has sent is what an open connection   *)
(* has brought.                                                            *)
SendInv ==
  conn.req \in Requests =>
    /\ conn.pc \notin {"write", "read"} => conn.sent = 0
    /\ conn.pc = "read" => conn.sent = Length(conn.req)
    /\ conn.pc \notin {"resolve", "connect"} => link[conn.req].wire # "none"
    /\ link[conn.req].wire = "open" => link[conn.req].arrived = conn.sent

(* The steps a call has before it at most: its own, of each stage and each *)
(* address, and the server's.                                              *)
Ahead(pc) ==
  CASE pc = "resolve" -> 18 + MaxAddresses [] pc = "connect" -> 17
    [] pc = "context" -> 6 [] pc = "options" -> 5 [] pc = "session" -> 4
    [] pc = "settings" -> 3 [] pc = "handshake" -> 2 [] pc = "write" -> 1 [] OTHER -> 0

LinkLeft(l) ==
  (Whole - l.parts) + (IF l.status = "none" THEN 1 ELSE 0) + (IF l.wire = "open" THEN 1 ELSE 0)

StepsLeft ==
  Ahead(conn.pc) + conn.rest + (2 - conn.sent) + (Whole - conn.out) + LinkLeft(link[conn.req])

(* A step ends the call under way, brings it nearer to its end, or does    *)
(* not concern it.                                                         *)
CallsAdvance ==
  [][~At("idle") =>
       \/ conn' = Closed
       \/ conn'.req = conn.req /\ StepsLeft' < StepsLeft
       \/ UNCHANGED <<conn, link[conn.req]>>]_vars

(* A reader that has read what there is waits for an open connection, and  *)
(* the server has begun to answer or has the whole request.                *)
ReaderIsAnswered ==
  At("read") /\ conn.out = link[conn.req].parts /\ ~Ended =>
    /\ link[conn.req].wire = "open"
    /\ link[conn.req].status = "none" => link[conn.req].arrived = Length(conn.req)

LEMMA SendInductive ==
  ASSUME TransportInv, SendInv, [Next]_vars
  PROVE  SendInv'
<1>c. /\ conn \in Connection /\ link \in [Requests -> Link]
      /\ conn.pc # "idle" => conn.req \in Requests
      /\ conn.pc = "idle" => conn.req \notin Requests
      /\ NoRequest \notin Requests
  BY ConnectionFields, TransportConstants DEF TransportInv, TransportTypeOK, Closed
<1>1. ASSUME conn' = Closed
      PROVE  SendInv'
  BY <1>1, <1>c DEF SendInv, Closed
<1>2. CASE Throw
  BY <1>1, <1>2 DEF Throw, Leave
<1>3. ASSUME conn'.req = conn.req, conn'.sent = conn.sent, UNCHANGED link,
             \/ conn'.pc = conn.pc
             \/ conn.pc = "resolve" /\ conn'.pc = "connect"
             \/ conn.pc \notin {"resolve", "connect", "write", "read"} /\ conn'.pc \notin {"read", "idle"}
             \/ conn.pc = "write" /\ conn'.pc = "read" /\ conn.sent = Length(conn.req)
      PROVE  SendInv'
  BY <1>3, <1>c DEF SendInv
<1>4. ASSUME NEW pc, NEW next, Set(pc, next),
             \/ pc \in {"options", "settings", "handshake"} /\ next \notin {"read", "idle"}
             \/ pc = "write" /\ next = "read" /\ conn.sent = Length(conn.req)
      PROVE  SendInv'
  BY <1>3, <1>4, <1>c DEF Set, At, Connection
<1>5. ASSUME NEW pc \in {"context", "session"}, NEW h, NEW next \in {"options", "settings"},
             New(pc, h, next)
      PROVE  SendInv'
  BY <1>3, <1>5, <1>c DEF New, Owning, At, Connection
<1>6. ASSUME NEW r \in Requests, Request(r)
      PROVE  SendInv'
  <2>1. conn'.req = r /\ conn'.pc = "resolve" /\ conn'.sent = 0 /\ link' = link
    BY <1>6 DEF Request, Closed
  <2>2. link[r] = NoLink
    BY <1>6, <1>c DEF Request, At, TransportInv, Sound
  <2> QED
    BY <2>1, <2>2 DEF SendInv, NoLink
<1>7. CASE Resolve
  BY <1>2, <1>3, <1>7, <1>c DEF Resolve, At, Connection
<1>8. CASE AddressFails \/ Read
  BY <1>3, <1>8, <1>c DEF AddressFails, Read, At, Connection
<1>9. CASE AddressConnects
  <2>1. conn.req \in Requests /\ conn.sent = 0
    BY <1>9, <1>c DEF AddressConnects, At, SendInv
  <2>2. conn'.req = conn.req /\ conn'.sent = 0 /\ conn'.pc = "context"
    BY <1>9, <1>c, <2>1 DEF AddressConnects, Owning, Connection
  <2>3. link'[conn.req].wire = "open" /\ link'[conn.req].arrived = 0
    BY <1>9, <1>c, <2>1 DEF AddressConnects, Connected
  <2> QED
    BY <2>2, <2>3 DEF SendInv
<1>10. CASE Write
  <2>1. conn.req \in Requests /\ conn.pc = "write"
    BY <1>10, <1>c DEF Write, At
  <2>2. conn'.req = conn.req /\ conn'.sent = conn.sent + 1 /\ conn'.pc = "write"
    BY <1>10, <1>c, <2>1 DEF Write, Connection
  <2>3. CASE link[conn.req].wire = "open"
    <3>1. link'[conn.req] = [link[conn.req] EXCEPT !.arrived = @ + 1]
      BY <1>10, <1>c, <2>1, <2>3 DEF Write
    <3>2. link'[conn.req].wire = "open" /\ link'[conn.req].arrived = link[conn.req].arrived + 1
      BY <1>c, <2>1, <2>3, <3>1 DEF Link
    <3> QED
      BY <2>1, <2>2, <2>3, <3>2 DEF SendInv
  <2>4. CASE link[conn.req].wire # "open"
    BY <1>10, <2>1, <2>2, <2>4 DEF SendInv, Write
  <2> QED
    BY <2>3, <2>4
<1>11. ASSUME NEW r \in Requests, Server(r) \/ Refuses(r) \/ Errs(r) \/ Fails(r)
       PROVE  SendInv'
  <2>1. conn' = conn /\ \A q \in Requests \ {r} : link'[q] = link[q]
    BY <1>11, <1>c DEF Server, Executes, Refuses, Errs, Answers, Closes, Fails, Changed
  <2>2. /\ link'[r].arrived = link[r].arrived /\ link[r].wire = "open"
        /\ link'[r].wire \in {"open", "notified", "cut"}
    BY <1>11, <1>c DEF Server, Executes, Refuses, Errs, Answers, Closes, Fails, Changed, Link
  <2> QED
    BY <2>1, <2>2 DEF SendInv
<1>12. CASE ReadEnds
  BY <1>1, <1>12 DEF ReadEnds, Leave
<1>13. CASE NoAddressLeft \/ SetUpFails \/ HandshakeFails \/ WriteFails \/ ReadFails
  BY <1>2, <1>13 DEF NoAddressLeft, SetUpFails, HandshakeFails, WriteFails, ReadFails
<1>14. CASE SetUp \/ Handshake \/ Written
  BY <1>4, <1>5, <1>14 DEF SetUp, Handshake, Written
<1>15. (UNCHANGED vars \/ \E r \in Requests : TakesEffect(r)) => SendInv'
  BY DEF vars, TakesEffect, SendInv
<1> QED
  BY <1>6, <1>7, <1>8, <1>9, <1>10, <1>11, <1>12, <1>13, <1>14, <1>15 DEF Next, ClientStep

(* What is left of a link is counted in naturals, and what the server does *)
(* with it is counted.                                                     *)
LEMMA LinkLeftFalls ==
  ASSUME TransportTypeOK, NEW r \in Requests, Server(r) \/ Refuses(r) \/ Errs(r) \/ Fails(r)
  PROVE  LinkLeft(link'[r]) < LinkLeft(link[r])
<1>1. /\ link[r] \in Link /\ link[r].wire = "open"
      /\ link[r].parts \in 0 .. Whole /\ link[r].status \in {"none", "done", "refused", "error"}
  BY DEF Server, Executes, Refuses, Errs, Answers, Closes, Fails, TransportTypeOK, Link
<1>2. CASE Executes(r) \/ Refuses(r) \/ Errs(r)
  <2>1. /\ link'[r].parts = link[r].parts /\ link'[r].wire = "open"
        /\ link[r].status = "none" /\ link'[r].status # "none"
    BY <1>1, <1>2 DEF Executes, Refuses, Errs, Changed, TransportTypeOK, Link
  <2> QED
    BY <1>1, <2>1 DEF LinkLeft, Whole
<1>3. CASE Answers(r)
  <2>1. /\ link'[r].parts = link[r].parts + 1 /\ link'[r].wire = "open"
        /\ link'[r].status = link[r].status
    BY <1>1, <1>3 DEF Answers, Changed, TransportTypeOK, Link
  <2> QED
    BY <1>1, <2>1 DEF LinkLeft, Whole
<1>4. CASE Closes(r) \/ Fails(r)
  <2>1. /\ link'[r].parts = link[r].parts /\ link'[r].wire # "open"
        /\ link'[r].status = link[r].status
    BY <1>1, <1>4 DEF Closes, Fails, Changed, TransportTypeOK, Link
  <2> QED
    BY <1>1, <2>1 DEF LinkLeft, Whole
<1> QED
  BY <1>2, <1>3, <1>4 DEF Server

LEMMA StepsAreCounted ==
  ASSUME TransportTypeOK, ~At("idle")
  PROVE  /\ conn.req \in Requests /\ conn.pc \in Stages
         /\ Ahead(conn.pc) \in Nat /\ conn.rest \in Nat
         /\ conn.sent \in 0 .. 2 /\ conn.out \in 0 .. Whole
         /\ LinkLeft(link[conn.req]) \in Nat
<1>1. /\ conn.req \in Requests /\ conn.pc \in Stages /\ conn.rest \in 0 .. MaxAddresses
      /\ conn.sent \in 0 .. 2 /\ conn.out \in 0 .. Whole
  BY ConnectionFields DEF TransportTypeOK, Connection, At
<1>2. link[conn.req].parts \in 0 .. Whole
  BY <1>1 DEF TransportTypeOK, Link
<1>3. LinkLeft(link[conn.req]) \in Nat
  BY <1>2 DEF LinkLeft, Whole
<1>4. Ahead(conn.pc) \in Nat
  BY TransportConstants DEF Ahead
<1> QED
  BY <1>1, <1>3, <1>4, TransportConstants

LEMMA StepAdvances ==
  ASSUME TransportInv, ~At("idle"), Next
  PROVE  \/ conn' = Closed
         \/ conn'.req = conn.req /\ StepsLeft' < StepsLeft
         \/ UNCHANGED <<conn, link[conn.req]>>
<1> DEFINE left == LinkLeft(link[conn.req])
<1>c. /\ conn \in Connection /\ link \in [Requests -> Link] /\ TransportTypeOK
      /\ conn.req \in Requests /\ MaxAddresses \in Nat
      /\ Ahead(conn.pc) \in Nat /\ conn.rest \in Nat
      /\ conn.sent \in 0 .. 2 /\ conn.out \in 0 .. Whole /\ left \in Nat
  BY StepsAreCounted, TransportConstants DEF TransportInv, TransportTypeOK
<1> HIDE DEF left
<1>l. left = LinkLeft(link[conn.req])
  BY DEF left
(* A later stage, with the rest as it was.                                 *)
<1>1. ASSUME conn'.req = conn.req, conn'.rest = conn.rest, conn'.sent = conn.sent,
             conn'.out = conn.out, UNCHANGED link,
             Ahead(conn'.pc) \in Nat, Ahead(conn'.pc) < Ahead(conn.pc)
      PROVE  conn'.req = conn.req /\ StepsLeft' < StepsLeft
  BY <1>1, <1>c, <1>l DEF StepsLeft, Whole
<1>2. ASSUME NEW pc \in Stages, NEW next, Set(pc, next),
             Ahead(next) \in Nat, Ahead(next) < Ahead(pc)
      PROVE  conn'.req = conn.req /\ StepsLeft' < StepsLeft
  BY <1>1, <1>2, <1>c DEF Set, At, Connection
<1>3. ASSUME NEW pc, NEW h, NEW next, New(pc, h, next),
             Ahead(next) \in Nat, Ahead(next) < Ahead(pc)
      PROVE  conn'.req = conn.req /\ StepsLeft' < StepsLeft
  BY <1>1, <1>3, <1>c DEF New, Owning, At, Connection
<1>4. CASE Resolve /\ ~Throw
  <2>1. PICK n \in 1 .. MaxAddresses : conn' = [conn EXCEPT !.pc = "connect", !.rest = n]
    BY <1>4 DEF Resolve
  <2>2. /\ conn'.req = conn.req /\ conn'.pc = "connect" /\ conn'.rest = n
        /\ conn'.sent = conn.sent /\ conn'.out = conn.out
    BY <1>c, <2>1 DEF Connection
  <2>3. Ahead(conn.pc) = 18 + MaxAddresses /\ Ahead(conn'.pc) = 17 /\ link' = link
    BY <1>4, <2>2 DEF Resolve, At, Ahead
  <2>4. n <= MaxAddresses /\ n \in Nat
    BY <1>c
  <2> QED
    BY <1>c, <1>l, <2>2, <2>3, <2>4 DEF StepsLeft, Whole
<1>5. CASE AddressFails
  <2>1. /\ conn'.req = conn.req /\ conn'.pc = conn.pc /\ conn'.rest = conn.rest - 1
        /\ conn'.sent = conn.sent /\ conn'.out = conn.out /\ link' = link
    BY <1>5, <1>c DEF AddressFails, Connection
  <2> QED
    BY <1>c, <1>l, <2>1 DEF StepsLeft, Whole
<1>6. CASE AddressConnects
  <2>1. /\ conn'.req = conn.req /\ conn'.pc = "context" /\ conn'.rest = conn.rest
        /\ conn'.sent = conn.sent /\ conn'.out = conn.out
    BY <1>6, <1>c DEF AddressConnects, Owning, Connection
  <2>2. Ahead(conn.pc) = 17 /\ Ahead(conn'.pc) = 6
    BY <1>6, <2>1 DEF AddressConnects, At, Ahead
  <2>3. link[conn.req] = NoLink
    BY <1>6, <1>c DEF AddressConnects, At, TransportInv, Sound, InHand
  <2>4. LinkLeft(link'[conn.req]) = 6 /\ left = 5
    <3>1. PICK genuine \in BOOLEAN : link' = [link EXCEPT ![conn.req] = Connected(genuine)]
      BY <1>6 DEF AddressConnects
    <3>2. link'[conn.req] = Connected(genuine)
      BY <1>c, <3>1
    <3> QED
      BY <1>l, <2>3, <3>2 DEF LinkLeft, Connected, NoLink, Whole
  <2> QED
    BY <1>c, <1>l, <2>1, <2>2, <2>4 DEF StepsLeft, Whole
<1>7. CASE SetUp
  BY <1>2, <1>3, <1>7 DEF SetUp, Ahead, Stages
<1>8. CASE Handshake \/ Written
  BY <1>2, <1>8 DEF Handshake, Written, Ahead, Stages
<1>9. CASE Write
  <2>1. /\ conn'.req = conn.req /\ conn'.pc = conn.pc /\ conn'.rest = conn.rest
        /\ conn'.sent = conn.sent + 1 /\ conn'.out = conn.out
    BY <1>9, <1>c DEF Write, Connection
  <2>2. LinkLeft(link'[conn.req]) = left
    <3>1. \/ link'[conn.req] = link[conn.req]
          \/ link'[conn.req] = [link[conn.req] EXCEPT !.arrived = @ + 1]
      BY <1>9, <1>c DEF Write
    <3>2. /\ link'[conn.req].parts = link[conn.req].parts
          /\ link'[conn.req].status = link[conn.req].status
          /\ link'[conn.req].wire = link[conn.req].wire
      BY <1>c, <3>1 DEF Link
    <3> QED
      BY <1>l, <3>2 DEF LinkLeft
  <2> QED
    BY <1>c, <1>l, <2>1, <2>2 DEF StepsLeft, Whole
<1>10. CASE Read
  <2>1. /\ conn'.req = conn.req /\ conn'.pc = conn.pc /\ conn'.rest = conn.rest
        /\ conn'.sent = conn.sent /\ conn'.out = conn.out + 1 /\ link' = link
    BY <1>10, <1>c DEF Read, Connection
  <2> QED
    BY <1>c, <1>l, <2>1 DEF StepsLeft, Whole
<1>11. ASSUME NEW r \in Requests, Server(r) \/ Refuses(r) \/ Errs(r) \/ Fails(r)
       PROVE  \/ conn'.req = conn.req /\ StepsLeft' < StepsLeft
              \/ UNCHANGED <<conn, link[conn.req]>>
  <2>1. conn' = conn /\ \A q \in Requests \ {r} : link'[q] = link[q]
    BY <1>11, <1>c DEF Server, Executes, Refuses, Errs, Answers, Closes, Fails, Changed
  <2>2. CASE r = conn.req
    <3>1. LinkLeft(link'[conn.req]) < left
      BY <1>11, <1>c, <1>l, <2>2, LinkLeftFalls
    <3>2. LinkLeft(link'[conn.req]) \in Nat
      <4>1. link'[conn.req].parts \in 0 .. Whole
        BY <1>11, <1>c, TypesInductive DEF TransportTypeOK, Link, Whole, Next
      <4> QED
        BY <4>1 DEF LinkLeft, Whole
    <3> QED
      BY <1>c, <1>l, <2>1, <3>1, <3>2 DEF StepsLeft, Whole
  <2> QED
    BY <1>c, <2>1, <2>2
<1>12. CASE Throw \/ ReadEnds
  BY <1>12 DEF Throw, ReadEnds, Leave
<1> QED
  BY <1>4, <1>5, <1>6, <1>7, <1>8, <1>9, <1>10, <1>11, <1>12
     DEF Next, ClientStep, Resolve, NoAddressLeft, SetUpFails, HandshakeFails, WriteFails, ReadFails,
         Request, TakesEffect

(***************************************************************************)
(* What CallReturns leaves to fairness: every step of the client or of the *)
(* network, whatever fails, ends the call under way, brings it nearer to   *)
(* its end by a count that starts at 29 + MaxAddresses, or does not        *)
(* concern it.  No loop of TlsConnection goes round without an end.        *)
(***************************************************************************)
THEOREM EveryStepAdvancesTheCall == Spec => CallsAdvance
<1>1. TransportInv /\ [Next]_vars =>
        [~At("idle") =>
           \/ conn' = Closed
           \/ conn'.req = conn.req /\ StepsLeft' < StepsLeft
           \/ UNCHANGED <<conn, link[conn.req]>>]_vars
  BY StepAdvances
<1> QED
  BY <1>1, TransportInvHolds, PTL DEF Spec, CallsAdvance

(***************************************************************************)
(* read_all, which has no timeout, waits only for an open connection whose *)
(* server has begun to answer or has all of the request: the client never  *)
(* waits for a server that waits for the rest of the request.              *)
(***************************************************************************)
THEOREM NobodyWaitsForEachOther == Spec => []ReaderIsAnswered
<1>1. Init => SendInv
  BY TransportConstants DEF Init, SendInv, Closed
<1>2. TransportInv /\ SendInv /\ [Next]_vars => SendInv'
  BY SendInductive
<1>3. TransportInv /\ SendInv => ReaderIsAnswered
  <2>1. SUFFICES ASSUME TransportInv, SendInv, At("read"), conn.out = link[conn.req].parts, ~Ended
                 PROVE  /\ link[conn.req].wire = "open"
                        /\ link[conn.req].status = "none"
                             => link[conn.req].arrived = Length(conn.req)
    BY DEF ReaderIsAnswered
  <2>2. conn.req \in Requests /\ link[conn.req].wire \in {"none", "open", "notified", "cut"}
    BY <2>1, ConnectionFields DEF TransportInv, TransportTypeOK, Link, At
  <2> QED
    BY <2>1, <2>2 DEF SendInv, Ended, At
<1> QED
  BY <1>1, <1>2, <1>3, TransportInvHolds, PTL DEF Spec

-----------------------------------------------------------------------------
(* Sessions and the keystore.  A command in progress has what its next     *)
(* step needs, and a login has already replaced the token.                 *)
SigningUp(p) == command[p].pc \in {"write", "post"}

CommandsComplete ==
  \A p \in Processes :
    /\ SigningUp(p) =>
         /\ command[p].name \in Names
         /\ command[p].password \in Passwords
         /\ command[p].key \in Keys
    /\ command[p].pc = "unlock" =>
         command[p].name \in Names /\ session[p].token \in Names

(* The first signup on a machine: its key is in the file, alone, before    *)
(* anything of it is published, and nobody else writes the file.           *)
OneSignupInv ==
  /\ signups = 0 => here = {} /\ \A p \in Processes : ~SigningUp(p)
  /\ signups = 1 =>
       /\ PublishedKeyRecoverable
       /\ \A p \in Processes : SigningUp(p) =>
            /\ \A q \in Processes \ {p} : ~SigningUp(q)
            /\ here = {command[p].key}
            /\ \A n \in Names : ~PublishedFrom(n)
            /\ command[p].pc = "post" =>
                 keys_bin = Wrap(command[p].key, command[p].password)

SessionInv == SessionTypeOK /\ CommandsComplete /\ OneSignupInv

LEMMA NoneIsNothing ==
  None \notin Names /\ None \notin Passwords /\ None \notin Keys
    /\ None \notin Wrapped /\ None \notin UserRow
BY NoneAssumption

LEMMA WrapType ==
  ASSUME NEW key \in Keys, NEW password \in Passwords
  PROVE  Wrap(key, password) \in Wrapped
BY DEF Wrap, Wrapped

LEMMA SessionInitInv == SessionInit => SessionInv
BY SessionBounds, NoneIsNothing
   DEF SessionInit, AccountsInit, SessionInv, SessionTypeOK, AccountsTypeOK, CommandsComplete,
       OneSignupInv, SigningUp, Prompt, NoSession, CommandRecord, SessionRecord

(* What a registration inserts is a row, and the only change.              *)
LEMMA RegisterType ==
  ASSUME AccountsTypeOK, NEW n \in Names, NEW password \in Passwords, NEW key \in Keys,
         Register(n, password, key, None)
  PROVE  /\ AccountsTypeOK'
         /\ Registered(n)'
         /\ users'[n].public_key = key /\ users'[n].password = password
         /\ \A m \in Names \ {n} : users'[m] = users[m]
<1> DEFINE row == [password |-> password, public_key |-> key, blob |-> None]
<1>1. row \in UserRow /\ row.public_key = key /\ row.password = password
  BY DEF UserRow
<1>2. users' = [users EXCEPT ![n] = row]
  BY DEF Register
<1> HIDE DEF row
<1> QED
  BY <1>1, <1>2, NoneIsNothing DEF AccountsTypeOK, Registered

LEMMA ReturnType ==
  ASSUME SessionTypeOK, NEW p \in Processes, Return(p)
  PROVE  /\ command' \in [Processes -> CommandRecord]
         /\ command'[p] = Prompt
         /\ \A q \in Processes \ {p} : command'[q] = command[q]
BY DEF Return, SessionTypeOK, CommandRecord, Prompt

(* One step of the two parts of the invariant that concern the sessions.   *)
LEMMA SessionTypeStep ==
  ASSUME SessionTypeOK, CommandsComplete, [SessionNext]_sessionVars
  PROVE  SessionTypeOK' /\ CommandsComplete'
<1> USE DEF SessionTypeOK, CommandsComplete, SigningUp
<1>1. ASSUME NEW n \in Names, NEW password \in Passwords, RegisterElsewhere(n, password)
      PROVE  SessionTypeOK' /\ CommandsComplete'
  <2>1. AccountsTypeOK'
    BY <1>1, RegisterType DEF RegisterElsewhere, Unused
  <2> QED
    BY <1>1, <2>1 DEF RegisterElsewhere
<1>2. ASSUME NEW p \in Processes, NEW n \in Names, NEW password \in Passwords,
             NEW key \in Keys, Signup(p, n, password, key)
      PROVE  SessionTypeOK' /\ CommandsComplete'
  <2> DEFINE next == [pc |-> "write", name |-> n, password |-> password, key |-> key]
  <2>1. next \in CommandRecord /\ next.pc = "write" /\ next.name = n
          /\ next.password = password /\ next.key = key
    BY DEF CommandRecord
  <2>2. command' = [command EXCEPT ![p] = next]
    BY <1>2 DEF Signup
  <2> HIDE DEF next
  <2>3. signups' \in 0 .. MaxSignups /\ here' \subseteq Keys
    BY <1>2, SessionBounds DEF Signup, StartSignup
  <2>4. SessionTypeOK'
    BY <1>2, <2>1, <2>2, <2>3 DEF Signup, StartSignup, AccountsTypeOK
  <2>5. CommandsComplete'
    BY <1>2, <2>1, <2>2 DEF Signup, StartSignup
  <2> QED
    BY <2>4, <2>5
<1>3. ASSUME NEW p \in Processes, WriteKeystore(p)
      PROVE  SessionTypeOK' /\ CommandsComplete'
  <2>1. keys_bin' \in Wrapped
    BY <1>3, WrapType DEF WriteKeystore
  <2>2. command' \in [Processes -> CommandRecord]
    BY <1>3 DEF WriteKeystore, CommandRecord
  <2>3. SessionTypeOK'
    BY <1>3, <2>1, <2>2 DEF WriteKeystore, AccountsTypeOK
  <2>4. CommandsComplete'
    BY <1>3 DEF WriteKeystore, CommandRecord
  <2> QED
    BY <2>3, <2>4
<1>4. ASSUME NEW p \in Processes, PostRegister(p) \/ RegisterLost(p)
      PROVE  SessionTypeOK' /\ CommandsComplete'
  <2>1. SigningUp(p)
    BY <1>4 DEF PostRegister, RegisterLost
  <2>2. AccountsTypeOK'
    <3>1. CASE UNCHANGED users
      BY <3>1 DEF AccountsTypeOK
    <3>2. CASE Register(command[p].name, command[p].password, command[p].key, None)
      BY <2>1, <3>2, RegisterType
    <3> QED
      BY <1>4, <3>1, <3>2 DEF PostRegister, RegisterLost
  <2>3. told' \subseteq Names /\ faults' \in 0 .. MaxFaults
    BY <1>4, <2>1, SessionBounds DEF PostRegister, RegisterLost, Fault
  <2>4. Return(p) /\ UNCHANGED <<keys_bin, session, here, signups>>
    BY <1>4 DEF PostRegister, RegisterLost
  <2>5. Prompt.pc = "prompt"
    BY DEF Prompt
  <2> QED
    BY <2>2, <2>3, <2>4, <2>5, ReturnType
<1>5. ASSUME NEW p \in Processes, NEW n \in Names, NEW password \in Passwords,
             Login(p, n, password)
      PROVE  SessionTypeOK' /\ CommandsComplete'
  <2> DEFINE next == [pc |-> "unlock", name |-> n, password |-> password, key |-> None]
  <2>1. next \in CommandRecord /\ next.pc = "unlock" /\ next.name = n
    BY DEF CommandRecord
  <2>2. command' = [command EXCEPT ![p] = next]
    BY <1>5 DEF Login
  <2> HIDE DEF next
  <2>3. /\ session' \in [Processes -> SessionRecord]
        /\ session'[p].token = n /\ session'[p].user_id = n
        /\ session'[p].sk = session[p].sk /\ session'[p].logged_in = session[p].logged_in
        /\ \A q \in Processes \ {p} : session'[q] = session[q]
    BY <1>5 DEF Login, SessionRecord
  <2>4. n # None
    BY NoneIsNothing
  <2>5. SessionTypeOK'
    BY <1>5, <2>1, <2>2, <2>3, <2>4 DEF Login, AccountsTypeOK
  <2>6. CommandsComplete'
    BY <2>1, <2>2, <2>3
  <2> QED
    BY <2>5, <2>6
<1>6. ASSUME NEW p \in Processes, Unlock(p)
      PROVE  SessionTypeOK' /\ CommandsComplete'
  <2>1. keys_bin \in Wrapped /\ keys_bin.key \in Keys
    BY <1>6 DEF Unlock, Unlocks, Opens, Wrapped
  <2>2. /\ session' \in [Processes -> SessionRecord]
        /\ session'[p].token = session[p].token /\ session'[p].user_id = session[p].user_id
        /\ session'[p].sk = keys_bin.key
        /\ \A q \in Processes \ {p} : session'[q] = session[q]
    <3> DEFINE next == [session[p] EXCEPT !.sk = keys_bin.key, !.username = command[p].name,
                                          !.logged_in = TRUE]
    <3>1. session' = [session EXCEPT ![p] = next]
      BY <1>6 DEF Unlock
    <3>2. session[p] \in SessionRecord /\ command[p].name \in Names
      BY <1>6 DEF Unlock
    <3>3. next \in SessionRecord
      BY <2>1, <3>2 DEF SessionRecord
    <3>4. next.token = session[p].token /\ next.user_id = session[p].user_id
            /\ next.sk = keys_bin.key
      BY <3>2 DEF SessionRecord
    <3> HIDE DEF next
    <3> QED
      BY <3>1, <3>3, <3>4
  <2>3. session[p].token # None /\ keys_bin.key # None
    BY <1>6, <2>1, NoneIsNothing DEF Unlock
  <2>4. Return(p) /\ UNCHANGED <<users, keys_bin, here, told, signups, faults>>
    BY <1>6 DEF Unlock
  <2>5. Prompt.pc = "prompt"
    BY DEF Prompt
  <2>6. SessionTypeOK'
    BY <2>2, <2>3, <2>4, ReturnType DEF AccountsTypeOK
  <2> QED
    BY <2>2, <2>4, <2>5, <2>6, ReturnType
<1>7. ASSUME NEW p \in Processes, UnlockFails(p)
      PROVE  SessionTypeOK' /\ CommandsComplete'
  BY <1>7, ReturnType DEF UnlockFails, AccountsTypeOK, Prompt
<1>8. ASSUME NEW p \in Processes, Logout(p)
      PROVE  SessionTypeOK' /\ CommandsComplete'
  BY <1>8 DEF Logout, NoSession, SessionRecord, AccountsTypeOK
<1>9. ASSUME NEW p \in Processes, Kill(p)
      PROVE  SessionTypeOK' /\ CommandsComplete'
  <2>1. faults' \in 0 .. MaxFaults
    BY <1>9, SessionBounds DEF Kill, Fault
  <2> QED
    BY <1>9, <2>1, ReturnType DEF Kill, NoSession, SessionRecord, AccountsTypeOK, Prompt
<1>10. CASE UNCHANGED sessionVars
  BY <1>10 DEF sessionVars, AccountsTypeOK
<1> QED
  BY <1>1, <1>2, <1>3, <1>4, <1>5, <1>6, <1>7, <1>8, <1>9, <1>10 DEF SessionNext

(***************************************************************************)
(* For any processes, accounts and number of signups: the token of a       *)
(* request and the sender id of its envelope are always one user's, though *)
(* they are replaced before the key is unwrapped, and a process that is    *)
(* logged in has a key.                                                    *)
(***************************************************************************)
THEOREM SessionTypeCorrectness == SessionSpec => []SessionTypeOK
<1>1. SessionInit => SessionTypeOK /\ CommandsComplete
  BY SessionInitInv DEF SessionInv
<1> QED
  BY <1>1, SessionTypeStep, PTL DEF SessionSpec

-----------------------------------------------------------------------------
(* The keys published from here depend on the rows and on here alone.      *)
LEMMA PublishedFrame ==
  ASSUME UNCHANGED <<users, here>>
  PROVE  \A n \in Names : PublishedFrom(n)' <=> PublishedFrom(n)
BY DEF PublishedFrom, Registered

(* What a signup does to the invariant, and to those that come after it.   *)
LEMMA SignupStep ==
  ASSUME SessionInv, NEW p \in Processes, NEW n \in Names, NEW password \in Passwords,
         NEW key \in Keys, Signup(p, n, password, key)
  PROVE  OneSignupInv'
<1>1. signups' = signups + 1 /\ signups \in Nat
  BY DEF Signup, StartSignup, SessionInv, SessionTypeOK
<1>2. CASE signups # 0
  BY <1>1, <1>2 DEF OneSignupInv
<1>3. CASE signups = 0
  <2>1. here' = {key} /\ UNCHANGED users /\ key \in Unused
    BY <1>3 DEF Signup, StartSignup, SessionInv, OneSignupInv
  <2>2. \A m \in Names : ~PublishedFrom(m)'
    BY <2>1 DEF Unused, PublishedFrom, Registered
  <2>3. \A q \in Processes \ {p} : ~SigningUp(q)'
    BY <1>3 DEF Signup, SessionInv, SessionTypeOK, OneSignupInv, SigningUp
  <2>4. command'[p].pc = "write" /\ command'[p].key = key
    BY DEF Signup, SessionInv, SessionTypeOK
  <2>5. PublishedKeyRecoverable'
    BY <2>2 DEF PublishedKeyRecoverable
  <2> QED
    BY <1>1, <1>3, <2>1, <2>2, <2>3, <2>4, <2>5 DEF OneSignupInv, SigningUp
<1> QED
  BY <1>2, <1>3

(* A registration that the server executes publishes what the file holds.  *)
LEMMA RegistrationStep ==
  ASSUME SessionInv, NEW p \in Processes, PostRegister(p) \/ RegisterLost(p)
  PROVE  OneSignupInv'
<1>1. /\ command[p].pc = "post" /\ SigningUp(p)
      /\ Return(p) /\ UNCHANGED <<keys_bin, here, signups>>
  BY DEF PostRegister, RegisterLost, SigningUp
<1>2. ~SigningUp(p)' /\ \A q \in Processes \ {p} : SigningUp(q)' <=> SigningUp(q)
  BY <1>1, ReturnType DEF SessionInv, SigningUp, Prompt
<1>3. CASE signups = 1
  <2>1. /\ here = {command[p].key}
        /\ \A m \in Names : ~PublishedFrom(m)
        /\ keys_bin = Wrap(command[p].key, command[p].password)
        /\ \A q \in Processes : ~SigningUp(q)'
    BY <1>1, <1>2, <1>3 DEF SessionInv, OneSignupInv
  <2>2. PublishedKeyRecoverable'
    <3>1. CASE UNCHANGED users
      BY <1>1, <2>1, <3>1, PublishedFrame DEF PublishedKeyRecoverable
    <3>2. CASE Register(command[p].name, command[p].password, command[p].key, None)
      <4> DEFINE n == command[p].name
      <4>1. /\ n \in Names
            /\ users'[n].public_key = command[p].key /\ users'[n].password = command[p].password
            /\ \A m \in Names \ {n} : users'[m] = users[m]
        BY <1>1, <3>2, RegisterType DEF SessionInv, SessionTypeOK, CommandsComplete
      <4>2. \A m \in Names \ {n} : ~PublishedFrom(m)'
        BY <1>1, <2>1, <4>1 DEF PublishedFrom, Registered
      <4> QED
        BY <1>1, <2>1, <4>1, <4>2 DEF PublishedKeyRecoverable
    <3> QED
      BY <3>1, <3>2 DEF PostRegister, RegisterLost
  <2> QED
    BY <1>1, <1>3, <2>1, <2>2 DEF OneSignupInv
<1>4. CASE signups # 1
  BY <1>1, <1>4 DEF SessionInv, OneSignupInv
<1> QED
  BY <1>3, <1>4

LEMMA OneSignupStep ==
  ASSUME SessionInv, [SessionNext]_sessionVars
  PROVE  OneSignupInv'
<1>1. ASSUME NEW n \in Names, NEW password \in Passwords, RegisterElsewhere(n, password)
      PROVE  OneSignupInv'
  <2>1. PICK key \in Unused : Register(n, password, key, None)
    BY <1>1 DEF RegisterElsewhere
  <2>2. key \in Keys /\ key \notin here /\ here' = here
    BY <1>1, <2>1 DEF RegisterElsewhere, Unused
  <2>3. users'[n].public_key = key /\ \A m \in Names \ {n} : users'[m] = users[m]
    BY <2>1, <2>2, RegisterType DEF SessionInv, SessionTypeOK
  <2>4. \A m \in Names : PublishedFrom(m)' => PublishedFrom(m) /\ users'[m] = users[m]
    BY <2>2, <2>3 DEF PublishedFrom, Registered
  <2> QED
    BY <1>1, <2>4
       DEF RegisterElsewhere, SessionInv, OneSignupInv, PublishedKeyRecoverable, SigningUp
<1>2. ASSUME NEW p \in Processes, WriteKeystore(p)
      PROVE  OneSignupInv'
  <2>1. \A q \in Processes : SigningUp(q)' <=> SigningUp(q)
    BY <1>2 DEF WriteKeystore, SigningUp, SessionInv, SessionTypeOK
  <2>2. /\ command'[p].key = command[p].key /\ command'[p].password = command[p].password
        /\ keys_bin' = Wrap(command[p].key, command[p].password)
        /\ SigningUp(p) /\ UNCHANGED <<users, here, signups>>
    BY <1>2 DEF WriteKeystore, SigningUp, SessionInv, SessionTypeOK, CommandRecord
  <2>3. \A q \in Processes \ {p} : command'[q] = command[q]
    BY <1>2 DEF WriteKeystore, SessionInv, SessionTypeOK
  <2> QED
    BY <2>1, <2>2, <2>3, PublishedFrame DEF SessionInv, OneSignupInv, PublishedKeyRecoverable
<1>3. ASSUME NEW p \in Processes, Unlock(p) \/ UnlockFails(p) \/ Kill(p)
      PROVE  OneSignupInv'
  <2>1. Return(p) /\ UNCHANGED <<users, keys_bin, here, signups>>
    BY <1>3 DEF Unlock, UnlockFails, Kill
  <2>2. ~SigningUp(p)' /\ \A q \in Processes \ {p} : command'[q] = command[q]
    BY <2>1, ReturnType DEF SessionInv, SigningUp, Prompt
  <2> QED
    BY <2>1, <2>2, PublishedFrame DEF SessionInv, OneSignupInv, PublishedKeyRecoverable, SigningUp
<1>4. ASSUME NEW p \in Processes, NEW n \in Names, NEW password \in Passwords,
             Login(p, n, password)
      PROVE  OneSignupInv'
  <2>1. /\ command'[p].pc = "unlock"
        /\ \A q \in Processes \ {p} : command'[q] = command[q]
        /\ UNCHANGED <<users, keys_bin, here, signups>>
    BY <1>4 DEF Login, SessionInv, SessionTypeOK
  <2>2. ~SigningUp(p)'
    BY <2>1 DEF SigningUp
  <2> QED
    BY <2>1, <2>2, PublishedFrame DEF SessionInv, OneSignupInv, PublishedKeyRecoverable, SigningUp
<1>5. ASSUME UNCHANGED <<users, keys_bin, command, here, signups>>
      PROVE  OneSignupInv'
  BY <1>5, PublishedFrame DEF SessionInv, OneSignupInv, PublishedKeyRecoverable, SigningUp
<1> QED
  BY <1>1, <1>2, <1>3, <1>4, <1>5, SignupStep, RegistrationStep
     DEF SessionNext, sessionVars, Logout

(***************************************************************************)
(* Client::signup writes the file before it sends the request: until a     *)
(* second signup starts on the machine, the key of an account made there   *)
(* opens from keys.bin with the account's password, whatever is lost,      *)
(* killed, or registered elsewhere meanwhile.                              *)
(***************************************************************************)
THEOREM FirstSignupRecoverable == SessionSpec => [](signups <= 1 => PublishedKeyRecoverable)
<1>1. SessionInv /\ [SessionNext]_sessionVars => SessionInv'
  BY SessionTypeStep, OneSignupStep DEF SessionInv
<1>2. SessionInv => (signups <= 1 => PublishedKeyRecoverable)
  <2>1. SessionInv => signups \in Nat
    BY DEF SessionInv, SessionTypeOK
  <2>2. SessionInv /\ signups = 0 => PublishedKeyRecoverable
    BY DEF SessionInv, OneSignupInv, PublishedKeyRecoverable, PublishedFrom
  <2> QED
    BY <2>1, <2>2 DEF SessionInv, OneSignupInv
<1> QED
  BY <1>1, <1>2, SessionInitInv, PTL DEF SessionSpec
=============================================================================
