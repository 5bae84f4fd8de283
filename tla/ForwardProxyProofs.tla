------------------------- MODULE ForwardProxyProofs -------------------------
(***************************************************************************)
(* Theorems about ForwardProxy, for any connections, requests, buffer and  *)
(* bound.                                                                  *)
(***************************************************************************)
EXTENDS ForwardProxy, TLAPS

-----------------------------------------------------------------------------
(***************************************************************************)
(* Lemmas about the operators.                                             *)
(***************************************************************************)

\* Appending keeps the type of a sequence and lengthens it by one.
LEMMA AppendType ==
  ASSUME NEW S, NEW s \in Seq(S), NEW e \in S
  PROVE  /\ Append(s, e) \in Seq(S)
         /\ Len(Append(s, e)) = Len(s) + 1
         /\ Len(s) \in Nat
         /\ \A i \in 1..Len(s) : Append(s, e)[i] = s[i]
         /\ Append(s, e)[Len(s) + 1] = e
OBVIOUS

\* Removing the hop-by-hop fields leaves a field set.
LEMMA InFieldsType ==
  ASSUME NEW f \in Fields PROVE InFields(f) \in Fields
<1>1. InFields(f) \in [Names -> Seq(Values \cup Seq(Names \cup {Blank}))]
  BY DEF InFields, Fields
<1>2. InFields(f)[Connection] = <<>>
  BY PartitionAssumption DEF InFields
<1> QED
  BY <1>1, <1>2 DEF Fields

\* The request in hand, its hop-by-hop fields removed, is still a message.
LEMMA RelayedType ==
  ASSUME NEW r \in Messages PROVE Relayed(r) \in Messages
BY InFieldsType DEF Messages, Relayed

\* What a read buffers of a body is a number of units.
LEMMA BodyHeldType ==
  ASSUME TypeOK, NEW c \in Conns, request[c] \in Messages
  PROVE  BodyHeld(c) \in Nat
BY ProxyAssumption DEF BodyHeld, Messages

\* A header ends with a request, and the parser makes a message of it.
LEMMA HeaderIsRequest ==
  ASSUME TypeOK, NEW c \in Conns, NEW p, HeaderEnds(c, p)
  PROVE  /\ p \in Nat /\ p > rd[c] /\ p <= Len(wire[c])
         /\ wire[c][p] \in Requests
         /\ wire[c][p] \in Messages
         /\ HeaderOf(c, p) \in Messages
<1>1. rd[c] \in Nat /\ Len(wire[c]) \in Nat
  BY DEF TypeOK
<1>2. p \in Nat /\ p > rd[c] /\ p <= Len(wire[c])
  BY <1>1 DEF HeaderEnds
<1>3. wire[c][p] \in Requests /\ wire[c][p] \in Messages
  BY ProxyAssumption DEF HeaderEnds
<1>4. HeaderOf(c, p) \in Messages
  BY <1>3 DEF HeaderOf, Messages
<1> QED
  BY <1>2, <1>3, <1>4

-----------------------------------------------------------------------------
(***************************************************************************)
(* Type correctness.  Besides the types of the variables it says that no   *)
(* read consumes what has not been sent.  What makes it inductive is that  *)
(* a handler writes a response, relays a header or waits for a body only   *)
(* with that response or request in hand.                                  *)
(***************************************************************************)
InHand ==
  \A c \in Conns :
    /\ pc[c] = "init_reply" => reply[c] \in Statuses
    /\ pc[c] \in {"tunnel_write", "tunnel_body"} => request[c] \in Messages

TypeInv == TypeOK /\ InHand

LEMMA TypeInit == Init => TypeInv
BY ProxyAssumption DEF Init, TypeInv, TypeOK, InHand, Places

LEMMA TypeClient ==
  ASSUME TypeInv, NEW c \in Conns, Client(c) \/ RemoteHost(c)
  PROVE  TypeInv'
<1> USE DEF TypeInv, TypeOK, InHand
<1>1. CASE ClientConnects(c)
  BY <1>1 DEF ClientConnects, Places
<1>2. ASSUME NEW token \in Requests \cup {Text, Junk}, NEW owes \in Nat,
             ClientWrites(c, token, owes), heads' \in [Conns -> SUBSET Nat]
      PROVE  TypeInv'
  <2>1. wire' \in [Conns -> Seq(Requests \cup {Text, Junk})]
    BY <1>2, AppendType DEF ClientWrites
  <2>2. \A d \in Conns : rd'[d] <= Len(wire'[d])
    BY <1>2, AppendType DEF ClientWrites
  <2> QED
    BY <1>2, <2>1, <2>2 DEF ClientWrites
<1>3. ASSUME NEW r \in Requests, ClientSends(c, r) PROVE TypeInv'
  <2>1. r.body \in Nat
    BY ProxyAssumption DEF Messages
  <2>2. Len(wire[c]) + 1 \in Nat
    OBVIOUS
  <2>3. heads' \in [Conns -> SUBSET Nat]
    BY <1>3, <2>2 DEF ClientSends
  <2> QED
    BY <1>2, <1>3, <2>1, <2>3 DEF ClientSends
<1>6. ASSUME NEW u \in Units, ClientSendsBody(c, u) PROVE TypeInv'
  <2>1. owed[c] - 1 \in Nat /\ u \in Requests \cup {Text, Junk}
    BY <1>6, ProxyAssumption DEF ClientSendsBody
  <2> QED
    BY <1>2, <1>6, <2>1 DEF ClientSendsBody
<1>7. CASE ClientSendsJunk(c)
  BY <1>2, <1>7 DEF ClientSendsJunk
<1>8. CASE ClientStalls(c) \/ ClientResumes(c)
  BY <1>8 DEF ClientStalls, ClientResumes, ClientReads
<1>4. ASSUME NEW how \in {"half", "reset"}, ClientLeaves(c, how) PROVE TypeInv'
  BY <1>4 DEF ClientLeaves
<1>5. CASE RemoteHost(c)
  BY <1>5 DEF RemoteHost, RemoteStalls, RemoteResumes, RemoteLeaves, RemoteStep, clientVars
<1> QED
  BY <1>1, <1>3, <1>4, <1>5, <1>6, <1>7, <1>8 DEF Client

LEMMA TypeRelease ==
  ASSUME TypeInv, NEW c \in Conns, Release(c),
         UNCHANGED <<acceptor, clientVars, rd, replies, upstream>>
  PROVE  TypeInv'
BY DEF TypeInv, TypeOK, InHand, Release, clientVars, Places

LEMMA TypeNegotiation ==
  ASSUME TypeInv, NEW c \in Conns,
         Start(c) \/ InitRead(c) \/ InitReadFails(c) \/ Connect(c) \/ InitReply(c)
  PROVE  TypeInv'
<1>1. CASE Start(c)
  BY <1>1 DEF Start, clientVars, TypeInv, TypeOK, InHand, Places, Negotiating
<1>2. CASE InitRead(c)
  <2>1. /\ wire[c][rd[c] + 1] \in Messages
        /\ rd[c] + 1 <= Len(wire[c])
    BY <1>2, HeaderIsRequest DEF InitRead, TypeInv
  <2>2. rd[c] \in Nat /\ Len(wire[c]) \in Nat
    BY DEF TypeInv, TypeOK
  <2>3. Verdict(wire[c][rd[c] + 1]) \in Statuses \cup {"none"}
    BY DEF Verdict, Statuses
  <2>4. rd[c] + 1 \in Nat /\ rd[c] + 1 <= Len(wire[c])
    BY <2>1, <2>2
  <2> QED
    BY <1>2, <2>1, <2>3, <2>4
       DEF InitRead, clientVars, TypeInv, TypeOK, InHand, Places, Negotiating
<1>3. CASE InitReadFails(c)
  BY <1>3, TypeRelease DEF InitReadFails
<1>4. CASE Connect(c)
  BY <1>4 DEF Connect, clientVars, TypeInv, TypeOK, InHand, Places, Negotiating, Statuses
<1>5. CASE InitReply(c)
  <2>1. PICK sent \in BOOLEAN :
          /\ replies' = [replies EXCEPT ![c] =
                           Append(@, [status |-> reply[c], sent |-> sent])]
          /\ \/ Release(c)
             \/ /\ pc' = [pc EXCEPT ![c] = AfterReply(reply[c], sent)]
                /\ AfterReply(reply[c], sent) # "done"
                /\ request' = [request EXCEPT ![c] = NoRequest]
                /\ reply' = [reply EXCEPT ![c] = "none"]
                /\ UNCHANGED remote
    BY <1>5 DEF InitReply
  <2>2. reply[c] \in Statuses
    BY <1>5 DEF TypeInv, TypeOK, InHand, InitReply
  <2>3. [status |-> reply[c], sent |-> sent] \in [status : Statuses, sent : BOOLEAN]
    BY <2>2
  <2>4. replies' \in [Conns -> Seq([status : Statuses, sent : BOOLEAN])]
    BY <2>1, <2>3, AppendType DEF TypeInv, TypeOK
  <2>5. UNCHANGED <<acceptor, clientVars, rd, upstream>>
    BY <1>5 DEF InitReply
  <2>6. CASE Release(c)
    BY <2>4, <2>5, <2>6 DEF TypeInv, TypeOK, InHand, Release, clientVars, Places
  <2>7. CASE /\ pc' = [pc EXCEPT ![c] = AfterReply(reply[c], sent)]
             /\ AfterReply(reply[c], sent) # "done"
             /\ request' = [request EXCEPT ![c] = NoRequest]
             /\ reply' = [reply EXCEPT ![c] = "none"]
             /\ UNCHANGED remote
    <3>1. AfterReply(reply[c], sent) \in {"init_read", "tunnel_header"}
      BY <2>7 DEF AfterReply
    <3> QED
      BY <2>4, <2>5, <2>7, <3>1
         DEF TypeInv, TypeOK, InHand, clientVars, Places, Negotiating, Tunnelling
  <2> QED
    BY <2>1, <2>6, <2>7
<1> QED
  BY <1>1, <1>2, <1>3, <1>4, <1>5

LEMMA TypeTunnel ==
  ASSUME TypeInv, NEW c \in Conns,
         \/ TunnelHeader(c) \/ TunnelHeaderFails(c)
         \/ TunnelWrite(c) \/ TunnelWriteFails(c)
         \/ TunnelBody(c) \/ TunnelBodyFails(c)
  PROVE  TypeInv'
<1>1. CASE TunnelHeader(c)
  <2>1. PICK p \in rd[c] + 1 .. Len(wire[c]) :
          /\ HeaderEnds(c, p)
          /\ request' = [request EXCEPT ![c] = Relayed(HeaderOf(c, p))]
          /\ rd' = [rd EXCEPT ![c] = p]
    BY <1>1 DEF TunnelHeader
  <2>2. /\ Relayed(HeaderOf(c, p)) \in Messages
        /\ p \in Nat /\ p <= Len(wire[c])
    BY <2>1, HeaderIsRequest, RelayedType DEF TypeInv
  <2> QED
    BY <1>1, <2>1, <2>2
       DEF TunnelHeader, clientVars, TypeInv, TypeOK, InHand, Places, Tunnelling
<1>2. CASE TunnelWrite(c)
  <2> DEFINE Relays == [at : Nat, method : {"CONNECT", "OTHER", "garbled"}, fields : Fields]
             new == [at |-> rd[c], method |-> request[c].method, fields |-> request[c].fields]
  <2>1. new \in Relays
    BY <1>2 DEF TunnelWrite, TypeInv, TypeOK, InHand, Messages
  <2>3. upstream' = [upstream EXCEPT ![c] = Append(upstream[c], new)]
    BY <1>2 DEF TunnelWrite
  <2>4. upstream \in [Conns -> Seq(Relays)]
    BY DEF TypeInv, TypeOK
  <2> HIDE DEF Relays, new
  <2>2. upstream' \in [Conns -> Seq(Relays)]
    BY <2>1, <2>3, <2>4, AppendType
  <2> USE DEF Relays
  <2> QED
    BY <1>2, <2>2
       DEF TunnelWrite, clientVars, TypeInv, TypeOK, InHand, Places, Tunnelling
<1>3. CASE TunnelBody(c)
  <2>1. BodyHeld(c) \in Nat
    BY <1>3, BodyHeldType DEF TunnelBody, TypeInv, InHand
  <2>2. rd[c] \in Nat /\ Len(wire[c]) \in Nat
    BY DEF TypeInv, TypeOK
  <2>3. rd[c] + BodyHeld(c) \in Nat /\ rd[c] + BodyHeld(c) <= Len(wire[c])
    BY <1>3, <2>1, <2>2 DEF TunnelBody, BodyRead, Unread
  <2> QED
    BY <1>3, <2>3
       DEF TunnelBody, clientVars, TypeInv, TypeOK, InHand, Places, Tunnelling
<1>4. CASE TunnelHeaderFails(c) \/ TunnelWriteFails(c) \/ TunnelBodyFails(c)
  BY <1>4, TypeRelease DEF TunnelHeaderFails, TunnelWriteFails, TunnelBodyFails
<1> QED
  BY <1>1, <1>2, <1>3, <1>4

LEMMA TypeStep == TypeInv /\ [Next]_vars => TypeInv'
<1> SUFFICES ASSUME TypeInv, [Next]_vars PROVE TypeInv'
  OBVIOUS
<1>1. CASE AcceptFails
  BY <1>1 DEF AcceptFails, clientVars, TypeInv, TypeOK, InHand
<1>2. ASSUME NEW c \in Conns, Client(c) \/ RemoteHost(c) PROVE TypeInv'
  BY <1>2, TypeClient
<1>3. ASSUME NEW c \in Conns, Accept(c) PROVE TypeInv'
  BY <1>3 DEF Accept, clientVars, TypeInv, TypeOK, InHand, Places
<1>4. ASSUME NEW c \in Conns, Handler(c) PROVE TypeInv'
  BY <1>4, TypeNegotiation, TypeTunnel DEF Handler
<1>5. CASE UNCHANGED vars
  BY <1>5 DEF vars, clientVars, TypeInv, TypeOK, InHand
<1> QED
  BY <1>1, <1>2, <1>3, <1>4, <1>5 DEF Next

(***************************************************************************)
(* The proxy is type correct, and no handler consumes what its client has  *)
(* not sent.                                                               *)
(***************************************************************************)
THEOREM TypeCorrect == Spec => []TypeOK
<1>1. Spec => []TypeInv
  BY TypeInit, TypeStep, PTL DEF Spec
<1>2. TypeInv => TypeOK
  BY DEF TypeInv
<1> QED
  BY <1>1, <1>2, PTL

-----------------------------------------------------------------------------
(***************************************************************************)
(* The order of a connection.  The invariants of the responses and of the  *)
(* remote connection constrain what has been written; the strengthening    *)
(* says what a handler suspended in init() is about to write, and that a   *)
(* handler reaches tunnel() only past a response that ends init().         *)
(***************************************************************************)
Before == {"absent", "backlog", "spawned"}

\* The responses after which init() reads another request.
Continuing == {"method_not_allowed", "unreachable"}

\* How far a handler in init() has read, and what it is about to write.
Pending(c) ==
  /\ pc[c] \in Before => rd[c] = 0 /\ replies[c] = <<>>
  /\ pc[c] = "init_read" => rd[c] = Len(replies[c])
  /\ pc[c] \in {"connect", "init_reply"} => rd[c] = Len(replies[c]) + 1
  /\ pc[c] = "connect" => Justified(wire[c][rd[c]], "ok")
  /\ pc[c] = "init_reply" => Justified(wire[c][rd[c]], reply[c])

\* Every response but an ending one was followed by another request.
Answered(c) ==
  /\ Len(replies[c]) <= rd[c]
  /\ \A i \in 1..Len(replies[c]) :
       /\ Justified(wire[c][i], replies[c][i].status)
       /\ i < Len(replies[c]) \/ pc[c] \in Before \cup Negotiating =>
            replies[c][i].status \in Continuing

\* The remote connection and what was written to it.
Relaying(c) ==
  /\ pc[c] \in Before \cup Negotiating => upstream[c] = <<>>
  /\ upstream[c] # <<>> => Established(c)
  /\ remote[c] # "none" =>
       \/ pc[c] = "init_reply" /\ reply[c] = "ok"
       \/ pc[c] \in Tunnelling /\ Established(c)
  /\ pc[c] = "init_reply" /\ reply[c] = "ok" => remote[c] # "none"

OrderInv == \A c \in Conns : Pending(c) /\ Answered(c) /\ Relaying(c)

LEMMA OrderInit == Init => OrderInv
BY DEF Init, OrderInv, Pending, Answered, Relaying, Before, Negotiating, Tunnelling, Established

\* A connection keeps its invariant when nothing but its wire and its client's
\* end changes, and its wire only beyond what its handler has read.
LEMMA OrderFrame ==
  ASSUME TypeInv, NEW c \in Conns, Pending(c), Answered(c), Relaying(c),
         pc'[c] = pc[c], rd'[c] = rd[c], reply'[c] = reply[c],
         replies'[c] = replies[c], remote'[c] = remote[c],
         upstream'[c] = upstream[c],
         \A i \in 1..rd[c] : wire'[c][i] = wire[c][i]
  PROVE  Pending(c)' /\ Answered(c)' /\ Relaying(c)'
<1>1. rd[c] \in Nat /\ Len(replies[c]) \in Nat
  BY DEF TypeInv, TypeOK
<1>2. Pending(c)'
  BY <1>1 DEF Pending
<1>3. Answered(c)'
  BY <1>1 DEF Answered
<1>4. Relaying(c)'
  BY DEF Relaying, Established
<1> QED
  BY <1>2, <1>3, <1>4

\* What a handler does leaves the other connections alone.
LEMMA OrderOthers ==
  ASSUME TypeInv, OrderInv, NEW c \in Conns, Accept(c) \/ Handler(c),
         NEW d \in Conns, d # c
  PROVE  Pending(d)' /\ Answered(d)' /\ Relaying(d)'
<1>1. /\ pc'[d] = pc[d] /\ rd'[d] = rd[d] /\ reply'[d] = reply[d]
      /\ replies'[d] = replies[d] /\ remote'[d] = remote[d]
      /\ upstream'[d] = upstream[d] /\ wire'[d] = wire[d]
  <2> USE DEF TypeInv, TypeOK, clientVars
  <2>1. CASE Accept(c) \/ Start(c) \/ InitRead(c) \/ InitReadFails(c) \/ Connect(c)
    BY <2>1 DEF Accept, Start, InitRead, InitReadFails, Connect, Release
  <2>2. CASE InitReply(c)
    BY <2>2 DEF InitReply, Release
  <2>3. CASE \/ TunnelHeader(c) \/ TunnelHeaderFails(c)
             \/ TunnelWrite(c) \/ TunnelWriteFails(c)
             \/ TunnelBody(c) \/ TunnelBodyFails(c)
    BY <2>3 DEF TunnelHeader, TunnelHeaderFails, TunnelWrite, TunnelWriteFails,
                TunnelBody, TunnelBodyFails, Release
  <2> QED
    BY <2>1, <2>2, <2>3 DEF Handler
<1> QED
  BY <1>1, OrderFrame DEF OrderInv

LEMMA OrderNegotiation ==
  ASSUME TypeInv, NEW c \in Conns, Pending(c), Answered(c), Relaying(c),
         \/ Accept(c) \/ Start(c) \/ InitRead(c) \/ InitReadFails(c)
         \/ Connect(c) \/ InitReply(c)
  PROVE  Pending(c)' /\ Answered(c)' /\ Relaying(c)'
<1>0. rd[c] \in Nat /\ Len(replies[c]) \in Nat
  BY DEF TypeInv, TypeOK
<1> USE DEF Pending, Answered, Relaying, Before, Negotiating, Tunnelling, Established
<1>1. CASE Accept(c)
  BY <1>1 DEF Accept, clientVars, TypeInv, TypeOK
<1>2. CASE Start(c)
  BY <1>2 DEF Start, clientVars, TypeInv, TypeOK
<1>3. CASE InitRead(c)
  <2>1. /\ wire[c][rd[c] + 1] \in Requests
        /\ wire[c][rd[c] + 1].body = 0
    BY <1>3 DEF InitRead, HeaderEnds
  <2>2. CASE Verdict(wire[c][rd[c] + 1]) = "none"
    <3>1. Justified(wire[c][rd[c] + 1], "ok")
      BY <2>1, <2>2 DEF Verdict, Justified
    <3>2. /\ pc'[c] = "connect" /\ rd'[c] = rd[c] + 1
          /\ UNCHANGED <<wire, replies, remote, upstream>>
      BY <1>3, <2>2 DEF InitRead, clientVars, TypeInv, TypeOK
    <3>3. pc[c] = "init_read"
      BY <1>3 DEF InitRead
    <3> QED
      BY <1>0, <3>1, <3>2, <3>3
  <2>3. CASE Verdict(wire[c][rd[c] + 1]) # "none"
    <3>1. Justified(wire[c][rd[c] + 1], Verdict(wire[c][rd[c] + 1]))
      BY <2>1, <2>3 DEF Verdict, Justified
    <3>2. Verdict(wire[c][rd[c] + 1]) # "ok"
      BY DEF Verdict
    <3> QED
      <4>1. /\ pc'[c] = "init_reply" /\ rd'[c] = rd[c] + 1
            /\ reply'[c] = Verdict(wire[c][rd[c] + 1])
            /\ UNCHANGED <<wire, replies, remote, upstream>>
        BY <1>3, <2>3 DEF InitRead, clientVars, TypeInv, TypeOK
      <4>2. pc[c] = "init_read" /\ remote[c] = "none"
        BY <1>3 DEF InitRead
      <4>3. Pending(c)'
        BY <1>0, <3>1, <4>1, <4>2
      <4>4. Answered(c)'
        BY <1>0, <4>1, <4>2
      <4>5. Relaying(c)'
        BY <3>2, <4>1, <4>2
      <4> QED
        BY <4>3, <4>4, <4>5
  <2> QED
    BY <2>2, <2>3
<1>4. CASE InitReadFails(c)
  BY <1>0, <1>4 DEF InitReadFails, Release, clientVars, TypeInv, TypeOK
<1>5. CASE Connect(c)
  <2>1. Justified(wire[c][rd[c]], "ok") /\ Justified(wire[c][rd[c]], "unreachable")
    BY <1>5 DEF Connect, Justified
  <2> QED
    <3>1. /\ pc'[c] = "init_reply"
          /\ \/ reply'[c] = "ok" /\ remote'[c] = "up"
             \/ reply'[c] = "unreachable" /\ remote'[c] = remote[c]
          /\ UNCHANGED <<wire, rd, replies, upstream>>
      BY <1>5 DEF Connect, clientVars, TypeInv, TypeOK
    <3>2. pc[c] = "connect" /\ remote[c] = "none"
      BY <1>5 DEF Connect
    <3>3. Pending(c)'
      BY <1>0, <2>1, <3>1, <3>2
    <3>4. Answered(c)'
      BY <1>0, <3>1, <3>2
    <3>5. Relaying(c)'
      BY <3>1, <3>2
    <3> QED
      BY <3>3, <3>4, <3>5
<1>6. CASE InitReply(c)
  <2>1. PICK sent \in BOOLEAN :
          /\ replies'[c] = Append(replies[c], [status |-> reply[c], sent |-> sent])
          /\ \/ AfterReply(reply[c], sent) = "done" /\ Release(c)
             \/ /\ AfterReply(reply[c], sent) # "done"
                /\ pc'[c] = AfterReply(reply[c], sent)
                /\ reply'[c] = "none"
                /\ UNCHANGED remote
    BY <1>6 DEF InitReply, TypeInv, TypeOK
  <2> DEFINE last == [status |-> reply[c], sent |-> sent]
  <2>2. /\ pc[c] = "init_reply"
        /\ rd[c] = Len(replies[c]) + 1
        /\ Justified(wire[c][rd[c]], reply[c])
        /\ upstream[c] = <<>>
        /\ reply[c] \in Statuses
        /\ UNCHANGED <<wire, rd, upstream>>
    BY <1>6 DEF InitReply, clientVars, TypeInv, InHand
  <2>3. last \in [status : Statuses, sent : BOOLEAN]
    BY <2>2
  <2>4. /\ Len(replies'[c]) = Len(replies[c]) + 1
        /\ \A i \in 1..Len(replies[c]) : replies'[c][i] = replies[c][i]
        /\ replies'[c][Len(replies[c]) + 1] = last
    BY <2>1, <2>3, AppendType DEF TypeInv, TypeOK
  <2>5. last.status = reply[c] /\ last.sent = sent
    OBVIOUS
  <2>6. \A i \in 1..Len(replies'[c]) : Justified(wire'[c][i], replies'[c][i].status)
    BY <1>0, <2>2, <2>4, <2>5
  <2>7. CASE AfterReply(reply[c], sent) = "done" /\ Release(c)
    <3>1. pc'[c] = "done" /\ remote'[c] = "none"
      BY <2>7 DEF Release, TypeInv, TypeOK
    <3>2. \A i \in 1..Len(replies[c]) : replies'[c][i].status \in Continuing
      BY <1>0, <2>2, <2>4
    <3> QED
      BY <1>0, <2>2, <2>4, <2>6, <3>1, <3>2
  <2>8. CASE /\ reply[c] \in Continuing
             /\ pc'[c] = AfterReply(reply[c], sent)
             /\ UNCHANGED remote
    <3>1. pc'[c] = "init_read" /\ remote'[c] = remote[c]
      BY <2>8 DEF AfterReply, Continuing
    <3>2. \A i \in 1..Len(replies'[c]) : replies'[c][i].status \in Continuing
      <4>1. \A i \in 1..Len(replies[c]) : replies'[c][i].status \in Continuing
        BY <1>0, <2>2, <2>4
      <4>2. replies'[c][Len(replies[c]) + 1].status \in Continuing
        BY <2>4, <2>5, <2>8
      <4>3. Len(replies[c]) \in Nat
        BY DEF TypeInv, TypeOK
      <4> QED
        BY <2>4, <4>1, <4>2, <4>3
    <3>3. remote[c] = "none"
      BY <2>2, <2>8 DEF Continuing
    <3> QED
      BY <1>0, <2>2, <2>4, <2>6, <3>1, <3>2, <3>3
  <2>9. CASE /\ reply[c] \notin Continuing
             /\ AfterReply(reply[c], sent) # "done"
             /\ pc'[c] = AfterReply(reply[c], sent)
             /\ UNCHANGED remote
    <3>1. pc'[c] = "tunnel_header" /\ sent = TRUE /\ remote'[c] = remote[c]
      BY <2>9 DEF AfterReply, Continuing
    <3>2. \A i \in 1..Len(replies[c]) : replies'[c][i].status \in Continuing
      BY <1>0, <2>2, <2>4
    <3>3. reply[c] = "ok" => Established(c)'
      BY <1>0, <2>4, <3>1
    <3>4. remote'[c] # "none" => Established(c)'
      BY <2>2, <3>1, <3>3
    <3> QED
      BY <1>0, <2>2, <2>4, <2>6, <3>1, <3>2, <3>4
  <2> QED
    BY <2>1, <2>2, <2>7, <2>8, <2>9 DEF AfterReply, Continuing
<1> QED
  BY <1>1, <1>2, <1>3, <1>4, <1>5, <1>6

LEMMA OrderTunnel ==
  ASSUME TypeInv, NEW c \in Conns, Pending(c), Answered(c), Relaying(c),
         \/ TunnelHeader(c) \/ TunnelHeaderFails(c)
         \/ TunnelWrite(c) \/ TunnelWriteFails(c)
         \/ TunnelBody(c) \/ TunnelBodyFails(c)
  PROVE  Pending(c)' /\ Answered(c)' /\ Relaying(c)'
<1>1. /\ pc[c] \in Tunnelling /\ pc'[c] \in Tunnelling \cup {"done"}
      /\ UNCHANGED <<wire, replies>>
      /\ rd'[c] >= rd[c] /\ rd'[c] \in Nat
  <2>1. CASE TunnelHeader(c)
    <3>1. rd[c] \in Nat /\ Len(wire[c]) \in Nat
      BY DEF TypeInv, TypeOK
    <3>2. PICK p \in rd[c] + 1 .. Len(wire[c]) : rd' = [rd EXCEPT ![c] = p]
      BY <2>1 DEF TunnelHeader
    <3>3. rd'[c] = p
      BY <3>2 DEF TypeInv, TypeOK
    <3> QED
      BY <2>1, <3>1, <3>3 DEF TunnelHeader, clientVars, TypeInv, TypeOK, Tunnelling
  <2>2. CASE TunnelWrite(c)
    BY <2>2 DEF TunnelWrite, clientVars, TypeInv, TypeOK, Tunnelling
  <2>3. CASE TunnelBody(c)
    <3>1. BodyHeld(c) \in Nat
      BY <2>3, BodyHeldType DEF TunnelBody, TypeInv, InHand
    <3> QED
      BY <2>3, <3>1 DEF TunnelBody, clientVars, TypeInv, TypeOK, Tunnelling
  <2>4. CASE TunnelHeaderFails(c) \/ TunnelWriteFails(c) \/ TunnelBodyFails(c)
    BY <2>4 DEF TunnelHeaderFails, TunnelWriteFails, TunnelBodyFails, Release,
                clientVars, TypeInv, TypeOK, Tunnelling
  <2> QED
    BY <2>1, <2>2, <2>3, <2>4
<1>2. /\ remote'[c] # "none" => remote'[c] = remote[c] /\ pc'[c] \in Tunnelling
      /\ upstream'[c] # <<>> => upstream'[c] = upstream[c] \/ remote[c] # "none"
  <2>1. CASE TunnelHeader(c) \/ TunnelBody(c)
    BY <2>1 DEF TunnelHeader, TunnelBody, TypeInv, TypeOK, Tunnelling
  <2>2. CASE TunnelWrite(c)
    BY <2>2 DEF TunnelWrite, TypeInv, TypeOK, Tunnelling
  <2>3. CASE TunnelHeaderFails(c) \/ TunnelWriteFails(c) \/ TunnelBodyFails(c)
    BY <2>3 DEF TunnelHeaderFails, TunnelWriteFails, TunnelBodyFails, Release,
                TypeInv, TypeOK
  <2> QED
    BY <2>1, <2>2, <2>3
<1>3. rd[c] \in Nat /\ Len(replies[c]) \in Nat
  BY DEF TypeInv, TypeOK
<1>4. Pending(c)'
  BY <1>1 DEF Pending, Before, Tunnelling
<1>5. Answered(c)'
  BY <1>1, <1>3 DEF Answered, Before, Negotiating, Tunnelling
<1>6. Relaying(c)'
  BY <1>1, <1>2 DEF Relaying, Before, Negotiating, Tunnelling, Established
<1> QED
  BY <1>4, <1>5, <1>6

\* The environment writes beyond what a handler has read, or takes a remote
\* connection down that stays held.
LEMMA OrderEnvironment ==
  ASSUME TypeInv, OrderInv, NEW c \in Conns, Client(c) \/ RemoteHost(c),
         NEW d \in Conns
  PROVE  Pending(d)' /\ Answered(d)' /\ Relaying(d)'
<1>0. wire[c] \in Seq(Requests \cup {Text, Junk}) /\ rd[c] \in Nat /\ rd[c] <= Len(wire[c])
  BY DEF TypeInv, TypeOK
<1>1. CASE ClientConnects(c)
  <2>1. CASE d = c
    <3>1. pc'[c] \in Before /\ pc[c] \in Before
      BY <1>1 DEF ClientConnects, TypeInv, TypeOK, Before
    <3> QED
      BY <1>1, <2>1, <3>1
         DEF ClientConnects, OrderInv, Pending, Answered, Relaying, Before,
             Negotiating, Tunnelling, Established
  <2>2. CASE d # c
    BY <1>1, <2>2, OrderFrame DEF ClientConnects, OrderInv, TypeInv, TypeOK
  <2> QED
    BY <2>1, <2>2
<1>2. ASSUME NEW t \in Requests \cup {Text, Junk}, NEW owes, ClientWrites(c, t, owes)
      PROVE  Pending(d)' /\ Answered(d)' /\ Relaying(d)'
  <2>1. \A i \in 1..rd[d] : wire'[d][i] = wire[d][i]
    BY <1>0, <1>2, AppendType DEF ClientWrites, TypeInv, TypeOK
  <2> QED
    BY <1>2, <2>1, OrderFrame DEF ClientWrites, OrderInv
<1>3. ASSUME NEW r \in Requests, ClientSends(c, r)
      PROVE  Pending(d)' /\ Answered(d)' /\ Relaying(d)'
  BY <1>2, <1>3 DEF ClientSends
<1>4. ASSUME NEW u \in Units, ClientSendsBody(c, u)
      PROVE  Pending(d)' /\ Answered(d)' /\ Relaying(d)'
  <2>1. u \in Requests \cup {Text, Junk}
    BY ProxyAssumption
  <2> QED
    BY <1>2, <1>4, <2>1 DEF ClientSendsBody
<1>7. CASE ClientSendsJunk(c)
  BY <1>2, <1>7 DEF ClientSendsJunk
<1>8. CASE ClientStalls(c) \/ ClientResumes(c)
  BY <1>8, OrderFrame DEF ClientStalls, ClientResumes, ClientReads, OrderInv
<1>5. ASSUME NEW how \in {"half", "reset"}, ClientLeaves(c, how)
      PROVE  Pending(d)' /\ Answered(d)' /\ Relaying(d)'
  BY <1>5, OrderFrame DEF ClientLeaves, OrderInv
<1>6. CASE RemoteHost(c)
  <2>1. CASE d = c
    BY <1>6, <2>1
       DEF RemoteHost, RemoteStalls, RemoteResumes, RemoteLeaves, RemoteStep, clientVars,
           OrderInv, Pending, Answered, Relaying, Established, TypeInv, TypeOK
  <2>2. CASE d # c
    BY <1>6, <2>2, OrderFrame
       DEF RemoteHost, RemoteStalls, RemoteResumes, RemoteLeaves, RemoteStep, clientVars,
           OrderInv, TypeInv, TypeOK
  <2> QED
    BY <2>1, <2>2
<1> QED
  BY <1>1, <1>3, <1>4, <1>5, <1>6, <1>7, <1>8 DEF Client

LEMMA OrderStep == TypeInv /\ OrderInv /\ [Next]_vars => OrderInv'
<1> SUFFICES ASSUME TypeInv, OrderInv, [Next]_vars, NEW d \in Conns
             PROVE  Pending(d)' /\ Answered(d)' /\ Relaying(d)'
  BY DEF OrderInv
<1>1. CASE AcceptFails
  BY <1>1, OrderFrame DEF AcceptFails, clientVars, OrderInv
<1>2. ASSUME NEW c \in Conns, Client(c) \/ RemoteHost(c)
      PROVE  Pending(d)' /\ Answered(d)' /\ Relaying(d)'
  BY <1>2, OrderEnvironment
<1>3. ASSUME NEW c \in Conns, Accept(c) \/ Handler(c)
      PROVE  Pending(d)' /\ Answered(d)' /\ Relaying(d)'
  <2>1. CASE d # c
    BY <1>3, <2>1, OrderOthers
  <2>2. CASE d = c
    BY <1>3, <2>2, OrderNegotiation, OrderTunnel DEF Handler, OrderInv
  <2> QED
    BY <2>1, <2>2
<1>4. CASE UNCHANGED vars
  BY <1>4, OrderFrame DEF vars, clientVars, OrderInv
<1> QED
  BY <1>1, <1>2, <1>3, <1>4 DEF Next

LEMMA OrderAlways == Spec => [](TypeInv /\ OrderInv)
BY TypeInit, TypeStep, OrderInit, OrderStep, PTL DEF Spec

(***************************************************************************)
(* Whatever a client pipelines, its i-th response answers its i-th request *)
(* with the status init() owes that request.                               *)
(***************************************************************************)
THEOREM ResponsesMatchRequests == Spec => []RepliesInOrder
<1>1. TypeInv /\ OrderInv => RepliesInOrder
  BY DEF TypeInv, TypeOK, OrderInv, Pending, Answered, RepliesInOrder
<1> QED
  BY <1>1, OrderAlways, PTL

(***************************************************************************)
(* A 200 and the refusal of a connection that is not persistent end the    *)
(* negotiation: no response follows them.                                  *)
(***************************************************************************)
THEOREM NegotiationEnds == Spec => []FinalReplyIsLast
<1>1. ASSUME TypeInv, OrderInv, NEW c \in Conns, NEW i \in 1..Len(replies[c]),
             replies[c][i].status \in {"must_persist", "ok"}
      PROVE  i = Len(replies[c]) /\ pc[c] \in Tunnelling \cup {"done"}
  <2>1. ~(i < Len(replies[c])) /\ pc[c] \notin Before \cup Negotiating
    BY <1>1 DEF OrderInv, Answered, Continuing
  <2>2. Len(replies[c]) \in Nat /\ pc[c] \in Places
    BY <1>1 DEF TypeInv, TypeOK
  <2> QED
    BY <2>1, <2>2 DEF Places, Before
<1>2. TypeInv /\ OrderInv => FinalReplyIsLast
  BY <1>1 DEF FinalReplyIsLast
<1> QED
  BY <1>2, OrderAlways, PTL

(***************************************************************************)
(* A remote host is written to only once the client was sent its 200.      *)
(***************************************************************************)
THEOREM NothingUpstreamBeforeOk == Spec => []UpstreamOnlyAfterOk
<1>1. OrderInv => UpstreamOnlyAfterOk
  BY DEF OrderInv, Relaying, UpstreamOnlyAfterOk
<1> QED
  BY <1>1, OrderAlways, PTL

(***************************************************************************)
(* A connected client_session belongs to a tunnel, or to the 200 that is   *)
(* about to open one, and to no handler that is done.                      *)
(***************************************************************************)
THEOREM NoStrayRemote == Spec => []RemoteOnlyForTunnel
<1>1. OrderInv => RemoteOnlyForTunnel
  BY DEF OrderInv, Relaying, RemoteOnlyForTunnel
<1> QED
  BY <1>1, OrderAlways, PTL

-----------------------------------------------------------------------------
(***************************************************************************)
(* Steps that read go on with a token less; the others go from a place to  *)
(* one with less ahead.                                                    *)
(***************************************************************************)
LEMMA UnreadType ==
  ASSUME TypeOK, NEW c \in Conns
  PROVE  /\ rd[c] \in Nat /\ Len(wire[c]) \in Nat /\ rd[c] <= Len(wire[c])
         /\ Unread(c) \in Nat
BY DEF TypeOK, Unread

\* What a step leaves to do, given what it reads and where it goes.
LEMMA Nearer ==
  ASSUME TypeOK, NEW c \in Conns, NEW k \in Nat, NEW place,
         wire' = wire, rd' = [rd EXCEPT ![c] = @ + k], pc' = [pc EXCEPT ![c] = place],
         Ahead(place) < Ahead(pc[c]) + 3 * k
  PROVE  StepsLeft(c)' < StepsLeft(c)
<1>1. rd'[c] = rd[c] + k /\ pc'[c] = place /\ wire'[c] = wire[c]  BY DEF TypeOK
<1>2. Unread(c)' = Unread(c) - k
  <2>1. rd[c] \in Nat /\ Len(wire[c]) \in Nat  BY UnreadType
  <2> QED  BY <1>1, <2>1 DEF Unread
<1>3. Ahead(place) \in Nat /\ Ahead(pc[c]) \in Nat  BY DEF Ahead
<1>4. StepsLeft(c)' = 3 * (Unread(c) - k) + Ahead(place)
  BY <1>1, <1>2 DEF StepsLeft
<1> QED  BY <1>3, <1>4, UnreadType DEF StepsLeft

LEMMA NearerUnread ==
  ASSUME TypeOK, NEW c \in Conns, NEW place, UNCHANGED <<wire, rd>>,
         pc' = [pc EXCEPT ![c] = place], Ahead(place) < Ahead(pc[c])
  PROVE  StepsLeft(c)' < StepsLeft(c)
<1>1. rd' = [rd EXCEPT ![c] = @ + 0]  BY UnreadType DEF TypeOK
<1>2. Ahead(place) < Ahead(pc[c]) + 3 * 0  BY DEF Ahead
<1> QED  BY <1>1, <1>2, Nearer

\* A handler uses up what its client has sent, and no failure makes it repeat
\* what it did (src/forward_proxy.cpp:44-133 and :143-192).
THEOREM HandlerProgress == Spec => HandlerAdvances
<1>1. ASSUME TypeInv, NEW c \in Conns, Handler(c)
      PROVE  StepsLeft(c)' < StepsLeft(c)
  <2>1. TypeOK  BY <1>1 DEF TypeInv
  <2>2. CASE Start(c)
    <3>1. Ahead("init_read") < Ahead(pc[c])  BY <2>2 DEF Start, Ahead
    <3> QED  BY <2>1, <2>2, <3>1, NearerUnread DEF Start, clientVars
  <2>3. CASE InitRead(c)
    <3>1. PICK place \in {"connect", "init_reply"} : pc' = [pc EXCEPT ![c] = place]
      <4>1. pc' = [pc EXCEPT ![c] = IF Verdict(wire[c][rd[c] + 1]) = "none"
                                    THEN "connect" ELSE "init_reply"]
        BY <2>3 DEF InitRead
      <4> QED  BY <4>1
    <3>2. Ahead(place) < Ahead(pc[c]) + 3 * 1  BY <2>3 DEF InitRead, Ahead
    <3>3. rd' = [rd EXCEPT ![c] = @ + 1] /\ wire' = wire  BY <2>3 DEF InitRead, clientVars
    <3> QED  BY <2>1, <3>1, <3>2, <3>3, Nearer
  <2>4. CASE InitReadFails(c) \/ TunnelHeaderFails(c) \/ TunnelWriteFails(c) \/ TunnelBodyFails(c)
    <3>1. /\ pc[c] \in {"init_read", "tunnel_header", "tunnel_write", "tunnel_body"}
          /\ Release(c) /\ UNCHANGED <<wire, rd>>
      <4>1. CASE InitReadFails(c)  BY <4>1 DEF InitReadFails, clientVars
      <4>2. CASE TunnelHeaderFails(c)  BY <4>2 DEF TunnelHeaderFails, clientVars
      <4>3. CASE TunnelWriteFails(c)  BY <4>3 DEF TunnelWriteFails, clientVars
      <4>4. CASE TunnelBodyFails(c)  BY <4>4 DEF TunnelBodyFails, clientVars
      <4> QED  BY <2>4, <4>1, <4>2, <4>3, <4>4
    <3>2. Ahead("done") < Ahead(pc[c])  BY <3>1 DEF Ahead
    <3> QED  BY <2>1, <3>1, <3>2, NearerUnread DEF Release
  <2>5. CASE Connect(c)
    <3>1. Ahead("init_reply") < Ahead(pc[c])  BY <2>5 DEF Connect, Ahead
    <3> QED  BY <2>1, <2>5, <3>1, NearerUnread DEF Connect, clientVars
  <2>6. CASE InitReply(c)
    <3>1. PICK place \in {"init_read", "tunnel_header", "done"} : pc' = [pc EXCEPT ![c] = place]
      <4>1. PICK sent \in BOOLEAN :
              \/ Release(c)
              \/ pc' = [pc EXCEPT ![c] = AfterReply(reply[c], sent)]
        BY <2>6 DEF InitReply
      <4> QED  BY <4>1 DEF Release, AfterReply
    <3>2. Ahead(place) < Ahead(pc[c])  BY <2>6, <3>1 DEF InitReply, Ahead
    <3> QED  BY <2>1, <2>6, <3>1, <3>2, NearerUnread DEF InitReply, clientVars
  <2>7. CASE TunnelHeader(c)
    <3>1. PICK p \in rd[c] + 1 .. Len(wire[c]) : rd' = [rd EXCEPT ![c] = p]
      BY <2>7 DEF TunnelHeader
    <3>2. PICK k \in Nat : p = rd[c] + k /\ k >= 1
      <4>1. p - rd[c] \in Nat /\ p = rd[c] + (p - rd[c]) /\ p - rd[c] >= 1
        BY <2>1, UnreadType
      <4> QED  BY <4>1
    <3>3. rd' = [rd EXCEPT ![c] = @ + k]  BY <3>1, <3>2
    <3>4. Ahead("tunnel_write") < Ahead(pc[c]) + 3 * k
      BY <2>7, <3>2 DEF TunnelHeader, Ahead
    <3> QED  BY <2>1, <2>7, <3>3, <3>4, Nearer DEF TunnelHeader, clientVars
  <2>8. CASE TunnelWrite(c)
    <3>1. PICK place \in {"tunnel_header", "tunnel_body"} : pc' = [pc EXCEPT ![c] = place]
      BY <2>8 DEF TunnelWrite
    <3>2. Ahead(place) < Ahead(pc[c])  BY <2>8, <3>1 DEF TunnelWrite, Ahead
    <3> QED  BY <2>1, <2>8, <3>1, <3>2, NearerUnread DEF TunnelWrite, clientVars
  <2>9. CASE TunnelBody(c)
    <3>1. BodyHeld(c) \in Nat  BY <1>1, <2>1, <2>9, BodyHeldType DEF TypeInv, InHand, TunnelBody
    <3>2. Ahead("tunnel_header") < Ahead(pc[c]) + 3 * BodyHeld(c)
      BY <2>9, <3>1 DEF TunnelBody, Ahead
    <3> QED  BY <2>1, <2>9, <3>1, <3>2, Nearer DEF TunnelBody, clientVars
  <2> QED  BY <1>1, <2>2, <2>3, <2>4, <2>5, <2>6, <2>7, <2>8, <2>9 DEF Handler
<1>2. TypeInv /\ [Next]_vars =>
        [\A c \in Conns : Handler(c) => StepsLeft(c)' < StepsLeft(c)]_vars
  BY <1>1
<1> QED  BY <1>2, TypeInit, TypeStep, PTL DEF Spec, HandlerAdvances
=============================================================================
