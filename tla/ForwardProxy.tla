---------------------------- MODULE ForwardProxy ----------------------------
(***************************************************************************)
(* foxy::forward_proxy (src/forward_proxy.cpp): the loop that accepts      *)
(* clients and, for each of them, the coroutine handle_request, which      *)
(* negotiates a tunnel (init), relays requests through it (tunnel) and     *)
(* shuts the connection down.                                              *)
(*                                                                         *)
(* A coroutine runs without interruption from one co_await to the next, so *)
(* a step of a handler is the completion of the operation it awaits with   *)
(* everything the code does before it awaits again; pc names the co_await  *)
(* a handler is suspended at.  Between two steps of a handler its client,  *)
(* the remote host, the acceptor and the other handlers may take theirs.   *)
(* The asynchronous operations of a session are taken to complete once,    *)
(* with success or with an error: module Session is about them.            *)
(*                                                                         *)
(* The bytes a client sends are a sequence of tokens: a request stands for *)
(* its header, and a body is sent in units of the buffer of tunnel().  A   *)
(* unit is whatever the client likes, and a parser given it in place of a  *)
(* header takes it for what it looks like: the beginning of a header, of   *)
(* which it waits for the rest (Text), the whole of one (a request), or    *)
(* something it rejects (Junk).                                            *)
(***************************************************************************)
EXTENDS Partition

CONSTANTS
  Conns,      \* the connections clients may make
  Requests,   \* the requests they may send
  Text,       \* what a parser takes for the beginning of a header
  Junk,       \* what it rejects
  Units,      \* what a unit of a body may look like to it
  NoRequest,  \* no message parsed yet
  BufSize,    \* units of body that fit in the buffer of tunnel()
  MaxWire     \* bound: the tokens each client may send

\* Text in front of a request line becomes a part of its method: "garbled".
Messages == [method : {"CONNECT", "OTHER", "garbled"}, keep_alive : BOOLEAN,
             body : Nat, fields : Fields]

ASSUME ProxyAssumption == /\ Requests \subseteq {m \in Messages : m.method # "garbled"}
                          /\ Units \subseteq Requests \cup {Text, Junk}
                          /\ Text # Junk
                          /\ {Text, Junk, NoRequest} \cap Messages = {}
                          /\ BufSize \in Nat \ {0}
                          /\ MaxWire \in [Conns -> Nat]

VARIABLES
  acceptor,  \* "listening", or "stopped" once run() has left its loop
  pc,        \* where the handler of a connection is suspended
  peer,      \* the client's end of the connection
  window,    \* whether it takes what is written to it: "open" or "full"
  wire,      \* what the client has sent since it connected
  heads,     \* history: the places in wire of what it sent as a request, the
             \* rest being units of their bodies and Junk; no step reads it
  owed,      \* units the client still has to send of its last request's body
  rd,        \* how much of wire the reads of the handler have consumed
  request,   \* parser.get()
  reply,     \* the status of the response being written
  replies,   \* the responses written, and whether the write succeeded
  remote,    \* the client_session's socket: "none", "up", "stalled" (its send
             \* buffer is full and the remote host does not read), or "down"
             \* (the remote host has left)
  upstream   \* the request headers written to the remote host

clientVars == <<peer, window, wire, heads, owed>>
vars == <<acceptor, pc, clientVars, rd, request, reply, replies, remote, upstream>>

Statuses == {"method_not_allowed", "must_persist", "unreachable", "ok"}
Negotiating == {"init_read", "connect", "init_reply"}
Tunnelling == {"tunnel_header", "tunnel_write", "tunnel_body"}
Places == {"absent", "backlog", "spawned", "done"} \cup Negotiating \cup Tunnelling

Init ==
  /\ acceptor = "listening"
  /\ pc       = [c \in Conns |-> "absent"]
  /\ peer     = [c \in Conns |-> "absent"]
  /\ window   = [c \in Conns |-> "open"]
  /\ wire     = [c \in Conns |-> <<>>]
  /\ heads    = [c \in Conns |-> {}]
  /\ owed     = [c \in Conns |-> 0]
  /\ rd       = [c \in Conns |-> 0]
  /\ request  = [c \in Conns |-> NoRequest]
  /\ reply    = [c \in Conns |-> "none"]
  /\ replies  = [c \in Conns |-> <<>>]
  /\ remote   = [c \in Conns |-> "none"]
  /\ upstream = [c \in Conns |-> <<>>]

-----------------------------------------------------------------------------
(***************************************************************************)
(* The environment.  The kernel completes the handshake of a client as     *)
(* long as the listening socket is open, which the forward_proxy object    *)
(* keeps it after run() has stopped accepting.  A client sends requests,   *)
(* each followed by its whole body, or Junk; it stops sending ("half") or  *)
(* resets the connection when it likes.  It may stop reading too, once it  *)
(* has a response to leave unread, and a remote host, whose answers the    *)
(* proxy never reads, may; nothing says that either reads again.  A remote *)
(* host may also go away.                                                  *)
(***************************************************************************)
ClientConnects(c) ==
  /\ pc[c] = "absent"
  /\ peer' = [peer EXCEPT ![c] = "open"]
  /\ pc' = [pc EXCEPT ![c] = "backlog"]
  /\ UNCHANGED <<acceptor, window, wire, heads, owed, rd, request, reply, replies,
                 remote, upstream>>

\* The client sends a token, and then owes so much of a body.
ClientWrites(c, token, owes) ==
  /\ peer[c] = "open" /\ pc[c] # "done"
  /\ Len(wire[c]) < MaxWire[c]
  /\ wire' = [wire EXCEPT ![c] = Append(@, token)]
  /\ owed' = [owed EXCEPT ![c] = owes]
  /\ UNCHANGED <<acceptor, pc, peer, window, rd, request, reply, replies, remote, upstream>>

ClientSends(c, r) ==
  /\ owed[c] = 0
  /\ ClientWrites(c, r, r.body)
  /\ heads' = [heads EXCEPT ![c] = @ \cup {Len(wire[c]) + 1}]

ClientSendsBody(c, u) ==
  /\ owed[c] > 0
  /\ ClientWrites(c, u, owed[c] - 1)
  /\ UNCHANGED heads

ClientSendsJunk(c) ==
  /\ owed[c] = 0
  /\ ClientWrites(c, Junk, 0)
  /\ UNCHANGED heads

ClientLeaves(c, how) ==
  /\ pc[c] # "done"
  /\ \/ peer[c] = "open" /\ how \in {"half", "reset"}
     \/ peer[c] = "half" /\ how = "reset"
  /\ peer' = [peer EXCEPT ![c] = how]
  /\ UNCHANGED <<acceptor, pc, window, wire, heads, owed, rd, request, reply, replies,
                 remote, upstream>>

ClientReads(c, from, to) ==
  /\ peer[c] \in {"open", "half"} /\ pc[c] # "done"
  /\ window[c] = from
  /\ window' = [window EXCEPT ![c] = to]
  /\ UNCHANGED <<acceptor, pc, peer, wire, heads, owed, rd, request, reply, replies,
                 remote, upstream>>

ClientStalls(c)  == replies[c] # <<>> /\ ClientReads(c, "open", "full")
ClientResumes(c) == ClientReads(c, "full", "open")

RemoteStep(c, from, to) ==
  /\ remote[c] = from
  /\ remote' = [remote EXCEPT ![c] = to]
  /\ UNCHANGED <<acceptor, pc, clientVars, rd, request, reply, replies, upstream>>

RemoteStalls(c)  == RemoteStep(c, "up", "stalled")
RemoteResumes(c) == RemoteStep(c, "stalled", "up")
RemoteLeaves(c)  == \E from \in {"up", "stalled"} : RemoteStep(c, from, "down")

-----------------------------------------------------------------------------
(***************************************************************************)
(* run(): accept a client, move its socket into a handler spawned for it,  *)
(* accept the next.  Any error of async_accept ends the loop.              *)
(***************************************************************************)

\* The bug of awaiting handle_request() instead of spawning it.
AcceptAndAwait(c) ==
  /\ acceptor = "listening"
  /\ pc[c] = "backlog"
  /\ \A d \in Conns : pc[d] \in {"absent", "backlog", "done"}
  /\ pc' = [pc EXCEPT ![c] = "spawned"]
  /\ UNCHANGED <<acceptor, clientVars, rd, request, reply, replies, remote, upstream>>

Accept(c) ==
  /\ acceptor = "listening"
  /\ pc[c] = "backlog"
  /\ pc' = [pc EXCEPT ![c] = "spawned"]
  /\ UNCHANGED <<acceptor, clientVars, rd, request, reply, replies, remote, upstream>>

AcceptFails ==
  /\ acceptor = "listening"
  /\ acceptor' = "stopped"
  /\ UNCHANGED <<pc, clientVars, rd, request, reply, replies, remote, upstream>>

\* handle_request starts: it makes the two sessions and enters init().
Start(c) ==
  /\ pc[c] = "spawned"
  /\ pc' = [pc EXCEPT ![c] = "init_read"]
  /\ UNCHANGED <<acceptor, clientVars, rd, request, reply, replies, remote, upstream>>

-----------------------------------------------------------------------------
\* The tokens the server_session may still read.
Unread(c) == Len(wire[c]) - rd[c]

\* Nothing but Text lies between what was read and the place p.
AllText(c, p) == \A q \in rd[c] + 1 .. p - 1 : wire[c][q] = Text

\* The next header ends with the request at p, what is in front of it included.
HeaderEnds(c, p) ==
  /\ p \in rd[c] + 1 .. Len(wire[c])
  /\ wire[c][p] \in Requests
  /\ AllText(c, p)

HeaderAhead(c) == \E p \in rd[c] + 1 .. Len(wire[c]) : HeaderEnds(c, p)

\* What the parser makes of the header that ends at p.
HeaderOf(c, p) ==
  IF p = rd[c] + 1 THEN wire[c][p] ELSE [wire[c][p] EXCEPT !.method = "garbled"]

\* The parser rejects what it is given; after Text it may reject anything.
HeaderRefused(c) ==
  \E p \in rd[c] + 1 .. Len(wire[c]) :
    AllText(c, p) /\ (wire[c][p] = Junk \/ p > rd[c] + 1)

\* The bug of waiting for data a client that has stopped sending will not send.
StreamEndsOnReset(c, here) == peer[c] = "reset"

\* A read cannot be satisfied any more, what it waits for not being here, or
\* need not be: on a reset it fails even if there is something to read.
StreamEnds(c, here) ==
  \/ peer[c] = "reset"
  \/ peer[c] = "half" /\ ~here

HeaderFails(c) == StreamEnds(c, HeaderAhead(c)) \/ HeaderRefused(c)

\* The bug of keeping the remote connection of a handler that is done.
ReleaseClientOnly(c) ==
  /\ pc' = [pc EXCEPT ![c] = "done"]
  /\ request' = [request EXCEPT ![c] = NoRequest]
  /\ reply' = [reply EXCEPT ![c] = "none"]
  /\ UNCHANGED remote

\* handle_request() returns: server_session.shutdown(), which may throw into
\* the detached coroutine, and the destruction of both sessions.
Release(c) ==
  /\ pc' = [pc EXCEPT ![c] = "done"]
  /\ request' = [request EXCEPT ![c] = NoRequest]
  /\ reply' = [reply EXCEPT ![c] = "none"]
  /\ remote' = [remote EXCEPT ![c] = "none"]

-----------------------------------------------------------------------------
(***************************************************************************)
(* init()                                                                  *)
(***************************************************************************)

\* The bug of connecting whatever the method.
VerdictWithoutMethod(r) == IF r.keep_alive THEN "none" ELSE "must_persist"

\* The response a request gets before anything is attempted, or "none".
Verdict(r) ==
  IF r.method # "CONNECT" THEN "method_not_allowed"
  ELSE IF r.keep_alive THEN "none" ELSE "must_persist"

\* server_session.async_read has parsed a request, which has no body; neither
\* had any before it, so there is no Text in front of it.
InitRead(c) ==
  /\ pc[c] = "init_read"
  /\ HeaderEnds(c, rd[c] + 1)
  /\ LET r == wire[c][rd[c] + 1]
     IN  /\ r.body = 0
         /\ request' = [request EXCEPT ![c] = r]
         /\ reply' = [reply EXCEPT ![c] = Verdict(r)]
         /\ pc' = [pc EXCEPT ![c] =
                     IF Verdict(r) = "none" THEN "connect" ELSE "init_reply"]
  /\ rd' = [rd EXCEPT ![c] = @ + 1]
  /\ UNCHANGED <<acceptor, clientVars, replies, remote, upstream>>

\* It fails: besides what breaks any header, an empty_body parser rejects the
\* first octet of a body, and an announced body may never come.
InitReadFails(c) ==
  /\ pc[c] = "init_read"
  /\ \/ HeaderFails(c)
     \/ /\ HeaderEnds(c, rd[c] + 1)
        /\ wire[c][rd[c] + 1].body > 0
        /\ Unread(c) > 1 \/ StreamEnds(c, FALSE)
  /\ Release(c)
  /\ UNCHANGED <<acceptor, clientVars, rd, replies, upstream>>

\* client_session.async_connect completes; which hosts can be reached, the
\* splitting of the target into host and port included, is left open.
Connect(c) ==
  /\ pc[c] = "connect"
  /\ pc' = [pc EXCEPT ![c] = "init_reply"]
  /\ \/ /\ reply' = [reply EXCEPT ![c] = "ok"]
        /\ remote' = [remote EXCEPT ![c] = "up"]
     \/ /\ reply' = [reply EXCEPT ![c] = "unreachable"]
        /\ UNCHANGED remote
  /\ UNCHANGED <<acceptor, clientVars, rd, request, replies, upstream>>

\* The bug of leaving out the `break` after the 200.
AfterReplyNoBreak(status, sent) ==
  IF status \in {"method_not_allowed", "unreachable", "ok"} THEN "init_read"
  ELSE IF sent THEN "tunnel_header" ELSE "done"

\* The bug of leaving out the test of ec in handle_request().
AfterReplyNoTest(status, sent) ==
  IF status \in {"method_not_allowed", "unreachable"} THEN "init_read"
  ELSE "tunnel_header"

\* The bug of trying again, by itself, to connect to a host out of reach.
AfterReplyRetry(status, sent) ==
  IF status = "unreachable" THEN "connect"
  ELSE IF status = "method_not_allowed" THEN "init_read"
  ELSE IF sent THEN "tunnel_header" ELSE "done"

\* Where a handler goes once it has written a response: `continue` whatever
\* became of the write, or `break` and the test of ec in handle_request().
AfterReply(status, sent) ==
  IF status \in {"method_not_allowed", "unreachable"} THEN "init_read"
  ELSE IF sent THEN "tunnel_header" ELSE "done"

\* server_session.async_write completes, which it does not for as long as the
\* client takes nothing.
InitReply(c) ==
  /\ pc[c] = "init_reply"
  /\ window[c] = "open" \/ peer[c] = "reset"
  /\ \E sent \in (IF peer[c] = "reset" THEN BOOLEAN ELSE {TRUE}) :
       /\ replies' = [replies EXCEPT ![c] =
                        Append(@, [status |-> reply[c], sent |-> sent])]
       /\ \/ /\ AfterReply(reply[c], sent) = "done"
             /\ Release(c)
          \/ /\ AfterReply(reply[c], sent) # "done"
             /\ pc' = [pc EXCEPT ![c] = AfterReply(reply[c], sent)]
             /\ request' = [request EXCEPT ![c] = NoRequest]
             /\ reply' = [reply EXCEPT ![c] = "none"]
             /\ UNCHANGED remote
  /\ UNCHANGED <<acceptor, clientVars, rd, upstream>>

-----------------------------------------------------------------------------
(***************************************************************************)
(* tunnel()                                                                *)
(***************************************************************************)

\* The bug of leaving out partition_connection_options.
RelayedWithHops(r) == r

\* A request after partition_connection_options.
Relayed(r) == [r EXCEPT !.fields = InFields(@)]

\* server_session.async_read_header completes.
TunnelHeader(c) ==
  /\ pc[c] = "tunnel_header"
  /\ \E p \in rd[c] + 1 .. Len(wire[c]) :
       /\ HeaderEnds(c, p)
       /\ request' = [request EXCEPT ![c] = Relayed(HeaderOf(c, p))]
       /\ rd' = [rd EXCEPT ![c] = p]
  /\ pc' = [pc EXCEPT ![c] = "tunnel_write"]
  /\ UNCHANGED <<acceptor, clientVars, reply, replies, remote, upstream>>

TunnelHeaderFails(c) ==
  /\ pc[c] = "tunnel_header"
  /\ HeaderFails(c)
  /\ Release(c)
  /\ UNCHANGED <<acceptor, clientVars, rd, replies, upstream>>

\* client_session.async_write_header, which takes as long as the remote host is
\* stalled; parser.is_done() is true of a request without a body, and the loop
\* starts over.
TunnelWrite(c) ==
  /\ pc[c] = "tunnel_write"
  /\ remote[c] \in {"up", "down"}
  /\ upstream' = [upstream EXCEPT ![c] =
       Append(@, [at |-> rd[c], method |-> request[c].method,
                  fields |-> request[c].fields])]
  /\ IF request[c].body = 0
     THEN /\ pc' = [pc EXCEPT ![c] = "tunnel_header"]
          /\ request' = [request EXCEPT ![c] = NoRequest]
     ELSE /\ pc' = [pc EXCEPT ![c] = "tunnel_body"]
          /\ UNCHANGED request
  /\ UNCHANGED <<acceptor, clientVars, rd, reply, replies, remote>>

\* A socket that was never connected fails every write, one whose peer left may.
TunnelWriteFails(c) ==
  /\ pc[c] = "tunnel_write"
  /\ remote[c] \in {"none", "down"}
  /\ Release(c)
  /\ UNCHANGED <<acceptor, clientVars, rd, replies, upstream>>

(***************************************************************************)
(* server_session.async_read into the buffer of tunnel().  It ends when    *)
(* the body does, or when more of it arrives than the buffer has room for: *)
(* need_buffer, which is cleared.  What was read goes nowhere, the rest is *)
(* left in the buffer of the session, and the loop makes a new parser.     *)
(***************************************************************************)

\* The bug of a buffer made anew for each read: its leftovers are lost.
BodyHeldAndLeftovers(c) == Unread(c)

\* What the buffer has of the body when the read ends.
BodyHeld(c) == IF request[c].body <= BufSize THEN request[c].body ELSE BufSize

\* The bug of not awaiting the read of a body.
BodyReadAtOnce(c) == TRUE

\* The bug of taking a full buffer for a body that is not done.
BodyReadBeyond(c) == Unread(c) > BodyHeld(c)

BodyRead(c) ==
  /\ Unread(c) >= BodyHeld(c)
  /\ request[c].body > BufSize => Unread(c) > BufSize

TunnelBody(c) ==
  /\ pc[c] = "tunnel_body"
  /\ BodyRead(c)
  /\ rd' = [rd EXCEPT ![c] = @ + BodyHeld(c)]
  /\ pc' = [pc EXCEPT ![c] = "tunnel_header"]
  /\ request' = [request EXCEPT ![c] = NoRequest]
  /\ UNCHANGED <<acceptor, clientVars, reply, replies, remote, upstream>>

TunnelBodyFails(c) ==
  /\ pc[c] = "tunnel_body"
  /\ StreamEnds(c, BodyRead(c))
  /\ Release(c)
  /\ UNCHANGED <<acceptor, clientVars, rd, replies, upstream>>

-----------------------------------------------------------------------------
Handler(c) ==
  \/ Start(c)
  \/ InitRead(c) \/ InitReadFails(c) \/ Connect(c) \/ InitReply(c)
  \/ TunnelHeader(c) \/ TunnelHeaderFails(c)
  \/ TunnelWrite(c) \/ TunnelWriteFails(c)
  \/ TunnelBody(c) \/ TunnelBodyFails(c)

Client(c) ==
  \/ ClientConnects(c)
  \/ \E r \in Requests : ClientSends(c, r)
  \/ \E u \in Units : ClientSendsBody(c, u)
  \/ ClientSendsJunk(c)
  \/ ClientStalls(c) \/ ClientResumes(c)
  \/ \E how \in {"half", "reset"} : ClientLeaves(c, how)

RemoteHost(c) == RemoteStalls(c) \/ RemoteResumes(c) \/ RemoteLeaves(c)

Next ==
  \/ AcceptFails
  \/ \E c \in Conns : Client(c) \/ RemoteHost(c) \/ Accept(c) \/ Handler(c)

Spec == Init /\ [][Next]_vars

\* The io_context is run, so an operation that can complete does, and its
\* coroutine is resumed.  Clients, remote hosts and failures are not fair.
Fairness == \A c \in Conns : WF_vars(Accept(c)) /\ WF_vars(Handler(c))

FairSpec == Spec /\ Fairness

-----------------------------------------------------------------------------
TypeOK ==
  /\ acceptor \in {"listening", "stopped"}
  /\ pc \in [Conns -> Places]
  /\ peer \in [Conns -> {"absent", "open", "half", "reset"}]
  /\ window \in [Conns -> {"open", "full"}]
  /\ wire \in [Conns -> Seq(Requests \cup {Text, Junk})]
  /\ heads \in [Conns -> SUBSET Nat]
  /\ owed \in [Conns -> Nat]
  /\ rd \in [Conns -> Nat]
  /\ request \in [Conns -> Messages \cup {NoRequest}]
  /\ reply \in [Conns -> Statuses \cup {"none"}]
  /\ replies \in [Conns -> Seq([status : Statuses, sent : BOOLEAN])]
  /\ remote \in [Conns -> {"none", "up", "stalled", "down"}]
  /\ upstream \in [Conns -> Seq([at : Nat, method : {"CONNECT", "OTHER", "garbled"},
                                    fields : Fields])]
  /\ \A c \in Conns : rd[c] <= Len(wire[c])

\* Whether init() may answer the request r with the given status.
Justified(r, status) ==
  /\ r \in Requests
  /\ r.body = 0
  /\ status = "method_not_allowed" <=> r.method # "CONNECT"
  /\ status = "must_persist" <=> r.method = "CONNECT" /\ ~r.keep_alive

(***************************************************************************)
(* However a client pipelines its requests, and whichever writes fail, the *)
(* i-th response answers the i-th request, with the status that request    *)
(* calls for: nothing is skipped, answered twice or answered for another.  *)
(***************************************************************************)
RepliesInOrder ==
  \A c \in Conns :
    /\ Len(replies[c]) <= rd[c]
    /\ \A i \in 1..Len(replies[c]) : Justified(wire[c][i], replies[c][i].status)
    /\ pc[c] = "init_read" => rd[c] = Len(replies[c])
    /\ pc[c] \in {"connect", "init_reply"} => rd[c] = Len(replies[c]) + 1

(***************************************************************************)
(* A 200, or the refusal of a connection that is not persistent, is the    *)
(* last response of a connection: init() is left and never entered again.  *)
(***************************************************************************)
FinalReplyIsLast ==
  \A c \in Conns : \A i \in 1..Len(replies[c]) :
    replies[c][i].status \in {"must_persist", "ok"} =>
      /\ i = Len(replies[c])
      /\ pc[c] \in Tunnelling \cup {"done"}

\* The last response was a 200 and the client's socket took it.
Established(c) ==
  /\ replies[c] # <<>>
  /\ replies[c][Len(replies[c])] = [status |-> "ok", sent |-> TRUE]

(***************************************************************************)
(* Nothing reaches a remote host unless the client has been sent the 200   *)
(* of its tunnel: not after a refusal, and not after a 200 that was lost.  *)
(***************************************************************************)
UpstreamOnlyAfterOk == \A c \in Conns : upstream[c] # <<>> => Established(c)

(***************************************************************************)
(* The client_session is connected at most once, on the way to a 200, and  *)
(* its connection is held only until the handler is done: async_connect is *)
(* never called on a connected session and no refusal leaves one behind.   *)
(***************************************************************************)
RemoteOnlyForTunnel ==
  \A c \in Conns : remote[c] # "none" =>
    \/ pc[c] = "init_reply" /\ reply[c] = "ok"
    \/ pc[c] \in Tunnelling /\ Established(c)

(***************************************************************************)
(* What is relayed was read since the last response, and is relayed in     *)
(* order, none of it twice.  Up to the first body that is longer than the  *)
(* buffer it is the headers the client sent after its CONNECT, as it sent  *)
(* them, none left out but the one in hand: through the hand-over of the   *)
(* session and its buffer from init() to tunnel(), and across bodies.      *)
(***************************************************************************)
InFrame(c, p) == \A q \in heads[c] : q < p => wire[c][q].body <= BufSize

UpstreamInOrder ==
  \A c \in Conns :
    /\ \A k \in 1..Len(upstream[c]) :
         /\ upstream[c][k].at \in Len(replies[c]) + 1 .. rd[c]
         /\ InFrame(c, upstream[c][k].at) =>
              /\ upstream[c][k].at \in heads[c]
              /\ upstream[c][k].method = wire[c][upstream[c][k].at].method
         /\ \A j \in 1..k - 1 : upstream[c][j].at < upstream[c][k].at
    /\ \A p \in heads[c] :
         (p > Len(replies[c]) /\ p <= rd[c] /\ InFrame(c, p)) =>
           \/ \E k \in 1..Len(upstream[c]) : upstream[c][k].at = p
           \/ p = rd[c] /\ pc[c] \in {"connect", "init_reply", "tunnel_write", "done"}

(***************************************************************************)
(* Of a request whose Connection values hold no blank after an option, the *)
(* remote host is sent every end-to-end field as it was, and no other.     *)
(***************************************************************************)
HopByHopStripped ==
  \A c \in Conns : \A k \in 1..Len(upstream[c]) :
    LET given == wire[c][upstream[c][k].at].fields
    IN  WellFormed(given) =>
          upstream[c][k].fields =
            [n \in Names |-> IF n \in HopByHop(given) THEN <<>> ELSE given[n]]

(***************************************************************************)
(* On its two wires a handler keeps the promise of TunnelService: answers  *)
(* one by one, then, after a 200 the client has got and nothing else, the  *)
(* headers without their hop-by-hop fields, and silence once it is done.   *)
(***************************************************************************)
ServicePhase(c) ==
  IF pc[c] \in {"absent", "backlog"} THEN "waiting"
  ELSE IF pc[c] = "done" THEN "ended"
  ELSE IF pc[c] \notin Tunnelling THEN "negotiating"
  ELSE IF Established(c) THEN "open" ELSE "refused"

Service == INSTANCE TunnelService WITH
  phase   <- [c \in Conns |-> ServicePhase(c)],
  sent    <- wire,
  answers <- replies,
  relayed <- upstream,
  Room    <- BufSize

ServiceKept == Service!Spec

(***************************************************************************)
(* Neither loop of a handler turns by itself, whatever fails: every step   *)
(* is nearer to the end of what there is to do with the tokens its client  *)
(* has sent, at most three steps for each of them                          *)
(* (src/forward_proxy.cpp:44-133 and :143-192).                            *)
(***************************************************************************)
Ahead(place) ==
  IF place = "spawned" THEN 5
  ELSE IF place = "connect" THEN 4
  ELSE IF place \in {"init_reply", "tunnel_write"} THEN 3
  ELSE IF place \in {"init_read", "tunnel_body"} THEN 2
  ELSE IF place = "tunnel_header" THEN 1 ELSE 0

StepsLeft(c) == 3 * Unread(c) + Ahead(pc[c])

HandlerAdvances ==
  [][\A c \in Conns : Handler(c) => StepsLeft(c)' < StepsLeft(c)]_vars

(***************************************************************************)
(* A handler whose client has stopped sending, or is gone, ends, whatever  *)
(* it was doing and however many requests are still to be read, unless a   *)
(* peer that never reads again holds it in a write, be it the remote host  *)
(* or the client: no timer would free it.                                  *)
(***************************************************************************)
PeersRead(c) == remote[c] # "stalled" /\ (window[c] = "open" \/ peer[c] = "reset")

GoneClientIsReleased ==
  \A c \in Conns :
    <>[]PeersRead(c) =>
      (peer[c] \in {"half", "reset"} /\ pc[c] # "backlog") ~> pc[c] = "done"

(***************************************************************************)
(* Every request a client sends is read, with as much of its body as the   *)
(* buffer holds, and what was read before it has been answered or relayed, *)
(* or its handler has ended: a handler waits for nothing but its own       *)
(* peers, which here complete their bodies and read.  A request behind a   *)
(* body longer than the buffer is excepted.                                *)
(***************************************************************************)
IsRead(c, p) ==
  /\ p \in heads[c]
  /\ \/ rd[c] >= p + wire[c][p].body
     \/ rd[c] >= p + BufSize

EveryRequestServed ==
  \A c \in Conns :
    <>[](PeersRead(c) /\ owed[c] = 0) =>
      \A p \in 1..MaxWire[c] :
        (p \in heads[c] /\ InFrame(c, p)) ~> \/ IsRead(c, p) \/ pc[c] = "done"
                                            \/ acceptor = "stopped"

(***************************************************************************)
(* A client in the backlog gets a handler, unless accepting has failed.    *)
(***************************************************************************)
BacklogIsServed ==
  \A c \in Conns : pc[c] = "backlog" ~> pc[c] # "backlog" \/ acceptor = "stopped"

-----------------------------------------------------------------------------
(***************************************************************************)
(* What comments and tests say and the code does not do.                   *)
(***************************************************************************)

(***************************************************************************)
(* "if we have the correct verb but the connection was signalled to _not_  *)
(* be persistent, gracefully end the connection now"                       *)
(* (src/forward_proxy.cpp:77): once that response has been written the     *)
(* handler ends the connection.                                            *)
(***************************************************************************)
NonPersistentEnds ==
  \A c \in Conns :
    (replies[c] # <<>> /\ replies[c][Len(replies[c])].status = "must_persist")
      ~> pc[c] = "done"

(***************************************************************************)
(* The proxy "should forward requests on behalf of the client"             *)
(* (test/forward_proxy_test.cpp:20): when tunnel() turns to the next       *)
(* request, the remote host has been sent everything read before it.       *)
(***************************************************************************)
RequestsForwardedWhole ==
  \A c \in Conns : pc[c] = "tunnel_header" =>
    \A p \in Len(replies[c]) + 1 .. rd[c] :
      \E k \in 1..Len(upstream[c]) : upstream[c][k].at = p

(***************************************************************************)
(* The proxy "should forward requests on behalf of the client"             *)
(* (test/forward_proxy_test.cpp:20): what the remote host is sent are      *)
(* headers the client sent as such, with the method it gave them.          *)
(***************************************************************************)
OnlyRequestsRelayed ==
  \A c \in Conns : \A k \in 1..Len(upstream[c]) :
    /\ upstream[c][k].at \in heads[c]
    /\ upstream[c][k].method = wire[c][upstream[c][k].at].method
=============================================================================
