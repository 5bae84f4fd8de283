--------------------------- MODULE ClientSession ---------------------------
(***************************************************************************)
(* What flows through a foxy::client_session (include/foxy/client_session  *)
(* .hpp, impl/client_session.impl.hpp): async_connect, async_request and   *)
(* shutdown on a session without an SSL context, called one after the      *)
(* other, and the hosts it connects to.                                    *)
(*                                                                         *)
(* The buffer belongs to the session, not to a connection: a read leaves   *)
(* in it what the parser did not take, and async_connect does not clear    *)
(* it.                                                                     *)
(*                                                                         *)
(* A response arrives in five parts: a piece of its status line ("start"), *)
(* the end of that line and field lines ("lines"), a piece of a field line *)
(* ("field"), the rest of the header with the blank line that ends it      *)
(* ("rest"), and its body.  Session models the coroutines; here an awaited *)
(* step is one action.                                                     *)
(***************************************************************************)
EXTENDS Naturals, Sequences, FiniteSetsExt

CONSTANTS
  MaxConns,     \* bound on the connections made
  MaxRequests,  \* bound on the requests made
  Choosy        \* the requests whose parser may refuse a response that is well
                \* formed: for the size of its header or body, or for having one

ASSUME ClientSessionAssumption ==
  MaxConns \in Nat /\ MaxRequests \in Nat /\ Choosy \subseteq Nat

PartNames      == {"start", "lines", "field", "rest", "body"}
Part(c, n, p)  == [conn |-> c, request |-> n, part |-> p]
Response(c, n) == <<Part(c, n, "start"), Part(c, n, "lines"), Part(c, n, "field"),
                    Part(c, n, "rest"), Part(c, n, "body")>>
Parts          == [conn : 1..MaxConns, request : 1..MaxRequests, part : PartNames]

VARIABLES
  phase,    \* what the session awaits, or "idle"
  conn,     \* how many connections were made; the last is the current one
  socket,   \* "closed", "connected", or "shut": connected, sending no more
  clean,    \* whether the buffer was empty when the connection was made and no
            \* parser has refused a response on it since
  made,     \* how many requests were made
  asked,    \* the requests the host received on the connection
  sent,     \* the parts it sent
  wire,     \* those the session has not read
  end,      \* the host's side: "open", "closed" after what was sent, "reset"
  buffer,   \* session_state::buffer
  parsed,   \* what the parser of the request took
  results   \* the requests that succeeded and what the parser stored

host == <<asked, sent, end>>
vars == <<phase, conn, socket, clean, made, asked, sent, wire, end, buffer, parsed, results>>

Init ==
  /\ phase = "idle" /\ conn = 0 /\ socket = "closed" /\ clean = TRUE /\ made = 0
  /\ asked = 0 /\ sent = 0 /\ wire = <<>> /\ end = "open"
  /\ buffer = <<>> /\ parsed = <<>> /\ results = {}

-----------------------------------------------------------------------------
(***************************************************************************)
(* async_connect.                                                          *)
(***************************************************************************)
ConnectCall ==
  /\ phase = "idle" /\ conn < MaxConns
  /\ phase' = "resolving"
  /\ UNCHANGED <<conn, socket, clean, made, host, wire, buffer, parsed, results>>

\* The name is not resolved: the socket stays as it is.
ResolveFails ==
  /\ phase = "resolving"
  /\ phase' = "idle"
  /\ UNCHANGED <<conn, socket, clean, made, host, wire, buffer, parsed, results>>

\* The bug of connecting a socket that was not closed.
ResolvedOpen ==
  /\ phase = "resolving"
  /\ phase' = "connecting"
  /\ UNCHANGED <<conn, socket, clean, made, host, wire, buffer, parsed, results>>

\* asio::async_connect closes the socket before it tries an endpoint.
Resolved ==
  /\ phase = "resolving"
  /\ phase' = "connecting" /\ socket' = "closed" /\ wire' = <<>>
  /\ UNCHANGED <<conn, clean, made, host, buffer, parsed, results>>

ConnectFails ==
  /\ phase = "connecting"
  /\ phase' = "idle"
  /\ UNCHANGED <<conn, socket, clean, made, host, wire, buffer, parsed, results>>

Connected ==
  /\ phase = "connecting"
  /\ phase' = "idle" /\ conn' = conn + 1 /\ socket' = "connected" /\ clean' = (buffer = <<>>)
  /\ asked' = 0 /\ sent' = 0 /\ end' = "open"
  /\ UNCHANGED <<made, wire, buffer, parsed, results>>

-----------------------------------------------------------------------------
(***************************************************************************)
(* async_request: write the request, then read the response.               *)
(***************************************************************************)
RequestCall ==
  /\ phase = "idle" /\ made < MaxRequests
  /\ phase' = "writing" /\ made' = made + 1 /\ parsed' = <<>>
  /\ UNCHANGED <<conn, socket, clean, host, wire, buffer, results>>

\* The host may have closed its side and still take what is written.
Written ==
  /\ phase = "writing" /\ socket = "connected" /\ end # "reset"
  /\ phase' = "reading" /\ asked' = asked + 1
  /\ UNCHANGED <<conn, socket, clean, made, sent, wire, end, buffer, parsed, results>>

WriteFails ==
  /\ phase = "writing" /\ (socket = "connected" => end # "open")
  /\ phase' = "idle"
  /\ UNCHANGED <<conn, socket, clean, made, host, wire, buffer, parsed, results>>

\* Where lines of a header end in what the parser is given, and where the header
\* does; what begins with a piece of a field line is no header.
EndsIn(s, names) == {i \in DOMAIN s : s[i].part \in names /\ s[1].part # "field"}
LineEnds(s)      == EndsIn(s, {"lines", "rest"})
HeaderEnds(s)    == EndsIn(s, {"rest"})

\* The bug of async_read_header in place of async_read: the body is left.
CompleteHeader(s) == HeaderEnds(s) # {}

\* A whole response is taken from s: a header up to the first blank line,
\* whatever it consists of, and the body behind it.
Complete(s) == HeaderEnds(s) # {} /\ Min(HeaderEnds(s)) < Len(s)

\* How much of s the parser takes: of a header that is not complete the lines
\* that are.
Taken(s) ==
  IF HeaderEnds(s) = {} THEN Max(LineEnds(s) \cup {0})
  ELSE Min({Min(HeaderEnds(s)) + 1, Len(s)})

\* The parser is given what is in the buffer behind what it took before.
Parse(s) ==
  /\ parsed' = SubSeq(s, 1, Taken(s))
  /\ buffer' = SubSeq(s, Taken(s) + 1, Len(s))

\* The request succeeds with what the parser took.
Succeed ==
  /\ phase' = "idle"
  /\ results' = results \cup {[nr |-> made, conn |-> conn, request |-> asked,
                               clean |-> clean, got |-> parsed']}
  /\ UNCHANGED <<conn, socket, clean, made, host, wire>>

\* The response is complete, with what was read before or last.
Finish ==
  /\ phase = "reading" /\ Complete(parsed \o buffer)
  /\ Parse(parsed \o buffer)
  /\ Succeed

\* The body of a refused response may be a response by itself.
Misread ==
  /\ phase = "reading" /\ parsed = <<>> /\ buffer # <<>> /\ buffer[1].part = "body"
  /\ parsed' = <<buffer[1]>> /\ buffer' = Tail(buffer)
  /\ Succeed

\* The read fails with an error of the parser, which took n of s.
ParserGivesUp(s, n) ==
  /\ phase = "reading"
  /\ phase' = "idle"
  /\ parsed' = SubSeq(s, 1, n) /\ buffer' = SubSeq(s, n + 1, Len(s))
  /\ UNCHANGED <<conn, socket, made, host, wire, results>>

\* A first line put together from two responses is not always a status line;
\* the parser that refuses it takes nothing.
Refuse ==
  LET s == parsed \o buffer IN
  /\ s # <<>>
  /\ s[1].part # "start" \/ (Len(s) > 1 /\ s[2].part # "lines")
  /\ ParserGivesUp(s, 0)
  /\ UNCHANGED clean

\* header_limit at a line of the header, or body_limit, unexpected_body or
\* need_buffer behind it: the rest of the response stays where it is, in the
\* buffer or on the wire of a connection that goes on.
ParserFails ==
  LET s == parsed \o buffer IN
  /\ made \in Choosy /\ s # <<>>
  /\ \E n \in LineEnds(s) \cup {0} : ParserGivesUp(s, n)
  /\ clean' = FALSE

\* async_read_some delivers a part of what the host has sent.
ReadSome ==
  /\ phase = "reading" /\ ~Complete(parsed \o buffer) /\ wire # <<>>
  /\ \E n \in 1..Len(wire) :
       /\ Parse(parsed \o buffer \o SubSeq(wire, 1, n))
       /\ wire' = SubSeq(wire, n + 1, Len(wire))
  /\ UNCHANGED <<phase, conn, socket, clean, made, host, results>>

\* The bug of an error that overtakes what was received before it.
ReadFailsEagerly ==
  /\ phase = "reading" /\ ~Complete(parsed \o buffer) /\ end # "open"
  /\ phase' = "idle"
  /\ UNCHANGED <<conn, socket, clean, made, host, wire, buffer, parsed, results>>

\* The bug of an end that is an error only between two messages.
ReadFailsAtStart ==
  /\ phase = "reading" /\ parsed \o buffer = <<>>
  /\ wire = <<>> /\ end # "open"
  /\ phase' = "idle"
  /\ UNCHANGED <<conn, socket, clean, made, host, wire, buffer, parsed, results>>

\* The stream ends within the response, or before it.
ReadFails ==
  /\ phase = "reading" /\ ~Complete(parsed \o buffer)
  /\ wire = <<>> /\ end # "open"
  /\ phase' = "idle"
  /\ UNCHANGED <<conn, socket, clean, made, host, wire, buffer, parsed, results>>

\* shutdown(): the session sends no more on this connection.
Shutdown ==
  /\ phase = "idle" /\ socket = "connected"
  /\ socket' = "shut"
  /\ UNCHANGED <<phase, conn, clean, made, host, wire, buffer, parsed, results>>

-----------------------------------------------------------------------------
(***************************************************************************)
(* The host: answers what it is asked, part by part, and may leave.        *)
(***************************************************************************)
HostSends ==
  /\ socket # "closed" /\ end = "open" /\ sent < 5 * asked
  /\ wire' = Append(wire, Response(conn, (sent \div 5) + 1)[(sent % 5) + 1])
  /\ sent' = sent + 1
  /\ UNCHANGED <<phase, conn, socket, clean, made, asked, end, buffer, parsed, results>>

\* A reset takes with it what was not read.
HostLeaves ==
  /\ socket # "closed" /\ end = "open"
  /\ \/ end' = "closed" /\ UNCHANGED wire
     \/ end' = "reset" /\ wire' = <<>>
  /\ UNCHANGED <<phase, conn, socket, clean, made, asked, sent, buffer, parsed, results>>

Session ==
  \/ ResolveFails \/ Resolved \/ ConnectFails \/ Connected
  \/ Written \/ WriteFails \/ Finish \/ Misread \/ Refuse \/ ParserFails
  \/ ReadSome \/ ReadFails

Next == ConnectCall \/ RequestCall \/ Shutdown \/ Session \/ HostSends \/ HostLeaves

\* Every awaited step that can complete does.
FairSpec == Init /\ [][Next]_vars /\ WF_vars(Session)

-----------------------------------------------------------------------------
\* The values of the variables; the host answers what it was asked, and what
\* it sent is in the wire, with the session, or lost.
TypeOK ==
  /\ phase \in {"idle", "resolving", "connecting", "writing", "reading"}
  /\ conn \in 0..MaxConns /\ made \in 0..MaxRequests /\ asked \in 0..made
  /\ socket \in {"closed", "connected", "shut"} /\ clean \in BOOLEAN
  /\ end \in {"open", "closed", "reset"}
  /\ sent \in 0..5 * asked
  /\ {buffer, parsed, wire} \subseteq Seq(Parts)
  /\ Len(wire) <= sent

\* A request that succeeds was given the response of the host it was sent
\* to, to that request and no other (client_session.hpp:75-76).
ResponseIsTheHosts ==
  \A r \in results : r.got = Response(r.conn, r.request)

\* The same of connections made while the buffer was empty, as long as no parser
\* refuses a response that is well formed: a host that leaves within a response,
\* or a request that is never answered, does no harm to the requests made after
\* it on the connection (client_session.impl.hpp:146-170).
AnswersItsRequest ==
  \A r \in results : r.clean => r.got = Response(r.conn, r.request)

\* The n-th request of the session succeeded.
Succeeded(n) == \E r \in results : r.nr = n

\* A response the host sent in full is delivered to a parser that accepts it,
\* though the host closes right behind it or the parts come in any pieces
\* (client_session.impl.hpp:155).
AnswerIsDelivered ==
  \A n \in (1..MaxRequests) \ Choosy :
    (phase = "reading" /\ made = n /\ clean /\ sent = 5 * asked)
      ~> (Succeeded(n) \/ end = "reset")

\* A request, and a connect, ends once the host is gone, wherever in the
\* response it leaves (client_session.impl.hpp:149 and :162).
RequestEnds == (phase # "idle" /\ end # "open") ~> phase = "idle"

=============================================================================
