--------------------------- MODULE TunnelService ---------------------------
(***************************************************************************)
(* What the forward proxy does for its clients, seen from the two wires of *)
(* a connection alone: the responses a client is sent and the headers the  *)
(* remote host is sent.  Reads, connects, bodies, buffers and the order in *)
(* which handlers run are hidden; ForwardProxy implements this module.     *)
(*                                                                         *)
(* A service answers the requests of a client one by one.  Requests that   *)
(* are refused may be followed by others, until a 200 opens the tunnel or  *)
(* the refusal of a connection that is not persistent shuts it for good.   *)
(* Through an open tunnel the headers of requests are relayed without      *)
(* their hop-by-hop fields, in order, and none is left out; a body is      *)
(* dropped as far as there is room for it, and what exceeds it is taken    *)
(* for the next header, or for a part of it.  A service may end at any     *)
(* time, and then nothing more is sent.                                    *)
(***************************************************************************)
EXTENDS Partition

CONSTANTS
  Conns,     \* the connections of clients
  Requests,  \* the requests clients may send
  Text,      \* what is taken for the beginning of a header
  Junk,      \* what is taken for nothing
  Room       \* as much of a body as is dropped

VARIABLES
  phase,    \* "waiting", "negotiating", "open", "refused" or "ended"
  sent,     \* what the client has sent
  answers,  \* the responses, and whether the client's socket took them
  relayed   \* the headers relayed, each with its place in what was sent

vars == <<phase, sent, answers, relayed>>

Init ==
  /\ phase   = [c \in Conns |-> "waiting"]
  /\ sent    = [c \in Conns |-> <<>>]
  /\ answers = [c \in Conns |-> <<>>]
  /\ relayed = [c \in Conns |-> <<>>]

\* The responses a request may get.
AnswersTo(r) ==
  IF r.method # "CONNECT" THEN {"method_not_allowed"}
  ELSE IF r.keep_alive THEN {"ok", "unreachable"} ELSE {"must_persist"}

\* Where a service is after a response.
After(status, took) ==
  IF status \in {"method_not_allowed", "unreachable"} THEN "negotiating"
  ELSE IF ~took THEN "ended"
  ELSE IF status = "ok" THEN "open" ELSE "refused"

\* The place of the last request that was answered or relayed, and of the end of
\* what is dropped of its body.
Behind(c) ==
  IF relayed[c] = <<>> THEN Len(answers[c])
  ELSE LET last == relayed[c][Len(relayed[c])].at
       IN  IF sent[c][last].body <= Room THEN last + sent[c][last].body ELSE last + Room

Hear(c, t) ==
  /\ sent' = [sent EXCEPT ![c] = Append(@, t)]
  /\ UNCHANGED <<phase, answers, relayed>>

Begin(c) ==
  /\ phase[c] = "waiting"
  /\ phase' = [phase EXCEPT ![c] = "negotiating"]
  /\ UNCHANGED <<sent, answers, relayed>>

\* The next request has a response; all before it have theirs.
Answer(c, status, took) ==
  LET next == Len(answers[c]) + 1
  IN  /\ phase[c] = "negotiating"
      /\ next <= Len(sent[c])
      /\ sent[c][next] \in Requests
      /\ sent[c][next].body = 0
      /\ status \in AnswersTo(sent[c][next])
      /\ answers' = [answers EXCEPT ![c] =
                       Append(@, [status |-> status, sent |-> took])]
      /\ phase' = [phase EXCEPT ![c] = After(status, took)]
      /\ UNCHANGED <<sent, relayed>>

\* The next header is relayed: a request, with Text in front or alone.
Relay(c, p) ==
  /\ phase[c] = "open"
  /\ p > Behind(c) /\ p <= Len(sent[c])
  /\ sent[c][p] \in Requests
  /\ \A q \in Behind(c) + 1 .. p - 1 : sent[c][q] = Text
  /\ relayed' = [relayed EXCEPT ![c] =
       Append(@, [at |-> p,
                  method |-> IF p = Behind(c) + 1 THEN sent[c][p].method ELSE "garbled",
                  fields |-> InFields(sent[c][p].fields)])]
  /\ UNCHANGED <<phase, sent, answers>>

End(c) ==
  /\ phase[c] \in {"negotiating", "open", "refused"}
  /\ phase' = [phase EXCEPT ![c] = "ended"]
  /\ UNCHANGED <<sent, answers, relayed>>

Next ==
  \E c \in Conns :
    \/ \E t \in Requests \cup {Text, Junk} : Hear(c, t)
    \/ Begin(c)
    \/ \E status \in {"method_not_allowed", "must_persist", "unreachable", "ok"},
          took \in BOOLEAN : Answer(c, status, took)
    \/ \E p \in 1..Len(sent[c]) : Relay(c, p)
    \/ End(c)

Spec == Init /\ [][Next]_vars
=============================================================================
