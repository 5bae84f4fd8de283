--------------------------- MODULE MCForwardProxy ---------------------------
(***************************************************************************)
(* Instances of ForwardProxy for TLC.                                      *)
(***************************************************************************)
EXTENDS ForwardProxy

CONSTANTS
  v,      \* the value of a field
  talker  \* the client that sends when the others are silent

MCNames == {"connection", "upgrade", "host"}

\* A field list: the Connection values and the other fields present.
MCFields(connection, others) ==
  [n \in MCNames |-> CASE n = "connection" -> connection
                       [] n \in others -> <<v>>
                       [] OTHER -> <<>>]

MCRequest(method, keep_alive, body, fields) ==
  [method |-> method, keep_alive |-> keep_alive, body |-> body, fields |-> fields]

Plain == MCFields(<<>>, {})
Upgrading == MCFields(<< <<"", "upgrade">> >>, {"upgrade", "host"})

\* The requests init() tells apart, and bodies that fill a buffer of one unit and
\* overflow it.
MCRequests ==
  { MCRequest("OTHER", TRUE, 0, Upgrading),
    MCRequest("CONNECT", TRUE, 0, Plain),
    MCRequest("CONNECT", FALSE, 0, Plain),
    MCRequest("OTHER", TRUE, 1, Plain),
    MCRequest("OTHER", TRUE, 2, Plain) }

\* What init() accepts, and those bodies.
MCShortRequests ==
  { MCRequest("CONNECT", TRUE, 0, Plain),
    MCRequest("OTHER", TRUE, 1, Plain),
    MCRequest("OTHER", TRUE, 2, Plain) }

\* Units of a body: text, something no header holds, and a request.
MCUnits      == {Text, Junk, MCRequest("OTHER", TRUE, 0, Upgrading)}
MCShortUnits == {Text, MCRequest("OTHER", TRUE, 1, Plain)}

\* How much clients may send: one of them, and one beside one that is silent.
MCOne(n)    == [c \in Conns |-> n]
MCWire5     == MCOne(5)
MCWire2     == MCOne(2)
MCOneTalks  == [c \in Conns |-> IF c = talker THEN 4 ELSE 0]

=============================================================================
