------------------------ MODULE TunnelServiceProofs ------------------------
(***************************************************************************)
(* What ForwardProxy relays: theorems about the headers written to the     *)
(* remote host, and that the proxy implements TunnelService, for any       *)
(* connections, requests, buffer and bound.                                *)
(***************************************************************************)
EXTENDS ForwardProxyProofs, PartitionProofs

-----------------------------------------------------------------------------
(***************************************************************************)
(* The strengthening.  Framed is about the client, which sends a header    *)
(* only after the whole body of the one before.  Sequenced says where what *)
(* a handler has read lies behind the last header it relayed.  Aligned     *)
(* says that, up to the first body longer than the buffer, a handler turns *)
(* to the next header exactly where the client began one.                  *)
(***************************************************************************)

\* The end of the body of the request at p, and of what is dropped of it.
EndOf(c, p) == p + wire[c][p].body
Dropped(c, p) ==
  IF wire[c][p].body <= BufSize THEN p + wire[c][p].body ELSE p + BufSize

Framed(c) ==
  /\ \A q \in heads[c] :
       /\ q \in 1..Len(wire[c])
       /\ wire[c][q] \in Requests
       /\ EndOf(c, q) <= Len(wire[c]) + owed[c]
  /\ \A q, r \in heads[c] : q < r => EndOf(c, q) < r
  /\ \A p \in 1..Len(wire[c]) :
       \/ p \in heads[c]
       \/ wire[c][p] = Junk
       \/ \E q \in heads[c] : q < p /\ p <= EndOf(c, q)
  /\ owed[c] > 0 => \E q \in heads[c] : EndOf(c, q) = Len(wire[c]) + owed[c]

\* What was relayed is what was read, in order.
RecordedAt(c, k) ==
  LET at == upstream[c][k].at
  IN  /\ at \in Len(replies[c]) + 1 .. rd[c]
      /\ wire[c][at] \in Requests
      /\ upstream[c][k].fields = InFields(wire[c][at].fields)
      /\ InFrame(c, at) => at \in heads[c] /\ upstream[c][k].method = wire[c][at].method
      /\ \A j \in 1..k - 1 : upstream[c][j].at < at

Recorded(c) == \A k \in 1..Len(upstream[c]) : RecordedAt(c, k)

\* A request that was read but not relayed is the one in hand.
Holding == {"connect", "init_reply", "tunnel_write", "done"}

Consumed(c) ==
  \A p \in heads[c] :
    (p > Len(replies[c]) /\ p <= rd[c] /\ InFrame(c, p)) =>
      \/ \E k \in 1..Len(upstream[c]) : upstream[c][k].at = p
      \/ p = rd[c] /\ pc[c] \in Holding

\* The place of the last request that was answered or relayed, and where what
\* is dropped behind it ends.
LastPlace(c) ==
  IF upstream[c] = <<>> THEN Len(replies[c])
  ELSE upstream[c][Len(upstream[c])].at

Resume(c) ==
  IF upstream[c] = <<>> THEN Len(replies[c]) ELSE Dropped(c, LastPlace(c))

Sequenced(c) ==
  /\ pc[c] \in {"tunnel_write", "tunnel_body"} =>
       /\ rd[c] > 0
       /\ wire[c][rd[c]] \in Requests
       /\ request[c].body = wire[c][rd[c]].body
  /\ pc[c] = "tunnel_write" =>
       /\ Resume(c) < rd[c]
       /\ \A q \in Resume(c) + 1 .. rd[c] - 1 : wire[c][q] = Text
       /\ request[c].fields = InFields(wire[c][rd[c]].fields)
       /\ request[c].method =
            IF rd[c] = Resume(c) + 1 THEN wire[c][rd[c]].method ELSE "garbled"
  /\ pc[c] = "tunnel_header" => rd[c] = Resume(c)
  /\ pc[c] = "tunnel_body" => upstream[c] # <<>> /\ rd[c] = LastPlace(c)

Aligned(c) ==
  /\ pc[c] \in {"tunnel_write", "tunnel_body"} /\ InFrame(c, rd[c]) => rd[c] \in heads[c]
  /\ pc[c] = "tunnel_write" /\ InFrame(c, rd[c]) => rd[c] = Resume(c) + 1
  /\ pc[c] = "tunnel_header" /\ InFrame(c, rd[c] + 1) =>
       \A q \in heads[c] : q <= rd[c] => EndOf(c, q) <= rd[c]

InStep(c) == Recorded(c) /\ Consumed(c) /\ Sequenced(c) /\ Aligned(c)

RelayInv == \A c \in Conns : Framed(c) /\ InStep(c)

LEMMA RelayInit == Init => RelayInv
<1> SUFFICES ASSUME Init, NEW c \in Conns PROVE Framed(c) /\ InStep(c)
  BY DEF RelayInv
<1>1. /\ wire[c] = <<>> /\ upstream[c] = <<>> /\ replies[c] = <<>> /\ heads[c] = {}
      /\ rd[c] = 0 /\ pc[c] = "absent" /\ owed[c] = 0
  BY DEF Init
<1>2. Len(wire[c]) = 0 /\ Len(upstream[c]) = 0 /\ Len(replies[c]) = 0
  BY <1>1
<1> QED
  BY <1>1, <1>2 DEF Framed, InStep, Recorded, Consumed, Sequenced, Aligned

\* An element of a sequence.
LEMMA ElementType ==
  ASSUME NEW S, NEW s \in Seq(S), NEW i \in 1..Len(s) PROVE s[i] \in S
OBVIOUS

\* Types of what the strengthening speaks of.
LEMMA PlaceTypes ==
  ASSUME TypeInv, NEW c \in Conns
  PROVE  /\ rd[c] \in Nat /\ Len(wire[c]) \in Nat /\ rd[c] <= Len(wire[c])
         /\ Len(replies[c]) \in Nat /\ Len(upstream[c]) \in Nat
         /\ owed[c] \in Nat
         /\ heads[c] \subseteq Nat
         /\ \A k \in 1..Len(upstream[c]) : upstream[c][k].at \in Nat
         /\ upstream[c] # <<>> => Len(upstream[c]) \in 1..Len(upstream[c])
         /\ \A p \in 1..Len(wire[c]) : wire[c][p] \in Requests \cup {Text, Junk}
<1> DEFINE Relays == [at : Nat, method : {"CONNECT", "OTHER", "garbled"}, fields : Fields]
<1>1. /\ wire[c] \in Seq(Requests \cup {Text, Junk}) /\ rd[c] \in Nat /\ owed[c] \in Nat
      /\ replies[c] \in Seq([status : Statuses, sent : BOOLEAN])
      /\ upstream[c] \in Seq(Relays)
      /\ heads[c] \in SUBSET Nat
      /\ rd[c] <= Len(wire[c])
  BY DEF TypeInv, TypeOK
<1>2. \A k \in 1..Len(upstream[c]) : upstream[c][k].at \in Nat
  <2>1. \A k \in 1..Len(upstream[c]) : upstream[c][k] \in Relays
    BY <1>1, ElementType
  <2> QED
    BY <2>1
<1> HIDE DEF Relays
<1>3. Len(wire[c]) \in Nat /\ Len(replies[c]) \in Nat /\ Len(upstream[c]) \in Nat
  BY <1>1
<1>4. upstream[c] # <<>> => Len(upstream[c]) \in 1..Len(upstream[c])
  BY <1>1
<1>5. \A p \in 1..Len(wire[c]) : wire[c][p] \in Requests \cup {Text, Junk}
  BY <1>1
<1> QED
  BY <1>1, <1>2, <1>3, <1>4, <1>5

\* A request has a body, neither Text nor Junk is one, and its fields are fields.
LEMMA RequestType ==
  ASSUME NEW r \in Requests
  PROVE  r \in Messages /\ r.body \in Nat /\ r # Text /\ r # Junk /\ r.fields \in Fields
BY ProxyAssumption DEF Messages

\* The last place is no further than what was read, and not before the responses.
LEMMA LastPlaceType ==
  ASSUME TypeInv, OrderInv, NEW c \in Conns, Recorded(c)
  PROVE  /\ LastPlace(c) \in Nat /\ Resume(c) \in Nat
         /\ Len(replies[c]) <= LastPlace(c)
         /\ LastPlace(c) <= rd[c]
         /\ LastPlace(c) <= Resume(c)
<1>1. Len(replies[c]) <= rd[c]
  BY DEF OrderInv, Answered
<1>2. CASE upstream[c] = <<>>
  BY <1>1, <1>2, PlaceTypes DEF LastPlace, Resume
<1>3. CASE upstream[c] # <<>>
  <2>1. /\ LastPlace(c) \in Len(replies[c]) + 1 .. rd[c]
        /\ wire[c][LastPlace(c)] \in Requests
    BY <1>3, PlaceTypes DEF LastPlace, Recorded, RecordedAt
  <2>2. wire[c][LastPlace(c)].body \in Nat /\ BufSize \in Nat
    BY <2>1, RequestType, ProxyAssumption
  <2>3. LastPlace(c) \in Nat
    BY <2>1, PlaceTypes
  <2>4. Resume(c) = Dropped(c, LastPlace(c))
    BY <1>3 DEF Resume
  <2> HIDE DEF LastPlace
  <2>5. Resume(c) \in Nat /\ LastPlace(c) <= Resume(c)
    BY <2>2, <2>3, <2>4 DEF Dropped
  <2> QED
    BY <2>1, <2>3, <2>5, PlaceTypes
<1> QED
  BY <1>2, <1>3

\* A place in front of one in frame is in frame.
LEMMA InFrameDown ==
  ASSUME TypeInv, NEW c \in Conns, NEW p \in Nat, NEW q \in Nat, q <= p, InFrame(c, p)
  PROVE  InFrame(c, q)
BY PlaceTypes DEF InFrame

-----------------------------------------------------------------------------
(***************************************************************************)
(* A step of the proxy preserves the strengthening.                        *)
(***************************************************************************)

\* What the requests among the tokens are stays when a client sends another.
LEMMA FramedGrows ==
  ASSUME TypeInv, NEW c \in Conns, Framed(c), NEW t \in Requests \cup {Text, Junk},
         wire'[c] = Append(wire[c], t)
  PROVE  /\ Len(wire'[c]) = Len(wire[c]) + 1
         /\ wire'[c][Len(wire[c]) + 1] = t
         /\ \A i \in 1..Len(wire[c]) : wire'[c][i] = wire[c][i]
         /\ \A q \in heads[c] :
              /\ wire'[c][q] = wire[c][q] /\ EndOf(c, q)' = EndOf(c, q)
              /\ q \in Nat /\ q >= 1 /\ q <= Len(wire[c]) /\ EndOf(c, q) \in Nat
<1>1. /\ Len(wire'[c]) = Len(wire[c]) + 1
      /\ wire'[c][Len(wire[c]) + 1] = t
      /\ \A i \in 1..Len(wire[c]) : wire'[c][i] = wire[c][i]
  BY AppendType DEF TypeInv, TypeOK
<1>2. ASSUME NEW q \in heads[c]
      PROVE  /\ wire'[c][q] = wire[c][q] /\ EndOf(c, q)' = EndOf(c, q)
             /\ q \in Nat /\ q >= 1 /\ q <= Len(wire[c]) /\ EndOf(c, q) \in Nat
  <2>1. q \in 1..Len(wire[c]) /\ wire[c][q] \in Requests
    BY DEF Framed
  <2>2. wire[c][q].body \in Nat /\ q \in Nat
    BY <2>1, RequestType
  <2> QED
    BY <1>1, <2>1, <2>2 DEF EndOf
<1> QED
  BY <1>1, <1>2

\* A client that sends a request keeps to the framing: its last body is complete.
LEMMA FramedRequest ==
  ASSUME TypeInv, NEW c \in Conns, Framed(c), NEW t \in Requests,
         wire'[c] = Append(wire[c], t), owed[c] = 0, owed'[c] = t.body,
         heads'[c] = heads[c] \cup {Len(wire[c]) + 1}
  PROVE  Framed(c)'
<1>0. PICK n \in Nat : n = Len(wire[c])
  BY PlaceTypes
<1>t. t.body \in Nat
  BY RequestType
<1>1. /\ Len(wire'[c]) = n + 1
      /\ wire'[c][n + 1] = t
      /\ \A i \in 1..n : wire'[c][i] = wire[c][i]
      /\ \A q \in heads[c] :
           /\ wire'[c][q] = wire[c][q] /\ EndOf(c, q)' = EndOf(c, q)
           /\ q \in Nat /\ q >= 1 /\ q <= n /\ EndOf(c, q) \in Nat
  BY <1>0, FramedGrows
<1>2. \A q \in heads[c] : EndOf(c, q) <= n /\ wire[c][q] \in Requests
  BY <1>0, <1>1 DEF Framed
<1>3. EndOf(c, n + 1)' = n + 1 + t.body
  BY <1>1 DEF EndOf
<1>h. heads'[c] = heads[c] \cup {n + 1}
  BY <1>0
<1>4. \A p \in 1..n : \/ p \in heads[c]
                      \/ wire[c][p] = Junk
                      \/ \E q \in heads[c] : q < p /\ p <= EndOf(c, q)
  BY <1>0 DEF Framed
<1>5. \A q, r \in heads[c] : q < r => EndOf(c, q) < r
  BY DEF Framed
<1>6. \A q \in heads'[c] : /\ q \in 1..n + 1
                           /\ wire'[c][q] \in Requests
                           /\ EndOf(c, q)' <= n + 1 + owed'[c]
  <2>1. ASSUME NEW q \in heads[c]
        PROVE  q \in 1..n + 1 /\ wire'[c][q] \in Requests /\ EndOf(c, q)' <= n + 1 + owed'[c]
    BY <1>0, <1>t, <1>1, <1>2
  <2>2. n + 1 \in 1..n + 1 /\ wire'[c][n + 1] \in Requests /\ EndOf(c, n + 1)' <= n + 1 + owed'[c]
    BY <1>0, <1>1, <1>3, <1>t
  <2> QED
    BY <1>h, <2>1, <2>2
<1>7. ASSUME NEW q \in heads'[c], NEW r \in heads'[c], q < r PROVE EndOf(c, q)' < r
  <2>1. q \in heads[c] \/ q = n + 1
    BY <1>h
  <2>2. r \in heads[c] \/ r = n + 1
    BY <1>h
  <2>3. CASE q \in heads[c] /\ r \in heads[c]
    BY <1>1, <1>5, <1>7, <2>3
  <2>4. CASE q \in heads[c] /\ r = n + 1
    BY <1>0, <1>1, <1>2, <2>4
  <2>5. CASE q = n + 1
    BY <1>0, <1>1, <1>7, <2>2, <2>5
  <2> QED
    BY <2>1, <2>2, <2>3, <2>4, <2>5
<1>8. ASSUME NEW p \in 1..n + 1
      PROVE  \/ p \in heads'[c]
             \/ wire'[c][p] = Junk
             \/ \E q \in heads'[c] : q < p /\ p <= EndOf(c, q)'
  <2>1. CASE p = n + 1
    BY <1>h, <2>1
  <2>2. CASE p \in 1..n
    <3>1. CASE p \in heads[c] \/ wire[c][p] = Junk
      BY <1>1, <1>h, <2>2, <3>1
    <3>2. CASE \E q \in heads[c] : q < p /\ p <= EndOf(c, q)
      BY <1>1, <1>h, <3>2
    <3> QED
      BY <1>4, <2>2, <3>1, <3>2
  <2> QED
    BY <1>0, <2>1, <2>2
<1>9. \E q \in heads'[c] : EndOf(c, q)' = n + 1 + owed'[c]
  <2>1. n + 1 \in heads'[c]
    BY <1>h
  <2> QED
    BY <1>3, <2>1
<1> QED
  BY <1>0, <1>1, <1>6, <1>7, <1>8, <1>9 DEF Framed

\* So does one that sends a unit of a body it owes, or Junk when it owes none.
LEMMA FramedOther ==
  ASSUME TypeInv, NEW c \in Conns, Framed(c), NEW t \in Requests \cup {Text, Junk},
         wire'[c] = Append(wire[c], t), heads'[c] = heads[c],
         \/ owed[c] > 0 /\ owed'[c] = owed[c] - 1
         \/ owed[c] = 0 /\ owed'[c] = 0 /\ t = Junk
  PROVE  Framed(c)'
<1>0. PICK n \in Nat : n = Len(wire[c])
  BY PlaceTypes
<1>o. PICK o \in Nat : o = owed[c]
  BY PlaceTypes
<1>w. PICK w : w = owed'[c]
  OBVIOUS
<1>1. /\ Len(wire'[c]) = n + 1
      /\ wire'[c][n + 1] = t
      /\ \A i \in 1..n : wire'[c][i] = wire[c][i]
      /\ \A q \in heads[c] :
           /\ wire'[c][q] = wire[c][q] /\ EndOf(c, q)' = EndOf(c, q)
           /\ q \in Nat /\ q >= 1 /\ q <= n /\ EndOf(c, q) \in Nat
  BY <1>0, FramedGrows
<1>2. /\ n + o <= n + 1 + w
      /\ o > 0 => n + o = n + 1 + w
      /\ w > 0 => o > 0
      /\ w \in Nat
  <2>1. (o > 0 /\ w = o - 1) \/ (o = 0 /\ w = 0)
    BY <1>o, <1>w
  <2> QED
    BY ONLY <2>1, n \in Nat, o \in Nat
<1>3. \A q \in heads[c] : EndOf(c, q) <= n + o /\ wire[c][q] \in Requests
  BY <1>0, <1>o DEF Framed
<1>4. \A p \in 1..n : \/ p \in heads[c]
                      \/ wire[c][p] = Junk
                      \/ \E q \in heads[c] : q < p /\ p <= EndOf(c, q)
  BY <1>0, <1>o DEF Framed
<1>5. \A q, r \in heads[c] : q < r => EndOf(c, q) < r
  BY <1>0, <1>o DEF Framed
<1>6. o > 0 => \E q \in heads[c] : EndOf(c, q) = n + o
  BY <1>0, <1>o DEF Framed
<1>7. \A q \in heads[c] : /\ q \in 1..n + 1
                          /\ wire'[c][q] \in Requests
                          /\ EndOf(c, q)' <= n + 1 + w
  BY <1>0, <1>1, <1>2, <1>3
<1>8. \A q, r \in heads[c] : q < r => EndOf(c, q)' < r
  BY <1>1, <1>5
<1>9. ASSUME NEW p \in 1..n + 1
      PROVE  \/ p \in heads[c]
             \/ wire'[c][p] = Junk
             \/ \E q \in heads[c] : q < p /\ p <= EndOf(c, q)'
  <2>1. CASE p = n + 1 /\ o = 0
    BY <1>1, <1>o, <2>1
  <2>2. CASE p = n + 1 /\ o > 0
    <3>1. PICK q \in heads[c] : EndOf(c, q) = n + o
      BY <1>6, <2>2
    <3> QED
      BY <1>0, <1>1, <2>2, <3>1
  <2>3. CASE p \in 1..n
    <3>1. CASE p \in heads[c] \/ wire[c][p] = Junk
      BY <1>1, <2>3, <3>1
    <3>2. CASE \E q \in heads[c] : q < p /\ p <= EndOf(c, q)
      BY <1>1, <3>2
    <3> QED
      BY <1>4, <2>3, <3>1, <3>2
  <2> QED
    BY <1>0, <2>1, <2>2, <2>3
<1>10. w > 0 => \E q \in heads[c] : EndOf(c, q)' = n + 1 + w
  <2> SUFFICES ASSUME w > 0
               PROVE  \E q \in heads[c] : EndOf(c, q)' = n + 1 + w
    OBVIOUS
  <2>1. o > 0
    BY <1>0, <1>2
  <2>2. PICK q \in heads[c] : EndOf(c, q) = n + o
    BY <1>6, <2>1
  <2> QED
    BY <1>1, <1>2, <2>1, <2>2
<1> QED
  BY <1>0, <1>1, <1>w, <1>7, <1>8, <1>9, <1>10 DEF Framed

LEMMA FramedStep ==
  ASSUME TypeInv, RelayInv, [Next]_vars, NEW d \in Conns
  PROVE  Framed(d)'
<1>0. /\ Framed(d)
      /\ wire \in [Conns -> Seq(Requests \cup {Text, Junk})]
      /\ owed \in [Conns -> Nat] /\ heads \in [Conns -> SUBSET Nat]
  BY DEF RelayInv, TypeInv, TypeOK
<1>1. CASE wire'[d] = wire[d] /\ owed'[d] = owed[d] /\ heads'[d] = heads[d]
  BY <1>0, <1>1 DEF Framed, EndOf
<1>2. ASSUME NEW c \in Conns, NEW r \in Requests, ClientSends(c, r)
      PROVE  Framed(d)'
  <2>1. CASE c = d
    BY <1>0, <1>2, <2>1, FramedRequest DEF ClientSends, ClientWrites
  <2>2. CASE c # d
    BY <1>0, <1>1, <1>2, <2>2 DEF ClientSends, ClientWrites
  <2> QED
    BY <2>1, <2>2
<1>3. ASSUME NEW c \in Conns, NEW t \in Requests \cup {Text, Junk}, NEW owes,
             ClientWrites(c, t, owes), UNCHANGED heads,
             \/ owed[c] > 0 /\ owes = owed[c] - 1
             \/ owed[c] = 0 /\ owes = 0 /\ t = Junk
      PROVE  Framed(d)'
  <2>1. CASE c = d
    BY <1>0, <1>3, <2>1, FramedOther DEF ClientWrites
  <2>2. CASE c # d
    BY <1>0, <1>1, <1>3, <2>2 DEF ClientWrites
  <2> QED
    BY <2>1, <2>2
<1>4. ASSUME NEW c \in Conns, NEW u \in Units, ClientSendsBody(c, u)
      PROVE  Framed(d)'
  <2>1. u \in Requests \cup {Text, Junk}
    BY ProxyAssumption
  <2> QED
    BY <1>3, <1>4, <2>1 DEF ClientSendsBody
<1>5. ASSUME NEW c \in Conns, ClientSendsJunk(c)
      PROVE  Framed(d)'
  BY <1>3, <1>5 DEF ClientSendsJunk
<1>6. ASSUME NEW c \in Conns, Handler(c)
      PROVE  UNCHANGED <<wire, owed, heads>>
  BY <1>6 DEF Handler, clientVars, Start, InitRead, InitReadFails, Connect, InitReply,
         TunnelHeader, TunnelHeaderFails, TunnelWrite, TunnelWriteFails, TunnelBody,
         TunnelBodyFails
<1>7. \/ UNCHANGED <<wire, owed, heads>>
      \/ \E c \in Conns : \/ \E r \in Requests : ClientSends(c, r)
                          \/ \E u \in Units : ClientSendsBody(c, u)
                          \/ ClientSendsJunk(c)
  BY <1>6 DEF Next, Client, RemoteHost, vars, clientVars, AcceptFails, ClientConnects,
         ClientLeaves, ClientStalls, ClientResumes, ClientReads, RemoteStalls,
         RemoteResumes, RemoteLeaves, RemoteStep, Accept
<1> QED
  BY <1>1, <1>2, <1>4, <1>5, <1>7

\* Whether a place up to the next header is in frame stays when a client sends.
LEMMA InFrameStable ==
  ASSUME TypeInv, NEW c \in Conns, Framed(c),
         \A i \in 1..rd[c] : wire'[c][i] = wire[c][i],
         heads[c] \subseteq heads'[c],
         \A q \in heads'[c] : q \in heads[c] \/ (q \in Nat /\ q > rd[c]),
         NEW p \in Nat, p <= rd[c] + 1
  PROVE  InFrame(c, p)' <=> InFrame(c, p)
<1>0. rd[c] \in Nat
  BY PlaceTypes
<1>1. \A q \in heads[c] : q < p => wire'[c][q] = wire[c][q]
  <2> SUFFICES ASSUME NEW q \in heads[c], q < p PROVE wire'[c][q] = wire[c][q]
    OBVIOUS
  <2>1. q \in 1..Len(wire[c]) /\ Len(wire[c]) \in Nat
    BY PlaceTypes DEF Framed
  <2>2. q \in 1..rd[c]
    BY <1>0, <2>1
  <2> QED
    BY <2>2
<1>2. \A q \in heads'[c] : q < p => q \in heads[c]
  BY <1>0
<1> QED
  BY <1>1, <1>2 DEF InFrame

\* A connection on which nothing but its wire changes, and that beyond what was read.
LEMMA RelayFrame ==
  ASSUME TypeInv, OrderInv, NEW c \in Conns, Framed(c), InStep(c),
         pc'[c] = pc[c], rd'[c] = rd[c], request'[c] = request[c],
         replies'[c] = replies[c], upstream'[c] = upstream[c],
         \A i \in 1..rd[c] : wire'[c][i] = wire[c][i],
         heads[c] \subseteq heads'[c],
         \A q \in heads'[c] : q \in heads[c] \/ (q \in Nat /\ q > rd[c])
  PROVE  InStep(c)'
<1>0. rd[c] \in Nat /\ Len(replies[c]) \in Nat /\ heads[c] \subseteq Nat
  BY PlaceTypes
<1>1. \A p \in Nat : p <= rd[c] + 1 => (InFrame(c, p)' <=> InFrame(c, p))
  BY InFrameStable
<1>2. \A p \in 1..rd[c] : p \in heads'[c] <=> p \in heads[c]
  BY <1>0
<1>3. Recorded(c)'
  <2> SUFFICES ASSUME NEW k \in 1..Len(upstream[c]) PROVE RecordedAt(c, k)'
    BY DEF Recorded
  <2>0. PICK at \in Nat : at = upstream[c][k].at
    BY PlaceTypes
  <2>1. /\ at \in Len(replies[c]) + 1 .. rd[c]
        /\ wire[c][at] \in Requests
        /\ upstream[c][k].fields = InFields(wire[c][at].fields)
        /\ InFrame(c, at) => at \in heads[c] /\ upstream[c][k].method = wire[c][at].method
        /\ \A j \in 1..k - 1 : upstream[c][j].at < at
    BY <2>0 DEF InStep, Recorded, RecordedAt
  <2>2. at \in Nat /\ at \in 1..rd[c] /\ at <= rd[c] + 1
    BY <1>0, <2>1
  <2>3. wire'[c][at] = wire[c][at] /\ (InFrame(c, at)' <=> InFrame(c, at))
    BY <1>1, <2>2
  <2>4. at \in heads'[c] <=> at \in heads[c]
    BY <1>2, <2>2
  <2> QED
    BY <2>0, <2>1, <2>3, <2>4 DEF RecordedAt, InFrame
<1>4. Consumed(c)'
  <2> SUFFICES ASSUME NEW p \in heads'[c], p > Len(replies[c]), p <= rd[c], InFrame(c, p)'
               PROVE  \/ \E k \in 1..Len(upstream[c]) : upstream[c][k].at = p
                      \/ p = rd[c] /\ pc[c] \in Holding
    BY DEF Consumed
  <2>1. p \in Nat
    BY <1>0
  <2>2. p \in heads[c]
    BY <1>0, <1>2, <2>1
  <2>3. InFrame(c, p)
    BY <1>0, <1>1, <2>1
  <2> QED
    BY <2>2, <2>3 DEF InStep, Consumed
<1>5. LastPlace(c)' = LastPlace(c)
  BY DEF LastPlace
<1>6. Resume(c)' = Resume(c)
  <2>1. CASE upstream[c] = <<>>
    BY <2>1 DEF Resume
  <2>2. CASE upstream[c] # <<>>
    <3>1. LastPlace(c) \in 1..rd[c]
      BY <1>0, <2>2, PlaceTypes DEF LastPlace, InStep, Recorded, RecordedAt
    <3>2. wire'[c][LastPlace(c)] = wire[c][LastPlace(c)]
      BY <3>1
    <3> QED
      BY <1>5, <2>2, <3>2 DEF Resume, Dropped
  <2> QED
    BY <2>1, <2>2
<1>7. Sequenced(c)'
  <2>1. Resume(c) \in Nat
    BY LastPlaceType DEF InStep
  <2>2. \A q \in Resume(c) + 1 .. rd[c] - 1 : wire'[c][q] = wire[c][q]
    BY <1>0, <2>1
  <2>3. rd[c] > 0 => wire'[c][rd[c]] = wire[c][rd[c]]
    BY <1>0
  <2> QED
    BY <1>5, <1>6, <2>2, <2>3 DEF InStep, Sequenced
<1>8. Aligned(c)'
  <2>0. PICK n \in Nat : n = rd[c]
    BY <1>0
  <2>1. InFrame(c, rd[c])' <=> InFrame(c, rd[c])
    BY <1>1, <2>0 DEF InFrame
  <2>2. InFrame(c, rd[c] + 1)' <=> InFrame(c, rd[c] + 1)
    <3>1. PICK m \in Nat : m = rd[c] + 1
      BY <1>0
    <3> QED
      BY <1>1, <3>1 DEF InFrame
  <2>3. rd[c] \in heads[c] => rd[c] \in heads'[c]
    OBVIOUS
  <2>4. ASSUME NEW q \in heads'[c], q <= rd[c] PROVE q \in heads[c] /\ EndOf(c, q)' = EndOf(c, q)
    <3>1. q \in heads[c]
      BY <1>0, <2>4
    <3>2. q \in 1..rd[c]
      BY <1>0, <2>4, <3>1 DEF Framed
    <3> QED
      BY <3>1, <3>2 DEF EndOf
  <2>5. CASE pc[c] = "tunnel_header"
    BY <2>2, <2>4, <2>5 DEF InStep, Aligned
  <2>6. CASE pc[c] \in {"tunnel_write", "tunnel_body"}
    BY <1>6, <2>1, <2>3, <2>6 DEF InStep, Aligned
  <2> QED
    BY <2>5, <2>6 DEF Aligned
<1> QED
  BY <1>3, <1>4, <1>7, <1>8 DEF InStep

\* A connection that has not come to tunnel(), or has just come to it: no request
\* that init() answered had a body.
LEMMA RelayBefore ==
  ASSUME NEW c \in Conns, TypeInv', OrderInv', Framed(c)', upstream'[c] = <<>>,
         pc'[c] \notin {"tunnel_write", "tunnel_body"},
         \/ rd'[c] = Len(replies'[c])
         \/ rd'[c] = Len(replies'[c]) + 1 /\ pc'[c] \in {"connect", "init_reply"}
  PROVE  InStep(c)'
<1>0. /\ rd'[c] \in Nat /\ Len(replies'[c]) \in Nat /\ heads'[c] \subseteq Nat
      /\ Len(wire'[c]) \in Nat
  <2>1. /\ rd'[c] \in Nat /\ heads'[c] \in SUBSET Nat
        /\ replies'[c] \in Seq([status : Statuses, sent : BOOLEAN])
        /\ wire'[c] \in Seq(Requests \cup {Text, Junk})
    BY DEF TypeInv, TypeOK
  <2> QED
    BY <2>1
<1>1. Len(upstream'[c]) = 0
  OBVIOUS
<1>2. Recorded(c)'
  BY <1>1 DEF Recorded
<1>3. Consumed(c)'
  <2> SUFFICES ASSUME NEW p \in heads'[c], p > Len(replies'[c]), p <= rd'[c]
               PROVE  p = rd'[c] /\ pc'[c] \in Holding
    BY DEF Consumed
  <2> QED
    BY <1>0 DEF Holding
<1>4. Sequenced(c)'
  BY DEF Sequenced, Resume
<1>5. ASSUME pc'[c] = "tunnel_header", NEW q \in heads'[c], q <= rd'[c]
      PROVE  EndOf(c, q)' <= rd'[c]
  <2>1. q \in 1..Len(wire'[c])
    BY DEF Framed
  <2>2. q \in 1..Len(replies'[c])
    BY <1>0, <1>5, <2>1
  <2>3. Justified(wire'[c][q], replies'[c][q].status)
    BY <2>2 DEF OrderInv, Answered
  <2>4. wire'[c][q].body = 0
    BY <2>3 DEF Justified
  <2> QED
    BY <1>0, <1>5, <2>2, <2>4 DEF EndOf
<1>6. Aligned(c)'
  BY <1>5 DEF Aligned
<1> QED
  BY <1>2, <1>3, <1>4, <1>6 DEF InStep

\* What a handler does leaves the other connections alone.
LEMMA HandlerFrame ==
  ASSUME TypeInv, NEW c \in Conns, Accept(c) \/ Handler(c), NEW d \in Conns, d # c
  PROVE  /\ pc'[d] = pc[d] /\ rd'[d] = rd[d] /\ request'[d] = request[d]
         /\ replies'[d] = replies[d] /\ upstream'[d] = upstream[d]
         /\ wire'[d] = wire[d] /\ heads'[d] = heads[d]
<1> USE DEF TypeInv, TypeOK, clientVars
<1>1. CASE Accept(c) \/ Start(c) \/ InitRead(c) \/ InitReadFails(c) \/ Connect(c)
  BY <1>1 DEF Accept, Start, InitRead, InitReadFails, Connect, Release
<1>2. CASE InitReply(c)
  BY <1>2 DEF InitReply, Release
<1>3. CASE \/ TunnelHeader(c) \/ TunnelHeaderFails(c)
           \/ TunnelWrite(c) \/ TunnelWriteFails(c)
           \/ TunnelBody(c) \/ TunnelBodyFails(c)
  BY <1>3 DEF TunnelHeader, TunnelHeaderFails, TunnelWrite, TunnelWriteFails,
              TunnelBody, TunnelBodyFails, Release
<1> QED
  BY <1>1, <1>2, <1>3 DEF Handler

LEMMA RelayOthers ==
  ASSUME TypeInv, OrderInv, RelayInv, NEW c \in Conns, Accept(c) \/ Handler(c),
         NEW d \in Conns, d # c
  PROVE  InStep(d)'
BY HandlerFrame, RelayFrame DEF RelayInv

LEMMA RelayNegotiation ==
  ASSUME TypeInv, TypeInv', OrderInv, OrderInv', NEW c \in Conns, Framed(c)',
         \/ Accept(c) \/ Start(c) \/ InitRead(c) \/ InitReadFails(c)
         \/ Connect(c) \/ InitReply(c)
  PROVE  InStep(c)'
<1>1. /\ pc[c] \in Before \cup Negotiating
      /\ upstream'[c] = upstream[c]
      /\ pc'[c] \notin {"tunnel_write", "tunnel_body"}
  <2> USE DEF Before, Negotiating, TypeInv, TypeOK
  <2>1. CASE Accept(c) \/ Start(c)
    BY <2>1 DEF Accept, Start
  <2>2. CASE InitRead(c)
    BY <2>2 DEF InitRead
  <2>3. CASE InitReadFails(c)
    BY <2>3 DEF InitReadFails, Release
  <2>4. CASE Connect(c)
    BY <2>4 DEF Connect
  <2>5. CASE InitReply(c)
    BY <2>5 DEF InitReply, AfterReply, Release
  <2> QED
    BY <2>1, <2>2, <2>3, <2>4, <2>5
<1>2. upstream'[c] = <<>>
  BY <1>1 DEF OrderInv, Relaying
<1>3. CASE pc'[c] \in Before \cup Negotiating
  <2>1. \/ rd'[c] = Len(replies'[c])
        \/ rd'[c] = Len(replies'[c]) + 1 /\ pc'[c] \in {"connect", "init_reply"}
    BY <1>3 DEF OrderInv, Pending, Before, Negotiating
  <2> QED
    BY <1>1, <1>2, <2>1, RelayBefore
<1>4. CASE InitReadFails(c)
  <2>1. rd'[c] = Len(replies'[c])
    BY <1>4 DEF InitReadFails, OrderInv, Pending
  <2> QED
    BY <1>1, <1>2, <2>1, RelayBefore
<1>5. CASE InitReply(c)
  <2>1. rd'[c] = Len(replies[c]) + 1
    BY <1>5 DEF InitReply, OrderInv, Pending
  <2>2. PICK sent \in BOOLEAN :
          replies'[c] = Append(replies[c], [status |-> reply[c], sent |-> sent])
    BY <1>5 DEF InitReply, TypeInv, TypeOK
  <2>3. [status |-> reply[c], sent |-> sent] \in [status : Statuses, sent : BOOLEAN]
    BY <1>5 DEF InitReply, TypeInv, InHand
  <2>4. Len(replies'[c]) = Len(replies[c]) + 1
    BY <2>2, <2>3, AppendType DEF TypeInv, TypeOK
  <2> QED
    BY <1>1, <1>2, <2>1, <2>4, RelayBefore
<1>6. CASE Accept(c) \/ Start(c) \/ InitRead(c) \/ Connect(c)
  <2>1. pc'[c] \in Before \cup Negotiating
    BY <1>6 DEF Accept, Start, InitRead, Connect, Before, Negotiating, TypeInv, TypeOK
  <2> QED
    BY <1>3, <2>1
<1> QED
  BY <1>4, <1>5, <1>6

\* Where a handler turns to the next header in frame, the client began one: no
\* request in frame is a part of another's header or body.
LEMMA NextInFrame ==
  ASSUME TypeInv, NEW c \in Conns, Framed(c), Aligned(c), pc[c] = "tunnel_header",
         NEW p, HeaderEnds(c, p),
         NEW h \in Nat, h > rd[c], h <= p, InFrame(c, h), h \in heads[c] \/ h = p
  PROVE  h = p /\ p = rd[c] + 1 /\ p \in heads[c]
<1> DEFINE next == rd[c] + 1
<1>0. /\ rd[c] \in Nat /\ Len(wire[c]) \in Nat /\ heads[c] \subseteq Nat
      /\ p \in Nat /\ p > rd[c] /\ p <= Len(wire[c]) /\ wire[c][p] \in Requests
  BY PlaceTypes, HeaderIsRequest DEF TypeInv
<1>1. next \in Nat /\ next <= h /\ next <= p /\ next \in 1..Len(wire[c])
  BY <1>0
<1> HIDE DEF next
<1>2. InFrame(c, next)
  BY <1>1, InFrameDown
<1>3. \A q \in heads[c] : q <= rd[c] => EndOf(c, q) <= rd[c]
  BY <1>2 DEF Aligned, next
<1>4. next \in heads[c] \/ wire[c][next] = Junk
  <2> SUFFICES ASSUME NEW q \in heads[c], q < next, next <= EndOf(c, q) PROVE FALSE
    BY <1>1 DEF Framed
  <2>1. q <= rd[c]
    BY <1>0 DEF next
  <2>2. q \in Nat /\ wire[c][q].body \in Nat
    BY <1>0, RequestType DEF Framed
  <2>3. EndOf(c, q) \in Nat
    BY <2>2 DEF EndOf
  <2> QED
    BY <1>0, <1>3, <2>1, <2>3 DEF next
<1>5. next = p
  <2> SUFFICES ASSUME next < p PROVE FALSE
    BY <1>0, <1>1
  <2>1. wire[c][next] = Text
    BY <1>0, <1>1 DEF HeaderEnds, AllText, next
  <2>2. wire[c][next] \notin Requests /\ wire[c][next] # Junk
    BY <2>1, RequestType, ProxyAssumption
  <2> QED
    BY <1>4, <2>2 DEF Framed
<1>6. p \in heads[c]
  BY <1>0, <1>4, <1>5, RequestType
<1> QED
  BY <1>0, <1>1, <1>5, <1>6 DEF next

\* A handler in tunnel() reads a header.
LEMMA RelayHeader ==
  ASSUME TypeInv, OrderInv, NEW c \in Conns, Framed(c), InStep(c), TunnelHeader(c)
  PROVE  InStep(c)'
<1>0. /\ rd[c] \in Nat /\ Len(replies[c]) \in Nat /\ Resume(c) \in Nat
      /\ heads[c] \subseteq Nat
  BY PlaceTypes, LastPlaceType DEF InStep
<1>1. PICK p \in rd[c] + 1 .. Len(wire[c]) :
        /\ HeaderEnds(c, p)
        /\ request' = [request EXCEPT ![c] = Relayed(HeaderOf(c, p))]
        /\ rd' = [rd EXCEPT ![c] = p]
  BY DEF TunnelHeader
<1>2. /\ pc[c] = "tunnel_header" /\ pc'[c] = "tunnel_write"
      /\ rd'[c] = p /\ request'[c] = Relayed(HeaderOf(c, p))
      /\ wire'[c] = wire[c] /\ replies'[c] = replies[c] /\ upstream'[c] = upstream[c]
      /\ heads'[c] = heads[c]
  BY <1>1 DEF TunnelHeader, clientVars, TypeInv, TypeOK
<1>3. /\ p \in Nat /\ p > rd[c] /\ wire[c][p] \in Requests
      /\ HeaderOf(c, p) \in Messages
  BY <1>1, HeaderIsRequest DEF TypeInv
<1>4. rd[c] = Resume(c)
  BY <1>2 DEF InStep, Sequenced
<1>5. \A q \in Nat : InFrame(c, q)' <=> InFrame(c, q)
  BY <1>2 DEF InFrame
<1>6. ASSUME NEW h \in Nat, h > rd[c], h <= p, InFrame(c, h), h \in heads[c] \/ h = p
      PROVE  h = p /\ p = rd[c] + 1 /\ p \in heads[c]
  BY <1>1, <1>2, <1>6, NextInFrame DEF InStep
<1>7. Recorded(c)'
  <2> SUFFICES ASSUME NEW k \in 1..Len(upstream[c]) PROVE RecordedAt(c, k)'
    BY <1>2 DEF Recorded
  <2>1. RecordedAt(c, k) /\ upstream[c][k].at \in Nat
    BY PlaceTypes DEF InStep, Recorded
  <2> QED
    BY <1>0, <1>2, <1>3, <2>1 DEF RecordedAt, InFrame
<1>8. Consumed(c)'
  <2> SUFFICES ASSUME NEW h \in heads[c], h > Len(replies[c]), h <= p, InFrame(c, h)
               PROVE  \/ \E k \in 1..Len(upstream[c]) : upstream[c][k].at = h
                      \/ h = p
    BY <1>0, <1>2, <1>5 DEF Consumed, Holding
  <2>1. CASE h <= rd[c]
    BY <1>2, <2>1 DEF InStep, Consumed, Holding
  <2>2. CASE h > rd[c]
    BY <1>0, <1>6, <2>2
  <2> QED
    BY <1>0, <2>1, <2>2
<1>9. LastPlace(c)' = LastPlace(c) /\ Resume(c)' = Resume(c)
  BY <1>2 DEF LastPlace, Resume, Dropped
<1>10. /\ request'[c].body = wire[c][p].body
       /\ request'[c].fields = InFields(wire[c][p].fields)
       /\ request'[c].method = IF p = rd[c] + 1 THEN wire[c][p].method ELSE "garbled"
  <2>1. wire[c][p] \in Messages
    BY <1>3, RequestType
  <2>2. /\ HeaderOf(c, p).body = wire[c][p].body
        /\ HeaderOf(c, p).fields = wire[c][p].fields
        /\ HeaderOf(c, p).method = IF p = rd[c] + 1 THEN wire[c][p].method ELSE "garbled"
    BY <2>1 DEF HeaderOf, Messages
  <2>3. /\ Relayed(HeaderOf(c, p)).body = HeaderOf(c, p).body
        /\ Relayed(HeaderOf(c, p)).fields = InFields(HeaderOf(c, p).fields)
        /\ Relayed(HeaderOf(c, p)).method = HeaderOf(c, p).method
    BY <1>3 DEF Relayed, Messages
  <2> QED
    BY <1>2, <2>2, <2>3
<1>11. \A q \in rd[c] + 1 .. p - 1 : wire[c][q] = Text
  BY <1>1 DEF HeaderEnds, AllText
<1>12. Sequenced(c)'
  BY <1>0, <1>2, <1>3, <1>4, <1>9, <1>10, <1>11 DEF Sequenced
<1>13. Aligned(c)'
  <2>1. InFrame(c, p) => p = rd[c] + 1 /\ p \in heads[c]
    BY <1>3, <1>6
  <2> QED
    BY <1>2, <1>3, <1>4, <1>9, <2>1 DEF Aligned, InFrame
<1> QED
  BY <1>7, <1>8, <1>12, <1>13 DEF InStep

\* It relays the header it has in hand.
LEMMA RelayWrite ==
  ASSUME TypeInv, OrderInv, NEW c \in Conns, Framed(c), InStep(c), TunnelWrite(c)
  PROVE  InStep(c)'
<1> DEFINE n == Len(upstream[c])
<1> DEFINE entry == [at |-> rd[c], method |-> request[c].method,
                     fields |-> request[c].fields]
<1>0. /\ rd[c] \in Nat /\ Len(replies[c]) \in Nat /\ LastPlace(c) \in Nat /\ n \in Nat
      /\ Len(replies[c]) <= LastPlace(c) /\ LastPlace(c) <= Resume(c) /\ Resume(c) \in Nat
      /\ heads[c] \subseteq Nat
  BY PlaceTypes, LastPlaceType DEF InStep
<1>1. /\ pc[c] = "tunnel_write"
      /\ rd'[c] = rd[c] /\ wire'[c] = wire[c] /\ replies'[c] = replies[c]
      /\ upstream'[c] = Append(upstream[c], entry)
      /\ heads'[c] = heads[c]
      /\ \/ request[c].body = 0 /\ pc'[c] = "tunnel_header"
         \/ pc'[c] = "tunnel_body" /\ request'[c] = request[c]
  BY DEF TunnelWrite, clientVars, TypeInv, TypeOK
<1>2. /\ wire[c][rd[c]] \in Requests /\ request[c].body = wire[c][rd[c]].body
      /\ request[c].fields = InFields(wire[c][rd[c]].fields)
      /\ request[c].method = (IF rd[c] = Resume(c) + 1 THEN wire[c][rd[c]].method
                              ELSE "garbled")
      /\ Resume(c) < rd[c]
  BY <1>1 DEF InStep, Sequenced
<1>3. LastPlace(c) < rd[c] /\ rd[c] > 0
  BY <1>0, <1>2
<1>4. entry \in [at : Nat, method : {"CONNECT", "OTHER", "garbled"}, fields : Fields]
  BY <1>0, <1>1 DEF Messages, TypeInv, InHand
<1>5. /\ upstream'[c] # <<>>
      /\ Len(upstream'[c]) = n + 1
      /\ \A i \in 1..n : upstream'[c][i] = upstream[c][i]
      /\ upstream'[c][n + 1] = entry
  <2>1. upstream[c] \in Seq([at : Nat, method : {"CONNECT", "OTHER", "garbled"},
                             fields : Fields])
    BY DEF TypeInv, TypeOK
  <2> HIDE DEF entry
  <2>2. /\ Len(upstream'[c]) = n + 1
        /\ \A i \in 1..n : upstream'[c][i] = upstream[c][i]
        /\ upstream'[c][n + 1] = entry
    BY <1>1, <1>4, <2>1, AppendType
  <2>3. upstream'[c] # <<>>
    BY <1>1, <1>4, <2>1
  <2> QED
    BY <2>2, <2>3
<1>6. /\ entry.at = rd[c]
      /\ entry.fields = InFields(wire[c][rd[c]].fields)
      /\ InFrame(c, rd[c]) => rd[c] \in heads[c] /\ entry.method = wire[c][rd[c]].method
  BY <1>1, <1>2 DEF InStep, Aligned
<1>7. \A j \in 1..n : upstream[c][j].at < rd[c]
  <2> SUFFICES ASSUME NEW j \in 1..n PROVE upstream[c][j].at < rd[c]
    OBVIOUS
  <2>1. upstream[c] # <<>> /\ n \in 1..n
    BY <1>0
  <2>2. LastPlace(c) = upstream[c][n].at
    BY <2>1 DEF LastPlace
  <2>3. upstream[c][j].at \in Nat /\ upstream[c][n].at \in Nat
    BY <2>1, PlaceTypes
  <2>4. j = n \/ upstream[c][j].at < upstream[c][n].at
    BY <1>0, <2>1 DEF InStep, Recorded, RecordedAt
  <2> QED
    BY <1>0, <1>3, <2>2, <2>3, <2>4
<1>8. \A q \in Nat : InFrame(c, q)' <=> InFrame(c, q)
  BY <1>1 DEF InFrame
<1>9. Recorded(c)'
  <2> SUFFICES ASSUME NEW k \in 1..n + 1 PROVE RecordedAt(c, k)'
    BY <1>5 DEF Recorded
  <2>1. CASE k = n + 1
    <3>1. upstream'[c][k] = entry
      BY <1>5, <2>1
    <3>2. rd[c] \in Len(replies[c]) + 1 .. rd[c]
      BY <1>0, <1>3
    <3>3. \A j \in 1..k - 1 : upstream'[c][j].at < rd[c]
      <4> SUFFICES ASSUME NEW j \in 1..k - 1 PROVE upstream'[c][j].at < rd[c]
        OBVIOUS
      <4>1. j \in 1..n
        BY <1>0, <2>1
      <4> QED
        BY <1>5, <1>7, <4>1
    <3> HIDE DEF entry, n
    <3> QED
      BY <1>0, <1>1, <1>2, <1>6, <3>1, <3>2, <3>3 DEF RecordedAt, InFrame
  <2>2. CASE k \in 1..n
    <3>1. \A j \in 1..k - 1 : upstream'[c][j] = upstream[c][j]
      BY <1>0, <1>5, <2>2
    <3>2. RecordedAt(c, k) /\ upstream'[c][k] = upstream[c][k] /\ upstream[c][k].at \in Nat
      BY <1>5, <2>2, PlaceTypes DEF InStep, Recorded
    <3> HIDE DEF entry, n
    <3> QED
      BY <1>1, <3>1, <3>2 DEF RecordedAt, InFrame
  <2> QED
    BY <1>0, <2>1, <2>2
<1>10. Consumed(c)'
  <2> SUFFICES ASSUME NEW p \in heads[c], p > Len(replies[c]), p <= rd[c], InFrame(c, p)
               PROVE  \E k \in 1..n + 1 : upstream'[c][k].at = p
    BY <1>0, <1>1, <1>5, <1>8 DEF Consumed
  <2>1. CASE p = rd[c]
    BY <1>0, <1>5, <1>6, <2>1
  <2>2. CASE p # rd[c]
    <3>1. PICK k \in 1..n : upstream[c][k].at = p
      BY <2>2 DEF InStep, Consumed
    <3>2. k \in 1..n + 1 /\ upstream'[c][k] = upstream[c][k]
      BY <1>0, <1>5
    <3> QED
      BY <3>1, <3>2
  <2> QED
    BY <2>1, <2>2
<1>11. LastPlace(c)' = rd[c]
  BY <1>5, <1>6 DEF LastPlace
<1>12. request[c].body = 0 => Resume(c)' = rd[c]
  BY <1>0, <1>1, <1>2, <1>5, <1>11, ProxyAssumption DEF Resume, Dropped
<1>13. Sequenced(c)'
  <2>1. CASE pc'[c] = "tunnel_header" /\ request[c].body = 0
    BY <1>1, <1>12, <2>1 DEF Sequenced
  <2>2. CASE pc'[c] = "tunnel_body" /\ request'[c] = request[c]
    BY <1>1, <1>2, <1>3, <1>5, <1>11, <2>2 DEF Sequenced
  <2> QED
    BY <1>1, <2>1, <2>2
<1>14. Aligned(c)'
  <2>1. CASE pc'[c] = "tunnel_body"
    BY <1>0, <1>1, <1>6, <2>1 DEF Aligned, InFrame
  <2>2. CASE pc'[c] = "tunnel_header" /\ request[c].body = 0
    <3>1. ASSUME InFrame(c, rd[c] + 1), NEW q \in heads[c], q <= rd[c]
          PROVE  EndOf(c, q) <= rd[c]
      <4>1. rd[c] \in heads[c]
        BY <1>0, <1>6, <3>1, InFrameDown
      <4>2. CASE q = rd[c]
        <5>1. wire[c][rd[c]].body = 0
          BY <1>2, <2>2
        <5>2. EndOf(c, q) = rd[c]
          BY <1>0, <4>2, <5>1 DEF EndOf
        <5> QED
          BY <1>0, <5>2
      <4>3. CASE q < rd[c]
        <5>1. EndOf(c, q) < rd[c]
          BY <4>1, <4>3 DEF Framed
        <5>2. wire[c][q].body \in Nat /\ q \in Nat
          BY <1>0, RequestType DEF Framed
        <5>3. EndOf(c, q) \in Nat
          BY <5>2 DEF EndOf
        <5> QED
          BY <1>0, <5>1, <5>3
      <4> QED
        BY <1>0, <3>1, <4>2, <4>3
    <3>2. \A q : EndOf(c, q)' = EndOf(c, q)
      BY <1>1 DEF EndOf
    <3>3. InFrame(c, rd[c] + 1)' <=> InFrame(c, rd[c] + 1)
      BY <1>1 DEF InFrame
    <3> QED
      BY <1>1, <2>2, <3>1, <3>2, <3>3 DEF Aligned
  <2> QED
    BY <1>1, <2>1, <2>2
<1> QED
  BY <1>9, <1>10, <1>13, <1>14 DEF InStep

\* It reads as much of the body as its buffer holds; a request in frame begins
\* no earlier than that.
LEMMA RelayBody ==
  ASSUME TypeInv, OrderInv, NEW c \in Conns, Framed(c), InStep(c), TunnelBody(c)
  PROVE  InStep(c)'
<1> DEFINE held == BodyHeld(c)
<1>0. /\ rd[c] \in Nat /\ Len(replies[c]) \in Nat
      /\ Len(wire[c]) \in Nat /\ rd[c] <= Len(wire[c]) /\ heads[c] \subseteq Nat
  BY PlaceTypes
<1>1. /\ pc[c] = "tunnel_body" /\ pc'[c] = "tunnel_header"
      /\ rd'[c] = rd[c] + held
      /\ wire'[c] = wire[c] /\ replies'[c] = replies[c] /\ upstream'[c] = upstream[c]
      /\ heads'[c] = heads[c]
  BY DEF TunnelBody, clientVars, TypeInv, TypeOK
<1>2. held \in Nat
  BY <1>1, BodyHeldType DEF TypeInv, InHand
<1>3. /\ wire[c][rd[c]] \in Requests /\ request[c].body = wire[c][rd[c]].body
      /\ rd[c] = LastPlace(c) /\ upstream[c] # <<>>
      /\ InFrame(c, rd[c]) => rd[c] \in heads[c]
  BY <1>1 DEF InStep, Sequenced, Aligned
<1>4. wire[c][rd[c]].body \in Nat
  BY <1>3, RequestType
<1>5. /\ held <= wire[c][rd[c]].body
      /\ wire[c][rd[c]].body <= BufSize => held = wire[c][rd[c]].body
      /\ Dropped(c, rd[c]) = rd[c] + held
  BY <1>3, <1>4, ProxyAssumption DEF BodyHeld, Dropped
<1> HIDE DEF held
<1>6. \A q \in Nat : InFrame(c, q)' <=> InFrame(c, q)
  BY <1>1 DEF InFrame
<1>7. ASSUME NEW h \in heads[c], h > rd[c], h <= rd[c] + held, NEW p \in Nat, h <= p,
             InFrame(c, p)
      PROVE  FALSE
  <2>1. rd[c] \in heads[c]
    BY <1>0, <1>3, <1>7, InFrameDown
  <2>2. EndOf(c, rd[c]) < h
    BY <1>7, <2>1 DEF Framed
  <2>3. rd[c] + wire[c][rd[c]].body < h
    BY <2>2 DEF EndOf
  <2> QED
    BY <1>0, <1>2, <1>4, <1>5, <1>7, <2>3
<1>8. Recorded(c)'
  <2> SUFFICES ASSUME NEW k \in 1..Len(upstream[c]) PROVE RecordedAt(c, k)'
    BY <1>1 DEF Recorded
  <2>1. RecordedAt(c, k) /\ upstream[c][k].at \in Nat
    BY PlaceTypes DEF InStep, Recorded
  <2> QED
    BY <1>0, <1>1, <1>2, <2>1 DEF RecordedAt, InFrame
<1>9. Consumed(c)'
  <2> SUFFICES ASSUME NEW p \in heads[c], p > Len(replies[c]), p <= rd[c] + held,
                      InFrame(c, p)
               PROVE  \E k \in 1..Len(upstream[c]) : upstream[c][k].at = p
    BY <1>0, <1>1, <1>6 DEF Consumed
  <2>1. p <= rd[c]
    BY <1>0, <1>2, <1>7
  <2> QED
    BY <1>1, <2>1 DEF InStep, Consumed, Holding
<1>10. Resume(c)' = rd'[c]
  BY <1>1, <1>3, <1>5 DEF Resume, LastPlace, Dropped
<1>11. Sequenced(c)'
  BY <1>1, <1>10 DEF Sequenced
<1>12. Aligned(c)'
  <2>1. ASSUME InFrame(c, rd[c] + held + 1), NEW q \in heads[c], q <= rd[c] + held
        PROVE  EndOf(c, q) <= rd[c] + held
    <3>0. q \in Nat /\ rd[c] + held + 1 \in Nat
      BY <1>0, <1>2
    <3>1. q <= rd[c]
      <4>1. q <= rd[c] + held + 1
        BY <1>0, <1>2, <2>1, <3>0
      <4> QED
        BY <1>0, <1>7, <2>1, <3>0, <4>1
    <3>2. rd[c] \in heads[c] /\ wire[c][rd[c]].body <= BufSize
      <4>1. InFrame(c, rd[c])
        BY <1>0, <1>2, <2>1, <3>0, InFrameDown
      <4>2. rd[c] \in heads[c]
        BY <1>3, <4>1
      <4>3. rd[c] < rd[c] + held + 1
        BY <1>0, <1>2
      <4> QED
        BY <2>1, <4>2, <4>3 DEF InFrame
    <3>3. CASE q = rd[c]
      BY <1>0, <1>2, <1>5, <3>2, <3>3 DEF EndOf
    <3>4. CASE q < rd[c]
      <4>1. EndOf(c, q) < rd[c]
        BY <3>2, <3>4 DEF Framed
      <4>2. wire[c][q].body \in Nat
        BY RequestType DEF Framed
      <4>3. EndOf(c, q) \in Nat
        BY <3>0, <4>2 DEF EndOf
      <4> QED
        BY <1>0, <1>2, <4>1, <4>3
    <3> QED
      BY <1>0, <3>0, <3>1, <3>3, <3>4
  <2>2. \A q : EndOf(c, q)' = EndOf(c, q)
    BY <1>1 DEF EndOf
  <2>3. InFrame(c, rd[c] + 1)' <=> InFrame(c, rd[c] + held + 1)
    BY <1>1 DEF InFrame
  <2> QED
    BY <1>1, <2>1, <2>2, <2>3 DEF Aligned
<1> QED
  BY <1>8, <1>9, <1>11, <1>12 DEF InStep

\* It ends.
LEMMA RelayEnds ==
  ASSUME TypeInv, OrderInv, NEW c \in Conns, InStep(c),
         TunnelHeaderFails(c) \/ TunnelWriteFails(c) \/ TunnelBodyFails(c)
  PROVE  InStep(c)'
<1>1. pc'[c] = "done" /\ pc[c] \in Tunnelling /\ UNCHANGED <<rd, wire, heads, replies, upstream>>
  BY DEF TunnelHeaderFails, TunnelWriteFails, TunnelBodyFails, Release, clientVars,
         TypeInv, TypeOK, Tunnelling
<1>2. Recorded(c)'
  BY <1>1 DEF InStep, Recorded, RecordedAt, InFrame
<1>3. Consumed(c)'
  <2>1. \A p : InFrame(c, p)' <=> InFrame(c, p)
    BY <1>1 DEF InFrame
  <2> QED
    BY <1>1, <2>1 DEF InStep, Consumed, Holding
<1>4. Sequenced(c)' /\ Aligned(c)'
  BY <1>1 DEF Sequenced, Aligned
<1> QED
  BY <1>2, <1>3, <1>4 DEF InStep

\* The environment sends beyond what was read.
LEMMA RelayEnvironment ==
  ASSUME TypeInv, TypeInv', OrderInv, OrderInv', RelayInv, NEW c \in Conns,
         Client(c) \/ RemoteHost(c), NEW d \in Conns, Framed(d)'
  PROVE  InStep(d)'
<1>0. /\ wire[c] \in Seq(Requests \cup {Text, Junk}) /\ rd[c] \in Nat
      /\ rd[c] <= Len(wire[c])
  BY DEF TypeInv, TypeOK
<1>1. CASE ClientConnects(c)
  <2>1. CASE d = c
    <3>1. /\ pc'[c] = "backlog" /\ upstream'[c] = <<>>
          /\ rd'[c] = 0 /\ replies'[c] = <<>>
      BY <1>1 DEF ClientConnects, TypeInv, TypeOK, OrderInv, Pending, Relaying, Before
    <3>2. Len(replies'[c]) = 0
      BY <3>1
    <3> QED
      BY <2>1, <3>1, <3>2, RelayBefore
  <2>2. CASE d # c
    BY <1>1, <2>2, RelayFrame DEF ClientConnects, RelayInv, TypeInv, TypeOK
  <2> QED
    BY <2>1, <2>2
<1>2. ASSUME NEW t \in Requests \cup {Text, Junk}, NEW owes, ClientWrites(c, t, owes),
             UNCHANGED heads \/ heads' = [heads EXCEPT ![c] = @ \cup {Len(wire[c]) + 1}]
      PROVE  InStep(d)'
  <2>1. \A i \in 1..rd[d] : wire'[d][i] = wire[d][i]
    BY <1>0, <1>2, AppendType DEF ClientWrites, TypeInv, TypeOK
  <2>2. Len(wire[c]) + 1 \in Nat /\ Len(wire[c]) + 1 > rd[c]
    BY <1>0
  <2>3. heads'[d] = heads[d] \/ (d = c /\ heads'[d] = heads[d] \cup {Len(wire[c]) + 1})
    BY <1>2 DEF TypeInv, TypeOK
  <2>4. /\ heads[d] \subseteq heads'[d]
        /\ \A q \in heads'[d] : q \in heads[d] \/ (q \in Nat /\ q > rd[d])
    BY <2>2, <2>3
  <2> QED
    BY <1>2, <2>1, <2>4, RelayFrame DEF ClientWrites, RelayInv
<1>3. ASSUME NEW r \in Requests, ClientSends(c, r) PROVE InStep(d)'
  BY <1>2, <1>3 DEF ClientSends
<1>4. ASSUME NEW u \in Units, ClientSendsBody(c, u) PROVE InStep(d)'
  <2>1. u \in Requests \cup {Text, Junk}
    BY ProxyAssumption
  <2> QED
    BY <1>2, <1>4, <2>1 DEF ClientSendsBody
<1>5. CASE ClientSendsJunk(c)
  BY <1>2, <1>5 DEF ClientSendsJunk
<1>6. CASE \/ RemoteHost(c) \/ ClientStalls(c) \/ ClientResumes(c)
           \/ \E how \in {"half", "reset"} : ClientLeaves(c, how)
  <2>1. UNCHANGED <<pc, wire, heads, rd, request, replies, upstream>>
    BY <1>6 DEF RemoteHost, RemoteStalls, RemoteResumes, RemoteLeaves, RemoteStep,
                ClientStalls, ClientResumes, ClientReads, ClientLeaves, clientVars
  <2> QED
    BY <2>1, RelayFrame DEF RelayInv
<1> QED
  BY <1>1, <1>3, <1>4, <1>5, <1>6 DEF Client

LEMMA RelayStep ==
  TypeInv /\ TypeInv' /\ OrderInv /\ OrderInv' /\ RelayInv /\ [Next]_vars => RelayInv'
<1> SUFFICES ASSUME TypeInv, TypeInv', OrderInv, OrderInv', RelayInv, [Next]_vars,
                    NEW d \in Conns, Framed(d)'
             PROVE  InStep(d)'
  BY FramedStep DEF RelayInv
<1>1. CASE AcceptFails \/ UNCHANGED vars
  <2>1. UNCHANGED <<pc, wire, heads, rd, request, replies, upstream>>
    BY <1>1 DEF AcceptFails, vars, clientVars
  <2> QED
    BY <2>1, RelayFrame DEF RelayInv
<1>2. ASSUME NEW c \in Conns, Client(c) \/ RemoteHost(c) PROVE InStep(d)'
  BY <1>2, RelayEnvironment
<1>3. ASSUME NEW c \in Conns, Accept(c) \/ Handler(c) PROVE InStep(d)'
  <2>1. CASE d # c
    BY <1>3, <2>1, RelayOthers
  <2>2. CASE d = c
    BY <1>3, <2>2, RelayNegotiation, RelayHeader, RelayWrite, RelayBody, RelayEnds
       DEF Handler, RelayInv
  <2> QED
    BY <2>1, <2>2
<1> QED
  BY <1>1, <1>2, <1>3 DEF Next

LEMMA RelayAlways == Spec => [](TypeInv /\ OrderInv /\ RelayInv)
<1>1. Init => TypeInv /\ OrderInv /\ RelayInv
  BY TypeInit, OrderInit, RelayInit
<1>2. TypeInv /\ OrderInv /\ RelayInv /\ [Next]_vars => (TypeInv /\ OrderInv /\ RelayInv)'
  BY TypeStep, OrderStep, RelayStep
<1> QED
  BY <1>1, <1>2, PTL DEF Spec

-----------------------------------------------------------------------------
(***************************************************************************)
(* However reads, writes and bodies interleave, what is relayed was read,  *)
(* in order and once; up to the first body longer than the buffer it is    *)
(* the headers the client sent after its CONNECT, with their methods, none *)
(* left out but the one in hand.                                           *)
(***************************************************************************)
THEOREM HeadersRelayedInOrder == Spec => []UpstreamInOrder
<1>1. ASSUME TypeInv, RelayInv PROVE UpstreamInOrder
  <2> SUFFICES ASSUME NEW c \in Conns
               PROVE
                 /\ \A k \in 1..Len(upstream[c]) :
                      /\ upstream[c][k].at \in Len(replies[c]) + 1 .. rd[c]
                      /\ InFrame(c, upstream[c][k].at) =>
                           /\ upstream[c][k].at \in heads[c]
                           /\ upstream[c][k].method = wire[c][upstream[c][k].at].method
                      /\ \A j \in 1..k - 1 : upstream[c][j].at < upstream[c][k].at
                 /\ \A p \in heads[c] :
                      (p > Len(replies[c]) /\ p <= rd[c] /\ InFrame(c, p)) =>
                        \/ \E k \in 1..Len(upstream[c]) : upstream[c][k].at = p
                        \/ p = rd[c] /\ pc[c] \in Holding
    BY DEF UpstreamInOrder, Holding
  <2>1. Recorded(c) /\ Consumed(c)
    BY <1>1 DEF RelayInv, InStep
  <2> QED
    BY <2>1 DEF Recorded, RecordedAt, Consumed
<1> QED
  BY <1>1, RelayAlways, PTL

(***************************************************************************)
(* Where no request has a body, the handlers read headers only.            *)
(***************************************************************************)
HeadersOnly ==
  \A c \in Conns : /\ \A p \in 1..Len(wire[c]) : wire[c][p] # Text
                   /\ \A p \in 1..rd[c] : wire[c][p] # Junk

LEMMA HeadersOnlyStep ==
  ASSUME \A r \in Requests : r.body = 0,
         TypeInv, RelayInv, HeadersOnly, [Next]_vars
  PROVE  HeadersOnly'
<1> SUFFICES ASSUME NEW d \in Conns
             PROVE  /\ \A p \in 1..Len(wire'[d]) : wire'[d][p] # Text
                    /\ \A p \in 1..rd'[d] : wire'[d][p] # Junk
  BY DEF HeadersOnly
<1>0. /\ rd[d] \in Nat /\ Len(wire[d]) \in Nat /\ rd[d] <= Len(wire[d])
      /\ \A q \in 1..Len(wire[d]) : wire[d][q] # Text
      /\ \A q \in 1..rd[d] : wire[d][q] # Junk
  BY PlaceTypes DEF HeadersOnly
<1>1. ASSUME UNCHANGED <<wire, rd>>
      PROVE  /\ \A p \in 1..Len(wire'[d]) : wire'[d][p] # Text
             /\ \A p \in 1..rd'[d] : wire'[d][p] # Junk
  BY <1>0, <1>1
<1>2. ASSUME NEW c \in Conns, NEW t \in Requests \cup {Junk}, NEW owes, ClientWrites(c, t, owes)
      PROVE  /\ \A p \in 1..Len(wire'[d]) : wire'[d][p] # Text
             /\ \A p \in 1..rd'[d] : wire'[d][p] # Junk
  <2>1. rd'[d] = rd[d] /\ (wire'[d] = wire[d] \/ wire'[d] = Append(wire[d], t))
    BY <1>2 DEF ClientWrites, TypeInv, TypeOK
  <2>2. CASE wire'[d] = wire[d]
    BY <1>0, <2>1, <2>2
  <2>3. CASE wire'[d] = Append(wire[d], t)
    <3>1. /\ Len(wire'[d]) = Len(wire[d]) + 1
          /\ wire'[d][Len(wire[d]) + 1] = t
          /\ \A i \in 1..Len(wire[d]) : wire'[d][i] = wire[d][i]
      BY <2>3, AppendType DEF TypeInv, TypeOK
    <3>2. t # Text
      BY RequestType, ProxyAssumption
    <3> QED
      BY <1>0, <2>1, <3>1, <3>2
  <2> QED
    BY <2>1, <2>2, <2>3
<1>3. ASSUME NEW c \in Conns, NEW u \in Units PROVE ~ClientSendsBody(c, u)
  <2> SUFFICES ASSUME owed[c] > 0 PROVE FALSE
    BY DEF ClientSendsBody
  <2>1. PICK q \in heads[c] : EndOf(c, q) = Len(wire[c]) + owed[c]
    BY DEF RelayInv, Framed
  <2>2. q \in 1..Len(wire[c]) /\ wire[c][q].body = 0
    BY DEF RelayInv, Framed
  <2> QED
    BY <2>1, <2>2, PlaceTypes DEF EndOf
<1>4. ASSUME NEW c \in Conns, NEW p, HeaderEnds(c, p),
             wire' = wire, rd' = [rd EXCEPT ![c] = p]
      PROVE  /\ \A i \in 1..Len(wire'[d]) : wire'[d][i] # Text
             /\ \A i \in 1..rd'[d] : wire'[d][i] # Junk
  <2>1. /\ p \in Nat /\ p > rd[c] /\ p <= Len(wire[c]) /\ wire[c][p] \in Requests
        /\ rd[c] \in Nat /\ Len(wire[c]) \in Nat
    BY <1>4, HeaderIsRequest, PlaceTypes DEF TypeInv
  <2>2. p = rd[c] + 1
    <3> SUFFICES ASSUME rd[c] + 1 < p PROVE FALSE
      BY <2>1
    <3>1. rd[c] + 1 \in rd[c] + 1 .. p - 1 /\ rd[c] + 1 \in 1..Len(wire[c])
      BY <2>1
    <3> QED
      BY <1>4, <3>1 DEF HeaderEnds, AllText, HeadersOnly
  <2>3. rd'[d] = rd[d] \/ (d = c /\ rd'[d] = rd[c] + 1)
    BY <1>4, <2>2 DEF TypeInv, TypeOK
  <2>4. wire[c][rd[c] + 1] # Junk
    BY <2>1, <2>2, RequestType
  <2> QED
    BY <1>0, <1>4, <2>3, <2>4
<1>5. ASSUME NEW c \in Conns, TunnelBody(c) PROVE UNCHANGED <<wire, rd>>
  <2>1. wire[c][rd[c]] \in Requests /\ request[c].body = wire[c][rd[c]].body
    BY <1>5 DEF TunnelBody, RelayInv, InStep, Sequenced
  <2>2. BodyHeld(c) = 0
    BY <2>1, ProxyAssumption DEF BodyHeld
  <2>3. wire' = wire /\ rd' = [rd EXCEPT ![c] = @ + 0]
    BY <1>5, <2>2 DEF TunnelBody, clientVars
  <2>4. rd[c] + 0 = rd[c]
    BY PlaceTypes
  <2> QED
    BY <2>3, <2>4 DEF TypeInv, TypeOK
<1>6. ASSUME NEW c \in Conns,
             \/ ClientConnects(c) \/ ClientStalls(c) \/ ClientResumes(c)
             \/ RemoteHost(c) \/ Accept(c)
             \/ \E how \in {"half", "reset"} : ClientLeaves(c, how)
      PROVE  UNCHANGED <<wire, rd>>
  BY <1>6 DEF ClientConnects, ClientLeaves, ClientStalls, ClientResumes, ClientReads,
              RemoteHost, RemoteStalls, RemoteResumes, RemoteLeaves, RemoteStep, Accept,
              clientVars
<1>7. ASSUME NEW c \in Conns,
             \/ Start(c) \/ InitReadFails(c) \/ Connect(c) \/ InitReply(c)
             \/ TunnelHeaderFails(c) \/ TunnelWrite(c) \/ TunnelWriteFails(c)
             \/ TunnelBodyFails(c)
      PROVE  UNCHANGED <<wire, rd>>
  BY <1>7 DEF Start, InitReadFails, Connect, InitReply, TunnelHeaderFails, TunnelWrite,
              TunnelWriteFails, TunnelBodyFails, clientVars
<1>8. AcceptFails \/ UNCHANGED vars => UNCHANGED <<wire, rd>>
  BY DEF AcceptFails, vars, clientVars
<1>9. ASSUME NEW c \in Conns, InitRead(c) \/ TunnelHeader(c)
      PROVE  \E p : HeaderEnds(c, p) /\ wire' = wire /\ rd' = [rd EXCEPT ![c] = p]
  BY <1>9 DEF InitRead, TunnelHeader, clientVars
<1>10. ASSUME NEW c \in Conns, NEW r \in Requests, ClientSends(c, r) \/ ClientSendsJunk(c)
       PROVE  \E t \in Requests \cup {Junk} : \E owes : ClientWrites(c, t, owes)
  BY <1>10 DEF ClientSends, ClientSendsJunk
<1>11. ASSUME NEW c \in Conns, Client(c)
       PROVE  \/ UNCHANGED <<wire, rd>>
              \/ \E t \in Requests \cup {Junk} : \E owes : ClientWrites(c, t, owes)
  <2>1. CASE ClientSendsJunk(c)
    BY <2>1 DEF ClientSendsJunk
  <2> QED
    BY <1>3, <1>6, <1>10, <1>11, <2>1 DEF Client
<1>12. ASSUME NEW c \in Conns, Client(c) \/ Handler(c)
       PROVE  /\ \A p \in 1..Len(wire'[d]) : wire'[d][p] # Text
              /\ \A p \in 1..rd'[d] : wire'[d][p] # Junk
  BY <1>1, <1>2, <1>4, <1>5, <1>7, <1>9, <1>11, <1>12 DEF Handler
<1> QED
  BY <1>1, <1>6, <1>8, <1>12 DEF Next

(***************************************************************************)
(* Where the buffer of tunnel() holds every body, what is relayed are the  *)
(* requests the client sent as such: nothing of a body is taken for one.   *)
(***************************************************************************)
THEOREM FittingBodiesNeverParsed ==
  ASSUME \A r \in Requests : r.body <= BufSize
  PROVE  Spec => []OnlyRequestsRelayed
<1>1. ASSUME RelayInv PROVE OnlyRequestsRelayed
  <2> SUFFICES ASSUME NEW c \in Conns, NEW k \in 1..Len(upstream[c])
               PROVE  /\ upstream[c][k].at \in heads[c]
                      /\ upstream[c][k].method = wire[c][upstream[c][k].at].method
    BY DEF OnlyRequestsRelayed
  <2>1. InFrame(c, upstream[c][k].at)
    BY <1>1 DEF RelayInv, Framed, InFrame
  <2> QED
    BY <1>1, <2>1 DEF RelayInv, InStep, Recorded, RecordedAt
<1> QED  BY <1>1, RelayAlways, PTL

(***************************************************************************)
(* Only bodies are kept from the remote host: where no request has one,    *)
(* everything read before the next header has been relayed.                *)
(***************************************************************************)
THEOREM BodylessForwardedWhole ==
  ASSUME \A r \in Requests : r.body = 0
  PROVE  Spec => []RequestsForwardedWhole
<1>1. Init => HeadersOnly
  BY DEF Init, HeadersOnly
<1>2. TypeInv /\ RelayInv /\ HeadersOnly /\ [Next]_vars => HeadersOnly'
  BY HeadersOnlyStep
<1>3. TypeInv /\ OrderInv /\ RelayInv /\ HeadersOnly => RequestsForwardedWhole
  <2> SUFFICES ASSUME TypeInv, OrderInv, RelayInv, HeadersOnly,
                      NEW c \in Conns, pc[c] = "tunnel_header",
                      NEW p \in Len(replies[c]) + 1 .. rd[c]
               PROVE  \E k \in 1..Len(upstream[c]) : upstream[c][k].at = p
    BY DEF RequestsForwardedWhole
  <2>1. p \in 1..rd[c] /\ p \in 1..Len(wire[c]) /\ p > Len(replies[c]) /\ p <= rd[c]
    BY PlaceTypes
  <2>2. \A q \in heads[c] : q \in Nat /\ wire[c][q].body = 0
    BY PlaceTypes DEF RelayInv, Framed
  <2>3. InFrame(c, p)
    BY <2>2, ProxyAssumption DEF InFrame
  <2>4. p \in heads[c]
    <3>1. ASSUME NEW q \in heads[c], q < p, p <= EndOf(c, q) PROVE FALSE
      BY <2>1, <2>2, <3>1 DEF EndOf
    <3> QED
      BY <2>1, <3>1 DEF RelayInv, Framed, HeadersOnly
  <2> QED
    BY <2>1, <2>3, <2>4 DEF RelayInv, InStep, Consumed, Holding
<1> QED
  BY <1>1, <1>2, <1>3, RelayAlways, PTL DEF Spec

(***************************************************************************)
(* Of a request whose Connection values hold no blank after an option,     *)
(* tunnel() passes on every end-to-end field as it was, and no other.      *)
(***************************************************************************)
THEOREM HopByHopNeverRelayed == Spec => []HopByHopStripped
<1>1. ASSUME TypeInv, RelayInv, NEW c \in Conns, NEW k \in 1..Len(upstream[c]),
             WellFormed(wire[c][upstream[c][k].at].fields)
      PROVE  upstream[c][k].fields =
               [n \in Names |-> IF n \in HopByHop(wire[c][upstream[c][k].at].fields)
                                THEN <<>> ELSE wire[c][upstream[c][k].at].fields[n]]
  <2>1. /\ wire[c][upstream[c][k].at] \in Requests
        /\ upstream[c][k].fields = InFields(wire[c][upstream[c][k].at].fields)
    BY <1>1 DEF RelayInv, InStep, Recorded, RecordedAt
  <2>2. wire[c][upstream[c][k].at].fields \in Fields
    BY <2>1, RequestType
  <2> QED
    BY <1>1, <2>1, <2>2, StrippedFields
<1>2. TypeInv /\ RelayInv => HopByHopStripped
  BY <1>1 DEF HopByHopStripped
<1> QED
  BY <1>2, RelayAlways, PTL
-----------------------------------------------------------------------------
(***************************************************************************)
(* ForwardProxy implements TunnelService: every step of the proxy is a     *)
(* step of the service or leaves its wires as they are.                    *)
(***************************************************************************)
phases == [c \in Conns |-> ServicePhase(c)]

LEMMA ServiceInit == Init => Service!Init
BY DEF Init, Service!Init, ServicePhase

\* The service strips the fields the proxy strips.
LEMMA SameFields == ASSUME NEW f PROVE Service!InFields(f) = InFields(f)
BY DEF InFields, Options, Occurrences, ParsedAt, IsEmptyValue,
       Service!InFields, Service!Options, Service!Occurrences, Service!ParsedAt,
       Service!IsEmptyValue

\* The service sees neither the reads of a handler nor what it waits for.
LEMMA ServiceStutters ==
  ASSUME phases' = phases, UNCHANGED <<wire, replies, upstream>>
  PROVE  [Service!Next]_(Service!vars)
BY DEF phases, Service!vars

\* The phase of a connection depends on its program counter and responses.
LEMMA PhaseFrame ==
  ASSUME NEW c \in Conns, pc'[c] = pc[c], replies'[c] = replies[c]
  PROVE  ServicePhase(c)' = ServicePhase(c)
BY DEF ServicePhase, Established

\* One handler goes to a phase, the others stay where they are.
LEMMA PhaseStep ==
  ASSUME NEW c \in Conns,
         \A d \in Conns \ {c} : pc'[d] = pc[d] /\ replies'[d] = replies[d]
  PROVE  phases' = [phases EXCEPT ![c] = ServicePhase(c)']
BY PhaseFrame DEF phases

LEMMA ServiceHidden ==
  ASSUME TypeInv, NEW c \in Conns,
         \/ ClientConnects(c) \/ Start(c) \/ InitRead(c) \/ Connect(c)
         \/ TunnelHeader(c) \/ TunnelBody(c)
  PROVE  [Service!Next]_(Service!vars)
<1>1. UNCHANGED <<wire, replies, upstream>>
  BY DEF ClientConnects, Start, InitRead, Connect, TunnelHeader, TunnelBody, clientVars
<1>2. \A d \in Conns \ {c} : pc'[d] = pc[d]
  BY DEF ClientConnects, Start, InitRead, Connect, TunnelHeader, TunnelBody, TypeInv, TypeOK
<1>3. \/ pc[c] \in {"absent", "backlog"} /\ pc'[c] \in {"absent", "backlog"}
      \/ /\ pc[c] \in {"spawned"} \cup Negotiating
         /\ pc'[c] \in {"spawned"} \cup Negotiating
      \/ pc[c] \in Tunnelling /\ pc'[c] \in Tunnelling
  BY DEF ClientConnects, Start, InitRead, Connect, TunnelHeader, TunnelBody,
         Negotiating, Tunnelling, TypeInv, TypeOK
<1>4. ServicePhase(c)' = ServicePhase(c)
  BY <1>1, <1>3 DEF ServicePhase, Established, Negotiating, Tunnelling
<1>5. phases' = phases
  <2>1. \A d \in Conns : ServicePhase(d)' = ServicePhase(d)
    BY <1>1, <1>2, <1>4, PhaseFrame
  <2> QED
    BY <2>1 DEF phases
<1> QED
  BY <1>1, <1>5, ServiceStutters

LEMMA ServiceHears ==
  ASSUME TypeInv, NEW c \in Conns, NEW t \in Requests \cup {Text, Junk},
         wire' = [wire EXCEPT ![c] = Append(@, t)],
         UNCHANGED <<pc, replies, upstream>>
  PROVE  Service!Next
<1>1. phases' = phases
  BY PhaseFrame DEF phases
<1> QED
  BY <1>1 DEF phases, Service!Next, Service!Hear

LEMMA ServiceBegins ==
  ASSUME TypeInv, NEW c \in Conns, Accept(c)
  PROVE  Service!Next
<1>1. pc[c] = "backlog" /\ pc'[c] = "spawned"
  BY DEF Accept, TypeInv, TypeOK
<1>2. UNCHANGED <<wire, replies, upstream>> /\ \A d \in Conns \ {c} : pc'[d] = pc[d]
  BY DEF Accept, clientVars, TypeInv, TypeOK
<1>3. ServicePhase(c) = "waiting" /\ ServicePhase(c)' = "negotiating"
  BY <1>1 DEF ServicePhase, Tunnelling
<1>4. phases' = [phases EXCEPT ![c] = "negotiating"] /\ phases[c] = "waiting"
  BY <1>2, <1>3, PhaseStep DEF phases
<1> QED
  BY <1>2, <1>4 DEF phases, Service!Next, Service!Begin

LEMMA ServiceEnds ==
  ASSUME TypeInv, NEW c \in Conns,
         \/ InitReadFails(c) \/ TunnelHeaderFails(c) \/ TunnelWriteFails(c)
         \/ TunnelBodyFails(c)
  PROVE  Service!Next
<1>1. /\ pc[c] \in Negotiating \cup Tunnelling /\ pc'[c] = "done"
      /\ UNCHANGED <<wire, replies, upstream>>
      /\ \A d \in Conns \ {c} : pc'[d] = pc[d]
  BY DEF InitReadFails, TunnelHeaderFails, TunnelWriteFails, TunnelBodyFails, Release,
         clientVars, Negotiating, Tunnelling, TypeInv, TypeOK
<1>2. ServicePhase(c) \in {"negotiating", "open", "refused"}
      /\ ServicePhase(c)' = "ended"
  BY <1>1 DEF ServicePhase, Negotiating, Tunnelling
<1>3. /\ phases' = [phases EXCEPT ![c] = "ended"]
      /\ phases[c] \in {"negotiating", "open", "refused"}
  BY <1>1, <1>2, PhaseStep DEF phases
<1> QED
  BY <1>1, <1>3 DEF phases, Service!Next, Service!End

LEMMA ServiceAnswers ==
  ASSUME TypeInv, OrderInv, NEW c \in Conns, InitReply(c)
  PROVE  Service!Next
<1> DEFINE next == Len(replies[c]) + 1
<1>0. Len(replies[c]) \in Nat /\ Len(wire[c]) \in Nat /\ rd[c] <= Len(wire[c])
      /\ \A p \in 1..Len(wire[c]) : wire[c][p] \in Requests \cup {Text, Junk}
  BY PlaceTypes
<1>1. PICK sent \in BOOLEAN :
        /\ replies' = [replies EXCEPT ![c] =
                         Append(@, [status |-> reply[c], sent |-> sent])]
        /\ \/ /\ AfterReply(reply[c], sent) = "done"
              /\ Release(c)
           \/ /\ AfterReply(reply[c], sent) # "done"
              /\ pc' = [pc EXCEPT ![c] = AfterReply(reply[c], sent)]
  BY DEF InitReply
<1>2. /\ pc[c] = "init_reply"
      /\ UNCHANGED <<wire, upstream>>
      /\ next = rd[c]
      /\ Justified(wire[c][next], reply[c])
      /\ reply[c] \in Statuses
  BY DEF InitReply, clientVars, OrderInv, Pending, TypeInv, InHand
<1>3. pc'[c] = AfterReply(reply[c], sent) /\ \A d \in Conns \ {c} : pc'[d] = pc[d]
  BY <1>1 DEF Release, TypeInv, TypeOK
<1>4. /\ next \in 1..Len(wire[c])
      /\ wire[c][next] \in Requests
      /\ wire[c][next].body = 0
  BY <1>0, <1>2 DEF Justified
<1>5. reply[c] \in Service!AnswersTo(wire[c][next])
  <2>1. wire[c][next].method \in {"CONNECT", "OTHER"} /\ wire[c][next].keep_alive \in BOOLEAN
    BY <1>4, ProxyAssumption DEF Messages
  <2> QED
    BY <1>2, <2>1 DEF Justified, Statuses, Service!AnswersTo
<1>6. /\ replies'[c] # <<>>
      /\ replies'[c][Len(replies'[c])] = [status |-> reply[c], sent |-> sent]
  <2>1. replies'[c] = Append(replies[c], [status |-> reply[c], sent |-> sent])
    BY <1>1 DEF TypeInv, TypeOK
  <2>2. [status |-> reply[c], sent |-> sent] \in [status : Statuses, sent : BOOLEAN]
    BY <1>2
  <2>3. replies[c] \in Seq([status : Statuses, sent : BOOLEAN])
    BY DEF TypeInv, TypeOK
  <2>4. /\ Len(replies'[c]) = Len(replies[c]) + 1
        /\ replies'[c][Len(replies[c]) + 1] = [status |-> reply[c], sent |-> sent]
    BY <2>1, <2>2, <2>3, AppendType
  <2> QED
    BY <1>0, <2>4
<1>7. Established(c)' <=> reply[c] = "ok" /\ sent = TRUE
  <2>1. Established(c)' <=>
          [status |-> reply[c], sent |-> sent] = [status |-> "ok", sent |-> TRUE]
    BY <1>6 DEF Established
  <2> QED
    BY <2>1
<1>8. ServicePhase(c) = "negotiating"
  BY <1>2 DEF ServicePhase, Tunnelling
<1>9. ServicePhase(c)' = Service!After(reply[c], sent)
  <2>1. CASE reply[c] \in {"method_not_allowed", "unreachable"}
    BY <1>3, <2>1 DEF AfterReply, ServicePhase, Service!After, Tunnelling
  <2>2. CASE reply[c] \in {"ok", "must_persist"} /\ sent = FALSE
    BY <1>3, <2>2 DEF AfterReply, ServicePhase, Service!After
  <2>3. CASE reply[c] \in {"ok", "must_persist"} /\ sent = TRUE
    BY <1>3, <1>7, <2>3 DEF AfterReply, ServicePhase, Service!After, Tunnelling
  <2> QED
    BY <1>2, <2>1, <2>2, <2>3 DEF Statuses
<1>10. \A d \in Conns \ {c} : replies'[d] = replies[d]
  BY <1>1 DEF TypeInv, TypeOK
<1>11. /\ phases' = [phases EXCEPT ![c] = Service!After(reply[c], sent)]
       /\ phases[c] = "negotiating"
  BY <1>3, <1>8, <1>9, <1>10, PhaseStep DEF phases
<1>12. Service!Answer(c, reply[c], sent)
  BY <1>0, <1>1, <1>2, <1>4, <1>5, <1>11 DEF phases, Service!Answer
<1> QED
  BY <1>2, <1>12 DEF Service!Next, Statuses

LEMMA ServiceRelays ==
  ASSUME TypeInv, OrderInv, RelayInv, NEW c \in Conns, TunnelWrite(c)
  PROVE  Service!Next
<1>0. /\ rd[c] \in Nat /\ Len(wire[c]) \in Nat /\ rd[c] <= Len(wire[c])
      /\ Recorded(c) /\ Sequenced(c)
  BY PlaceTypes DEF RelayInv, InStep
<1>1. /\ pc[c] = "tunnel_write" /\ pc'[c] \in {"tunnel_header", "tunnel_body"}
      /\ remote[c] # "none"
      /\ UNCHANGED <<wire, replies>>
      /\ \A d \in Conns \ {c} : pc'[d] = pc[d]
      /\ upstream' = [upstream EXCEPT ![c] =
           Append(@, [at |-> rd[c], method |-> request[c].method,
                      fields |-> request[c].fields])]
  BY DEF TunnelWrite, clientVars, TypeInv, TypeOK
<1>2. Established(c)
  BY <1>1 DEF OrderInv, Relaying
<1>3. ServicePhase(c) = "open" /\ ServicePhase(c)' = "open"
  BY <1>1, <1>2 DEF ServicePhase, Tunnelling, Established
<1>4. phases' = phases /\ phases[c] = "open"
  <2>1. \A d \in Conns : ServicePhase(d)' = ServicePhase(d)
    BY <1>1, <1>3, PhaseFrame
  <2> QED
    BY <1>3, <2>1 DEF phases
<1>5. /\ wire[c][rd[c]] \in Requests
      /\ Resume(c) < rd[c] /\ rd[c] > 0
      /\ \A q \in Resume(c) + 1 .. rd[c] - 1 : wire[c][q] = Text
      /\ request[c].fields = InFields(wire[c][rd[c]].fields)
      /\ request[c].method = (IF rd[c] = Resume(c) + 1 THEN wire[c][rd[c]].method
                              ELSE "garbled")
  BY <1>0, <1>1 DEF Sequenced
<1>6. Service!Behind(c) = Resume(c) /\ Resume(c) \in Nat
  BY <1>0, LastPlaceType DEF Service!Behind, Resume, LastPlace, Dropped
<1>7. request[c].fields = Service!InFields(wire[c][rd[c]].fields)
  BY <1>5, SameFields
<1>8. Service!Relay(c, rd[c])
  BY <1>0, <1>1, <1>4, <1>5, <1>6, <1>7 DEF phases, Service!Relay
<1>9. rd[c] \in 1..Len(wire[c])
  BY <1>0, <1>5
<1> QED
  BY <1>8, <1>9 DEF Service!Next

LEMMA ServiceStep ==
  ASSUME TypeInv, OrderInv, RelayInv, [Next]_vars
  PROVE  [Service!Next]_(Service!vars)
<1>1. CASE AcceptFails \/ UNCHANGED vars
  <2>1. UNCHANGED <<pc, wire, replies, upstream>>
    BY <1>1 DEF AcceptFails, vars, clientVars
  <2> QED
    BY <2>1, PhaseFrame, ServiceStutters DEF phases
<1>2. ASSUME NEW c \in Conns, Client(c) \/ RemoteHost(c)
      PROVE  [Service!Next]_(Service!vars)
  <2>1. CASE ClientConnects(c)
    BY <2>1, ServiceHidden
  <2>2. ASSUME NEW t \in Requests \cup {Text, Junk}, NEW owes, ClientWrites(c, t, owes)
        PROVE  Service!Next
    BY <2>2, ServiceHears DEF ClientWrites
  <2>3. ASSUME \/ \E r \in Requests : ClientSends(c, r)
               \/ \E u \in Units : ClientSendsBody(c, u)
               \/ ClientSendsJunk(c)
        PROVE  \E t \in Requests \cup {Text, Junk} : \E owes : ClientWrites(c, t, owes)
    BY <2>3, ProxyAssumption DEF ClientSends, ClientSendsBody, ClientSendsJunk
  <2>4. CASE \/ RemoteHost(c) \/ ClientStalls(c) \/ ClientResumes(c)
             \/ \E how \in {"half", "reset"} : ClientLeaves(c, how)
    <3>1. UNCHANGED <<pc, wire, replies, upstream>>
      BY <2>4 DEF RemoteHost, RemoteStalls, RemoteResumes, RemoteLeaves, RemoteStep,
                  ClientStalls, ClientResumes, ClientReads, ClientLeaves, clientVars
    <3> QED
      BY <3>1, PhaseFrame, ServiceStutters DEF phases
  <2> QED
    BY <1>2, <2>1, <2>2, <2>3, <2>4 DEF Client
<1>3. ASSUME NEW c \in Conns, Accept(c) \/ Handler(c)
      PROVE  [Service!Next]_(Service!vars)
  BY <1>3, ServiceHidden, ServiceBegins, ServiceEnds, ServiceAnswers, ServiceRelays
     DEF Handler
<1> QED
  BY <1>1, <1>2, <1>3 DEF Next

(***************************************************************************)
(* On its two wires a handler does what TunnelService promises: one answer *)
(* for each request, the headers of an open tunnel stripped and in order,  *)
(* nothing after a refusal, a lost 200 or the end.                         *)
(***************************************************************************)
THEOREM ProxyImplementsService == Spec => ServiceKept
<1>1. Spec => Service!Init
  BY ServiceInit DEF Spec
<1>2. Spec => [][Service!Next]_(Service!vars)
  BY ServiceStep, RelayAlways, PTL DEF Spec
<1> QED
  BY <1>1, <1>2, PTL DEF ServiceKept, Service!Spec
=============================================================================
