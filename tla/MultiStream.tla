---------------------------- MODULE MultiStream ----------------------------
(***************************************************************************)
(* foxy::multi_stream (include/foxy/multi_stream.hpp,                      *)
(* src/multi_stream.cpp) and the objects a connection passes through.      *)
(*                                                                         *)
(* A multi_stream is a socket and, optionally, an SSL stream whose next    *)
(* layer is a reference to a socket.  The accept loop of the proxy accepts *)
(* every connection into the one multi_stream of its state and moves it    *)
(* on: into the closure it spawns, from there into the parameter of        *)
(* handle_request(), and through the constructors of server_session,       *)
(* session and session_state into the member the session uses.  What was   *)
(* moved from is destroyed at some later time, in whatever order the       *)
(* scopes and coroutine frames end.  The states of SSL sessions build      *)
(* their multi_stream in place.                                            *)
(*                                                                         *)
(* Several connections may be on their way at once, on any threads.        *)
(***************************************************************************)
EXTENDS Naturals

CONSTANTS
  Conns,    \* the clients that connect to the proxy
  Clients,  \* client_sessions constructed with an SSL context
  Hops,     \* the objects a connection passes through after the loop's
  Head,     \* forward_proxy::state::socket
  NoConn,   \* what a socket holds that is not connected
  Nobody    \* no object

ASSUME MultiStreamAssumption ==
  /\ Hops \in Nat \ {0}
  /\ Conns \cap Clients = {}
  /\ Conns \cap {Head} = {} /\ Clients \cap {Head} = {}
  /\ NoConn \notin Conns \cup Clients

\* The multi_streams: the loop's, one per connection and hop, one per client.
Hop(c, i) == [conn |-> c, hop |-> i]
Passed    == [conn : Conns, hop : 1..Hops]
Objects   == {Head} \cup Passed \cup Clients

ASSUME ObjectsAssumption == /\ Passed \cap ({Head} \cup Clients) = {}
                            /\ Nobody \notin Objects

\* The stream of the server_session of c.
Member(c) == Hop(c, Hops)

VARIABLES
  life,    \* of a multi_stream: "none" yet, "alive", "gone"
  held,    \* the connection its socket holds
  ssl,     \* its optional SSL stream: "none", an "engine", or "empty": moved from
  refers,  \* the multi_stream whose socket the SSL stream refers to
  loop,    \* the accept loop: "accepting", "accepted", or "stopped" because
           \* its socket was open (for other errors see ForwardProxy)
  status   \* of a connection: "waiting", "open", "closed"

vars == <<life, held, ssl, refers, loop, status>>

\* The loop's multi_stream may be one with an SSL context.  The proxy's is not;
\* the class lets it be.
Init ==
  /\ life   = [o \in Objects |-> IF o = Head THEN "alive" ELSE "none"]
  /\ held   = [o \in Objects |-> NoConn]
  /\ \E ctx \in BOOLEAN :
       /\ ssl    = [o \in Objects |-> IF o = Head /\ ctx THEN "engine" ELSE "none"]
       /\ refers = [o \in Objects |-> IF o = Head /\ ctx THEN Head ELSE Nobody]
  /\ loop   = "accepting"
  /\ status = [k \in Conns \cup Clients |-> "waiting"]

-----------------------------------------------------------------------------
(***************************************************************************)
(* The operations of the class.                                            *)
(***************************************************************************)

\* Construction with an SSL context: the SSL stream refers to the socket beside it.
ConstructSsl(o) ==
  /\ life[o] = "none"
  /\ life'   = [life EXCEPT ![o] = "alive"]
  /\ ssl'    = [ssl EXCEPT ![o] = "engine"]
  /\ refers' = [refers EXCEPT ![o] = o]
  /\ UNCHANGED held

\* The bug of a move constructor that shares the handle of the socket.
MoveSharing(from, to) ==
  /\ life[from] = "alive" /\ life[to] = "none"
  /\ life'   = [life EXCEPT ![to] = "alive"]
  /\ held'   = [held EXCEPT ![to] = held[from]]
  /\ ssl'    = [ssl EXCEPT ![to] = ssl[from]]
  /\ refers' = [refers EXCEPT ![to] = refers[from]]

\* Move construction.  A socket moved from can be opened again.  A moved
\* std::optional stays engaged and the ssl_stream in it has lost its engine.
Move(from, to) ==
  /\ life[from] = "alive" /\ life[to] = "none"
  /\ life'   = [life EXCEPT ![to] = "alive"]
  /\ held'   = [held EXCEPT ![to] = held[from], ![from] = NoConn]
  /\ ssl'    = [ssl EXCEPT ![to] = ssl[from],
                           ![from] = IF ssl[from] = "none" THEN "none" ELSE "empty"]
  /\ refers' = [refers EXCEPT ![to] = refers[from], ![from] = Nobody]

\* The bug of an object that ends without closing its socket.
DestroyOnly(o) ==
  /\ life[o] = "alive"
  /\ life'   = [life EXCEPT ![o] = "gone"]
  /\ ssl'    = [ssl EXCEPT ![o] = "none"]
  /\ refers' = [refers EXCEPT ![o] = Nobody]
  /\ UNCHANGED <<held, status>>

\* Destruction closes the socket.
Destroy(o) ==
  /\ life[o] = "alive"
  /\ life'   = [life EXCEPT ![o] = "gone"]
  /\ held'   = [held EXCEPT ![o] = NoConn]
  /\ ssl'    = [ssl EXCEPT ![o] = "none"]
  /\ refers' = [refers EXCEPT ![o] = Nobody]
  /\ status' = [k \in DOMAIN status |-> IF k = held[o] THEN "closed" ELSE status[k]]

\* The multi_stream whose socket reads and writes on o go through.
Reached(o) == IF ssl[o] = "none" THEN o ELSE refers[o]

-----------------------------------------------------------------------------
(***************************************************************************)
(* The proxy and the sessions.                                             *)
(***************************************************************************)

\* async_accept completes: the socket of the loop holds the connection.
Accept(c) ==
  /\ loop = "accepting" /\ status[c] = "waiting"
  /\ held'   = [held EXCEPT ![Head] = c]
  /\ status' = [status EXCEPT ![c] = "open"]
  /\ loop'   = "accepted"
  /\ UNCHANGED <<life, ssl, refers>>

\* async_accept on a socket that is open fails, and the loop ends.
AcceptNext == loop' = IF held'[Head] = NoConn THEN "accepting" ELSE "stopped"

\* The bug of a closure that refers to the loop's socket: it is moved from
\* once the coroutine starts.
SpawnByReference ==
  /\ loop = "accepted"
  /\ UNCHANGED <<life, held, ssl, refers, status>>
  /\ AcceptNext

\* The loop is resumed: it moves its multi_stream into the closure, spawns
\* the handler and accepts again.
Spawn ==
  /\ loop = "accepted"
  /\ Move(Head, Hop(held[Head], 1))
  /\ AcceptNext
  /\ UNCHANGED status

\* The bug of an object that is destroyed before it is moved from.
DropEarly(c, i) == i < Hops /\ Destroy(Hop(c, i)) /\ UNCHANGED loop

\* From one object to the next.
PassOn(c, i) ==
  /\ i < Hops
  /\ Move(Hop(c, i), Hop(c, i + 1))
  /\ UNCHANGED <<loop, status>>

\* An object that was moved from goes out of scope.
Drop(c, i) ==
  /\ i < Hops /\ life[Hop(c, i + 1)] # "none"
  /\ Destroy(Hop(c, i))
  /\ UNCHANGED loop

\* The last owner lets the session_state go.
EndSession(c) == Destroy(Member(c)) /\ UNCHANGED loop

\* The bug of a session_state that is handed a multi_stream built elsewhere.
MakeElsewhere(s) ==
  /\ life[s] = "none"
  /\ life'   = [life EXCEPT ![s] = "alive"]
  /\ ssl'    = [ssl EXCEPT ![s] = "engine"]
  /\ refers' = [refers EXCEPT ![s] = Head]
  /\ UNCHANGED <<held, loop, status>>

\* client_session(io, ctx): its state is made where it stays.
MakeClient(s) == ConstructSsl(s) /\ UNCHANGED <<loop, status>>

\* async_connect.
Connect(s) ==
  /\ life[s] = "alive" /\ status[s] = "waiting"
  /\ held'   = [held EXCEPT ![s] = s]
  /\ status' = [status EXCEPT ![s] = "open"]
  /\ UNCHANGED <<life, ssl, refers, loop>>

EndClient(s) == Destroy(s) /\ UNCHANGED loop

Next ==
  \/ \E c \in Conns : Accept(c) \/ EndSession(c)
  \/ \E c \in Conns, i \in 1..Hops : PassOn(c, i) \/ Drop(c, i)
  \/ Spawn
  \/ \E s \in Clients : MakeClient(s) \/ Connect(s) \/ EndClient(s)

Spec == Init /\ [][Next]_vars

\* Nothing between the accept and the session waits for a peer.
FairSpec ==
  /\ Spec
  /\ WF_vars(Spawn)
  /\ \A c \in Conns, i \in 1..Hops : WF_vars(PassOn(c, i))

-----------------------------------------------------------------------------
\* The values of the variables; only a living object holds anything, and an
\* SSL stream refers to a socket as long as it has its engine.
TypeOK ==
  /\ life   \in [Objects -> {"none", "alive", "gone"}]
  /\ held   \in [Objects -> Conns \cup Clients \cup {NoConn}]
  /\ ssl    \in [Objects -> {"none", "engine", "empty"}]
  /\ refers \in [Objects -> Objects \cup {Nobody}]
  /\ loop   \in {"accepting", "accepted", "stopped"}
  /\ status \in [Conns \cup Clients -> {"waiting", "open", "closed"}]
  /\ \A o \in Objects : /\ life[o] # "alive" => held[o] = NoConn /\ ssl[o] = "none"
                        /\ ssl[o] = "engine" <=> refers[o] # Nobody

\* An accepted connection is held by exactly one living object on its way,
\* whatever of the way has been destroyed already, and is closed by no
\* other than the end of its session (multi_stream.hpp:41, forward_proxy.cpp:258).
OwnedOnce ==
  \A c \in Conns :
    /\ status[c] = "open" => \E o \in Objects : /\ held[o] = c
                                                /\ life[o] = "alive"
                                                /\ \A p \in Objects \ {o} : held[p] # c
    /\ status[c] = "closed" => life[Member(c)] = "gone"

\* The loop never accepts into a socket that still holds a connection: only
\* its moving each one on keeps it accepting (forward_proxy.cpp:250-258).
LoopKeepsAccepting == loop # "stopped"

\* Reads and writes on o go through the socket that holds its connection.
ReachesOwn(o) == Reached(o) \in Objects /\ held[Reached(o)] = held[o]

\* Where a connection is read and written, however often it was moved: with no
\* SSL stream through its own socket, with one just as long as neither has been
\* moved.  A move (multi_stream.hpp:41-45) takes the SSL stream along but not
\* what it refers to, and what is accepted into the object left behind is with
\* an SSL stream that has lost its engine.
ReachedUnlessMoved ==
  \A o \in Objects :
    held[o] # NoConn =>
      (ReachesOwn(o) <=> \/ ssl[o] = "none"
                         \/ ssl[o] = "engine" /\ o \notin Passed)

\* A connection that is accepted comes to the session made for it
\* (forward_proxy.cpp:256-260 and :195-205).
HandedOver == \A c \in Conns : status[c] = "open" ~> life[Member(c)] # "none"

=============
