# Verification of foxy

foxy is a C++ library of asynchronous HTTP sessions over Boost.Asio and
Boost.Beast (coroutines TS), and a forward proxy built from them.  This
directory holds TLA+ models of it, the TLC configurations that check the models
on small instances, and proofs, checked by TLAPS, for every value of the
constants.  Paths below are relative to the repository's root.

* [Inventory](#inventory)
* [Modules and the code](#modules-and-the-code)
* [Runs](#runs)
* [Environment and fairness](#environment-and-fairness)
* [Proofs](#proofs)
* [Disagreements between the code and what is said of it](#disagreements-between-the-code-and-what-is-said-of-it)
* [What is not modelled](#what-is-not-modelled)

## Inventory

| component | state | operations | uses |
|---|---|---|---|
| `forward_proxy` (`src/forward_proxy.cpp`) | an acceptor and the one socket clients are accepted into; for each client, in a coroutine of its own: two sessions, a parser, an `error_code`, the buffer of `tunnel()` | `run()`, `handle_request()`, `init()`, `tunnel()` | `server_session`, `client_session`, `partition_connection_options` |
| `partition_connection_options` (`include/foxy/partition.hpp`) | two field sets and the vector of options, for the length of a call | the scan of Connection values, the copy and the removal of the fields they name | Boost.Spirit X3 |
| `detail::session`, `client_session`, `server_session` (`include/foxy/impl/*.hpp`) | a `shared_ptr` to a `session_state`; a coroutine for each call | `async_read_header`, `async_read`, `async_write_header`, `async_write`; `async_connect`, `async_request`, `async_ssl_shutdown`; `shutdown` | `session_state`, `get_strand`, `co_spawn` |
| `session_state` | a `multi_stream`, a `flat_buffer`, a timer | none: it is shared between session objects and coroutines | |
| `multi_stream` | a TCP socket and, if there is an SSL context, an `ssl_stream` that refers to a socket | construction with and without a context, move construction, destruction, read some, write some | `ssl_stream` |
| `ssl_stream`, `flat_stream` (`include/foxy/experimental/core`) | the engine and the next layer; `flat_stream` has none of its own and joins the small buffers of a write | `write_some`, `async_write_some`, reads, handshake and shutdown | |
| traits, coroutine aliases, logging | none | | |

How they meet: `run()` accepts a client into its socket, moves the socket into
`handle_request()` and spawns that, detached.  `handle_request()` makes a
`server_session` from the socket and a `client_session` with none, and passes both
to `init()` and then to `tunnel()`: the connection and the buffer of each live on
from the first to the second.  All co_awaits of the proxy are operations of the
sessions.  A session's operation is a coroutine of its own, spawned on the strand of
its completion handler or on a new one, which keeps the `session_state` alive.

What is hard in this code:

* **Interleaving.**  Handlers run beside one another and beside the accept loop.
  Between two co_awaits the client may send, stop sending or reset, the remote host
  may leave.  On several threads the coroutine of an operation may still be
  returning when its handler already starts the next one.
* **Partial failure.**  `ec` is one variable shared by all steps of `init()`; some of
  its errors are overwritten by the next operation on purpose (a response that could
  not be written), others must end the handler.  A connect is four steps.
* **Protocol sequences.**  A client may pipeline: requests beyond the CONNECT are in
  the `server_session`'s buffer before the tunnel exists.  A failed connect
  is tried again with the same `client_session`.  A session can be connected again, and its
  buffer outlives the connection.
* **Boundaries.**  The buffer of `tunnel()` is full, or overflows, and then the tail of a
  body is read where the next header is due; the joined buffers
  of a write are at, above and below the coalesce limit; empty elements and buffers.
* **Lifetime.**  Session objects may be destroyed with operations outstanding.  A
  `multi_stream` that was moved from lives on beside the one that has its socket, and the SSL
  stream in a `multi_stream` refers to a socket that may be elsewhere.
* **Liveness.**  There are no timeouts, so ends must come from the peers, and a remote host, or a
  client, that stops reading holds its handler.

What makes each component correct: responses answer requests one for one and nothing
is relayed without a 200 the client got (proxy); the end-to-end fields and only
those travel on (partition); an operation completes exactly once, with the error
of the step that failed, and the stream has one user at a time, a response answers the
request it is given for (sessions); a connection has one owner and is read where it is
(multi_stream); bytes arrive once and in order (flat_stream).  `PROJECT.json` lists each hazard with its line and
the properties that cover it.

## Modules and the code

| module | models |
|---|---|
| `Partition` | what `partition_connection_options` returns, as operators over field sets |
| `PartitionLoop` | its three loops, the first with an action for each element the parse takes; shown to compute `Partition` |
| `TunnelService` | what the proxy promises a client and a remote host, seen from the wires alone |
| `ForwardProxy` | the accept loop and the handlers of all clients; implements `TunnelService` |
| `AsyncOp` | what a caller relies on at each co_await of a session's operation |
| `Session` | the coroutines of those operations on threads and strands; implements `AsyncOp` |
| `ClientSession` | what flows through one `client_session`: socket, buffer and parser over several connections |
| `MultiStream` | the `multi_stream`s a connection is moved through, from the accept loop to its session |
| `FlatStream` | `coalesce`, `write_some` and `write_op`, driven by the loop of a composed write |
| `PartitionProofs` | lemmas about the operators of `Partition` |
| `ForwardProxyProofs`, `TunnelServiceProofs`, `PartitionLoopProofs`, `SessionProofs`, `ClientSessionProofs`, `MultiStreamProofs`, `FlatStreamProofs` | theorems |
| `MCForwardProxy`, `MCPartition`, `MCFlatStream` | the instances TLC checks; the others need none |

How they fit together: `ForwardProxy` uses `Partition` (the fields `tunnel()` relays are `InFields` of
those it read) and takes three things for granted, which other modules show: each co_await
completes once, with success or an error (`Session`, through `AsyncOp`); the socket that is
accepted is the one the handler's session reads (`MultiStream`); and the client's session is connected
on one connection at most, so that nothing of an earlier host is in its buffer
(`RemoteOnlyForTunnel`, the premise under which `ClientSession` is right).

### ForwardProxy

A coroutine runs without a pause from one co_await to the next, and whatever it does in
between is visible to nobody else, so a step of a handler is the completion of
the awaited operation with all the code up to the next co_await.  `pc[c]` names the
co_await:

| `pc[c]` | suspended at | actions that leave it |
|---|---|---|
| `absent`, `backlog` | before `async_accept` has taken the client | `ClientConnects`, `Accept` |
| `spawned` | the start of `handle_request` | `Start` |
| `init_read` | `server_session.async_read`, line 47 | `InitRead`, `InitReadFails` |
| `connect` | `client_session.async_connect`, line 110 | `Connect` |
| `init_reply` | one of the four `async_write` of a response | `InitReply` |
| `tunnel_header` | `server_session.async_read_header` | `TunnelHeader`, `TunnelHeaderFails` |
| `tunnel_write` | `client_session.async_write_header` | `TunnelWrite`, `TunnelWriteFails` |
| `tunnel_body` | `server_session.async_read` into `buf` | `TunnelBody`, `TunnelBodyFails` |
| `done` | `handle_request` has returned | |

`Release` is the end of a handler: `shutdown()` and the destruction of both sessions,
which closes the sockets.  `wire[c]` is everything the client has sent,
`rd[c]` how much of it reads have consumed: together they stand for the kernel's queue
and the `flat_buffer` of the session, and do not change when the session goes from `init()` to
`tunnel()`.  A header is one token; a body is as many tokens as it has units of
the buffer.  `heads[c]` remembers which tokens the client sent as headers; no step reads it.
A unit of a body is whatever the client likes, and where the code gives it to a parser that
wants a header it is what it looks like: a whole header (a request), the beginning of one
(`Text`: the parser waits, and the next request becomes a part of what it parses, with another
method), or something it rejects (`Junk`).  That happens behind a body longer than `buf`: the
read of it ends with `need_buffer`, which the code clears, and the tail is left for the next
`request_parser`.  The header that ends at `p` (`HeaderEnds`) is a request with nothing but
`Text` in front of it.  `ec` is not a
variable: it is overwritten by every operation, and the places where it is tested are
the alternatives of the actions (`AfterReply` is what `continue`, `break` and the test in
`handle_request()` make of a response that was, or was not, written).

The socket of the `client_session` is `remote[c]`.  A remote host may leave (`RemoteLeaves`) and may
stop reading (`RemoteStalls`): the proxy never reads its responses, so a host that waits to
send one need not read again, and then the write of a header does not complete.  A client may
stop reading as well (`ClientStalls`: `window[c]` is full), half-closed or not; then the write of
a response does not complete until it reads again or resets.

`Service` in `ForwardProxy` maps this to `TunnelService`: `replies` and `upstream` are the
responses and the relayed headers, and `ServicePhase` is how far the handler is.  Bodies,
buffers, reads, the connect and the moods of both peers are hidden; what is left of a body in
`TunnelService` is its `Room`: that much of it is dropped, and what exceeds it may be relayed as
a header.

The abstractions: a response is its status; a target is reachable or not, by choice; a
request has a method (CONNECT or another), a persistence, a body length and fields.

### Partition and PartitionLoop

`http::fields` is a multimap: a function from names to sequences of values.  A Connection
value is the sequence of its comma-separated elements, a field name or `Blank`.  `ParsedAt`
says which elements the X3 rule reads: it skips leading blanks and stops at the first blank
after an option.  `PartitionLoop` parses from left to right, an element at a time (`ScanField`, then
`SkipBlank` and `ReadOption` for as long as the rule `Takes` more, then `ParseEnds`; `pos` and `begun` are
where the parse is and whether it has read an option), and runs the loops on
changing field sets; `InComputed` and `OutComputed` compare the result with the closed form.  `OutFields`
lays out in a row what is copied of a field (`Pieces`): for Connection its values that are not empty, and then,
because the code inserts a field for every entry of `options`, all its values once for every
time it is named.  `Joined` is the recursive function that puts the first `m` pieces together.

### Session

The seven operations have one frame, so a call is a `kind` with its list of `Steps`.
`Initiate` is the call up to `co_spawn`; `Resume`, `SetHostName`, `Await`,
`StepCompletes`, `Post`, `CoReturn` the coroutine; `Call` and `HandlerReturns` the completion
handler.  `owners` holds who has a `shared_ptr` to the state: the session objects and
each coroutine that captured `s = s_`.  `MayCall` is the rule of the streams, which
`include/foxy/experimental/core/ssl_stream.hpp:33-36` states for its callers: distinct directions, and one
strand for operations that overlap.  `StreamNotShared` is about
what the code adds to that rule: a strand per operation, and coroutines that
outlive the call of their handler.

### ClientSession

`Session` knows whether a step succeeds and not what it does to the stream; `ClientSession` is
about that, for one `client_session` whose operations are called one after another.
`async_connect` is `ConnectCall`, `ResolveFails` or `Resolved`, `ConnectFails` or `Connected`;
`async_request` is `RequestCall`, `Written` or `WriteFails`, then `ReadSome` until `Finish` or
`ReadFails`, or until the parser gives up (`ParserFails`, `Refuse`).  A response is five parts: a
piece of its status line, the end of that line with field lines, a piece of a field line, the
rest of the header, and the body.  Each is named after the connection and the request it belongs
to, so a response put together from parts of two is visible.  The parser takes the complete lines
of an unfinished header; the piece behind them stays in `buffer`, and `async_connect` does not
clear the buffer.  A caller's parser may refuse a response that is well formed, for the size of
its header or body or for having a body (`ParserFails`, of the requests in `Choosy`): then the rest of it
stays in the buffer and on the wire of a connection that goes on.  What is put together from two
responses may be refused, too (`Refuse`), and a body that is left may be taken for a response
(`Misread`).  `asio::async_connect` closes the
socket before it tries an endpoint, hence `Resolved` drops what was on the wire, while a
failed resolution leaves an earlier connection as it was.  `clean` remembers whether the buffer
was empty when the connection was made and no parser has refused a response on it since.

### MultiStream

An object is the loop's (`Head`), one of the `Hops` a connection `c` passes through (the closure of
`co_spawn`, the parameter of `handle_request()`, the constructor parameters and last the member
of `session_state`), or that of an SSL session.  `held[o]` is the connection its socket has, `ssl[o]` and
`refers[o]` its optional SSL stream and the object whose socket that refers to.  `Move` is
the move constructor: the socket goes, the SSL stream goes, and the reference in it stays
what it was.  What was moved from ends at any later time (`Drop`).  `Reached` is the connection a read
or write gets to.

The proxy never gives its loop's `multi_stream` an SSL context, and `client_session`s build theirs
in place.  The class allows more, and so does `Init`: `Head` is with an SSL context or without.
`ReachedUnlessMoved` says what the move constructor makes of that: an SSL stream reads its own
connection just as long as it was not moved.  A server with TLS built like this proxy would read and
write through the loop's socket, and give its second connection an SSL stream with no engine.

### FlatStream

A buffer sequence is given by the last unit of each of its buffers (`ends`), so that what buffers
hold together is a difference, and a unit on the wire is its number.  `first` and `done` are what the caller has
left: its first buffer and the units it was told are written.  `WriteSome`, `Join` and `JoinEnds` are the loop of `coalesce()`
(`detail/flat_stream.hpp`), with its `size` and `prev`; `PassOn` decides between joining in memory and
passing a prefix on, `NextLayerWrites` and `NextLayerFails` are the layer below, `Complete` the
release of the memory and the call of the handler, `CallerGoesOn` the caller's loop.  Composed operations differ in
whether they pass over empty buffers, so `Ahead` allows both.  The synchronous
`write_some` takes the same decisions; its memory is that of the call.

## Runs

| run | instance | what it shows |
|---|---|---|
| `proxy_safety` | one client, five kinds of requests, three kinds of units of a body, 5 tokens, `BufSize` 1 | the safety properties of the proxy, that every step is one of `TunnelService` (`ServiceKept`), and that no step of a handler leaves it where it was (`HandlerAdvances`) |
| `proxy_live` | one client of up to 4 tokens, three kinds of requests and two of units beside a silent one, `BufSize` 1, fair | a handler ends when its client is gone; every request is read, and answered or relayed; the backlog is served |
| `proxy_persist` | one client, 2 tokens | violated: `NonPersistentEnds` |
| `proxy_overflow` | one client, 5 tokens | violated: `OnlyRequestsRelayed` |
| `partition_loops` | every field set with two Connection values of up to 3 and 1 elements | the loops compute `Partition`, nothing is lost, a second hop has nothing to take out |
| `partition_grammar` | the same | violated: `OptionsFollowGrammar` |
| `session` | an SSL session, 2 calls of any kind, 2 threads, 1 strand, fair | outcomes are faithful, one thread in each direction of the stream, the state outlives the operations, each call implements `AsyncOp` |
| `client_session` | 3 connections, 4 requests, the parser of the second may refuse its response, fair | a clean connection pairs responses with requests, full responses are delivered, requests end |
| `client_session_reused` | 2 connections, 2 requests, no parser refuses | violated: `ResponseIsTheHosts` |
| `client_session_refused` | 1 connection, 2 requests, the parser of the first may refuse | violated: `ResponseIsTheHosts` |
| `multi_stream` | 2 connections over 3 hops, the loop's stream with an SSL context or without, one SSL session, fair | one owner, the loop goes on accepting, an SSL stream reaches its connection unless it was moved, each connection gets its handler |
| `flat_stream_writes` | every sequence of up to 4 buffers of 0..4 units, limit 3 | order, memory, maximal chunks, termination, and that empty buffers alone make a write that succeeds with nothing (`StoppedByEmptyOnly`) |

Why the bounds are enough:

* `MaxWire` 5 is the shortest that holds a refusal, a CONNECT, a relayed request with a
  body that overflows the buffer, and its tail; without the refusal there is room for a request
  behind the tail.  Bodies of 1 and 2 units fill and overflow a `BufSize` of 1, and the tail may be
  a header, `Text` or `Junk`.  For `proxy_live` they do the same
  within 4 tokens.  Handlers share no state but the acceptor, so the safety
  properties of one connection need one client (the proofs hold for any number); the second
  client of `proxy_live` is there for the acceptor.
* The Connection values hold every pattern of up to three options and blanks, so a
  blank before, between and after options, options that repeat, that name Connection
  and that name absent fields; the second value shows that values add up.
* With two threads, two calls and one strand, a second operation can overlap the first, be
  started by its handler while its coroutine still returns, or share its strand.  The
  proofs cover any number of calls, threads and strands, with and without SSL.
* Three connections and four requests: an earlier connection can end within a response, the next
  be made and fail in each of its steps, and requests follow on it in any state of
  the buffer; a third shows that a connection is clean again after one that was not.  The second
  request is the one whose parser may refuse: there are requests before it and after it, on its
  connection and on later ones.
* Two connections are on their way at once while the loop accepts; three hops are a first, a
  middle and a last object.
* With a limit of 3 and sizes of 0..4 a buffer, or a sum, can be below, at and above the limit.

`CHECK_DEADLOCK FALSE` is set where the system may stop: all clients are gone, all calls
completed, all connections closed, the function returned, the buffers written.

## Environment and fairness

* A client sends requests, each followed by its whole body, or `Junk` between them; it half-closes
  or resets at any time, and stops reading once it has a response to leave unread.
  A read of a reset connection fails, even if something was left to read; a write to it may
  still succeed.  A write to the remote host may succeed though the host has left.
* Weak fairness of `Accept(c)` and of `Handler(c)`: the `io_context` is run, so an operation
  that can complete does and its coroutine is resumed.  A read that waits for a silent
  client is not enabled, so nothing is assumed of it.  Nothing is assumed of clients, of the
  remote host's leaving, nor of a failing `async_accept`.
* A write to a peer that has stopped reading is not enabled, and nothing says that it
  will read again.  `GoneClientIsReleased` and `EveryRequestServed` have its reading as a premise
  (`PeersRead`): a remote host that stalls for ever, or a client that does so and never resets, holds
  the handler for ever, as no timer is armed.  The premise of `EveryRequestServed` also asks the
  client to complete the bodies it has begun, and it speaks of requests up to the first body
  longer than the buffer (`InFrame`): behind that the code has lost the client's framing.
* `Session`: threads run what is queued (`WF` of `Runs(o)`) and a step that is awaited completes
  in some way (`WF` of `StepCompletes(o)`).  `FlatStream`: operations of the next layer complete.
* `ClientSession`: an awaited step that can complete does (`WF` of `Session`).  A read on a silent
  host is not enabled.  Nothing is assumed of the caller and of the host.
* `MultiStream`: `Spawn` and `PassOn` are straight-line code that waits for nothing, so they are
  fair; accepting, the ends of scopes and of sessions are not.

## Proofs

| module | theorem | establishes |
|---|---|---|
| `ForwardProxyProofs` | `TypeCorrect` | `Spec => []TypeOK` |
| | `ResponsesMatchRequests` | `Spec => []RepliesInOrder` |
| | `NegotiationEnds` | `Spec => []FinalReplyIsLast` |
| | `NothingUpstreamBeforeOk` | `Spec => []UpstreamOnlyAfterOk` |
| | `NoStrayRemote` | `Spec => []RemoteOnlyForTunnel` |
| | `HandlerProgress` | `Spec => HandlerAdvances`: each step of a handler, failures included, lowers `StepsLeft` |
| `TunnelServiceProofs` | `HeadersRelayedInOrder` | `Spec => []UpstreamInOrder`: in order and once, and up to the first body longer than the buffer exactly the client's headers |
| | `HopByHopNeverRelayed` | `Spec => []HopByHopStripped`, which is about well-formed Connection values |
| | `ProxyImplementsService` | `Spec => ServiceKept`: every step of the proxy is a step of `TunnelService` or hidden |
| | `FittingBodiesNeverParsed` | if the buffer holds every body, `Spec => []OnlyRequestsRelayed` |
| | `BodylessForwardedWhole` | if no request has a body, `Spec => []RequestsForwardedWhole` |
| `PartitionLoopProofs` | `NoValueLost` | `Spec => []NothingLost` |
| | `RemainsComputed` | `Spec => []InComputed` |
| | `CopiedComputed` | `Spec => []OutComputed` |
| | `SecondHopFindsNothing` | `Spec => []RelayedIsEndToEnd` |
| | `WellFormedFollowGrammar` | `Spec => [](WellFormed(given) => OptionsFollowGrammar)` |
| | `EndToEndRemains` | of a well-formed message exactly the end-to-end fields remain |
| `SessionProofs` | `SessionTypes` | `Spec => []TypeOK` |
| | `OutcomeIsFaithful` | `Spec => []FaithfulOutcome` |
| | `StreamIsNotShared` | `Spec => []StreamNotShared` |
| | `StateOutlives` | `Spec => []StateOutlivesOperations` |
| | `SessionImplementsAsyncOp` | `Spec => Promise!Safety`: the safety part of `PromiseKept` |
| `ClientSessionProofs` | `ResponsesPairWithRequests` | `FairSpec => []AnswersItsRequest` |
| | `ClientTypes` | `FairSpec => []TypeOK` |
| | `FirstHostAnswers` | `FairSpec` implies that responses on the first connection are its host's up to a request whose parser may refuse one, and, where none may, `ResponseIsTheHosts` until a second connection is made |
| `MultiStreamProofs` | `StreamTypes` | `Spec => []TypeOK` |
| | `ConnectionOwnedOnce` | `Spec => []OwnedOnce` |
| | `LoopGoesOn` | `Spec => []LoopKeepsAccepting` |
| | `MovedSslMisses` | `Spec => []ReachedUnlessMoved` |
| `FlatStreamProofs` | `UnitsInOrder` | `Spec => []WireInOrder` |
| | `MemoryIsBounded` | `Spec => []MemoryBounded` |
| | `ChunksAreMaximal` | `Spec => []ChunkIsMaximal` |
| | `OnlyEmptyBuffersStop` | `Spec => []StoppedByEmptyOnly` |
| | `NonEmptyBuffersAdvance` | if no empty buffer begins where one above the limit does, `Spec => []SuccessWritesSomething` |
| | `NeverStoppedShort` | without empty buffers the caller is never stopped by a success, nor has it nothing left before all is written: the safety half of `WrittenOrFailed` |

They hold for every value of the constants that satisfies the assumptions of the modules, which
TLC evaluates on the runs: `ProxyAssumption` (`Text`, `Junk` and `NoRequest` are no messages, the
requests are messages, a unit of a body is a request, `Text` or `Junk`, `BufSize` is positive),
`PartitionAssumption` (Connection is a name, `Blank` is
none), those of `Session`, `ClientSession` and `MultiStream`, which say that names of different things
differ and that bounds are numbers, and `FlatStreamAssumption` (buffers end where they begin or later).

**The proxy.**  `TypeInv` is `TypeOK` with `InHand`: where the handler is past a read,
`request[c]` is a message and `reply[c]` a status.  `TypeOK` alone is not inductive, since
`InitReply` appends `reply[c]` to `replies[c]` and `TunnelWrite` the fields of `request[c]` to
`upstream[c]`.  `OrderInv` says of each connection what the safety properties leave out: the
response being written is the one the last request read calls for (`Pending`), the
responses before it were all refusals as long as `init()` runs (`Answered`), and what is written
to the remote host or connected to it goes with a 200 that was sent or is being sent
(`Relaying`).  None of the five properties is inductive by itself, because `replies` and
`upstream` do not say which branch of `init()` the handler is in.  Each action changes one
connection; `OrderFrame` shows once that the invariant of the others is untouched.

`HandlerProgress` is what can be proved towards the ends of handlers without `ENABLED`.  `StepsLeft` is a
variant: three for each token that is not read, as no token costs more steps than the read, the connect and the
response of a CONNECT, and what is `Ahead` of the present co_await.  Only the client's sending raises it, so
between two tokens a handler takes finitely many steps, whatever fails; the liveness runs add that it takes them.

**What the proxy relays.**  `RelayInv` adds the client's framing (`Framed`: what is no header is `Junk`
or lies in the body of one, and no header is sent while a body is owed) and four parts about a
handler.  `Recorded`: what was relayed was read, in order, and within the framing is what the
client sent.  `Consumed`: a header that was read and not relayed is the one in hand.  `Sequenced`:
behind the last header that was relayed a handler reads on where what it dropped of the body ends
(`Resume`), and what it takes for a header is a request with `Text` alone in front.  `Aligned`: up
to the first body longer than the buffer that place is where the client began a header.  The
refinement rests on `Sequenced`, as `Behind` of `TunnelService` is `Resume`; the order of the
client's headers on `Aligned`, without which a handler could take a unit of a body for one.
`ProxyImplementsService` has one lemma for each kind of step of the service (`ServiceHears`,
`ServiceBegins`, `ServiceAnswers`, `ServiceRelays`, `ServiceEnds`) and one for the steps it does not
see (`ServiceHidden`).

**The partition.**  The invariant of `PartitionLoopProofs` says what the loops have done by three sets: the
Connection values that were `Scanned`, the names that were `Copied`, those that were `Erased`.
`Moved` gives both field sets in terms of them.  `OptionsRead` says that a name is
in `options` if and only if it was read at an element the parse has passed (`Past`), and `Parsing` that so
far no blank followed an option in the value at hand; at the end of a value what `Takes` accepted is then
`ParsedAt`.  No induction over sequences is needed: the steps of the loop are the induction.

What is copied takes a second invariant, `OutInv`.  `Filled` says that each field of `out_fields` is, at every
step, `Joined` of the pieces up to an `Index`, so a step that adds values has to move the index on by one.  That
the index is the number of pieces at the end is counting (`Counted`): `options` has as many entries of a name as there
are occurrences the parse has passed, and the copy has passed all entries.  The prover has no induction over
data, so that the recursive function `Joined` exists is shown by a least counterexample (`JoinedNext`, from
`LeastNumber`).  `SecondHopFindsNothing` follows from `RemainsComputed`: what is left has no Connection field, so there are no
occurrences and no pieces.

**Sessions.**  `SessionInv` says that a thread and a strand each run one thing (`Exclusive`), that
operations which overlap share one strand (`Compatible`), and of each
call that its log is a prefix of its steps without a failure but the last (`Logged`), that
its handler has, or is given, the outcome of that log (`Reported`), and that its coroutine is in one place
(`Placed`).  `SessionImplementsAsyncOp` is about safety; that calls complete is liveness.

**One client_session.**  `AnswersItsRequest` is about what has been stored.  What is under way
is described by `Current`: what was parsed, is in the buffer and is on the wire is the
beginning of the one response that is due, and the host has sent that much.  Once the host
has left, a failed read may leave a piece of a line behind; then (`Dead`) no header ever ends
on this connection (`NoEnd`), so no request succeeds.  A parser that refuses a response ends
`clean`, and with it what the invariant says of the connection.  `ClientTypes` needs `Bounded`: a
host is only asked on a connection that is there, and owes no answer before a request was made.
`FirstHostAnswers` adds `First`: before the first connection nothing was read, so that one is made
with an empty buffer, and it stays clean up to a request in `Choosy` (`Refused`).

**multi_stream.**  `OwnedOnce` needs `MovedFrom` (an object behind which there is another holds
nothing, so that its end closes nothing), `HoldsOwn` (an object holds its own connection or none) and
`Somewhere` (an open connection is held).  `MovedSslMisses` adds `RefersBack`: an SSL stream refers
to the socket it was made with, and that no longer holds a connection that was moved on.

**flat_stream.**  The properties say nothing of a write on its way.  `Counted` does: the buffers up to `prev` are in `size`
and fit, unless there is just a first one that alone reaches the limit; `Full` adds that the next does
not fit once the loop has ended, and `Written` that units on the wire beyond `done` are those the handler
is told of.  `Stopped` carries from the layer below to the caller why nothing was written: an empty buffer begins
where the rest does, and behind it is nothing or a buffer above the limit (`EmptyAhead`).

**Where the documented properties do hold.**  Five runs show that the code violates what docs,
comments and tests say (below).  For four of them a theorem gives a condition under which the property
holds for every instance: `FittingBodiesNeverParsed` (no body longer than the buffer),
`WellFormedFollowGrammar` (no blank element between two options) and, for both runs of
`ResponseIsTheHosts`, `FirstHostAnswers` (the session is not connected again, and no parser refuses
a well-formed response).  The fifth, `NonPersistentEnds`, is liveness.  Two documented properties have such
a theorem and no run, as what the code does instead is said by others: `RequestsForwardedWhole`
(`BodylessForwardedWhole`: it holds where there are no bodies; `tunnel()` never writes one) and `SuccessWritesSomething`
(`NonEmptyBuffersAdvance`: it holds without empty buffers before one above the limit;
`StoppedByEmptyOnly` is about the rest).

Only model-checked is liveness (`GoneClientIsReleased`, `EveryRequestServed`, `BacklogIsServed`,
`WrittenOrFailed`, `AnswerIsDelivered`, `RequestEnds`, `HandedOver`, the fair part of `PromiseKept`), which
needs `ENABLED` and is out of the prover's reach.  Every invariant that a passing run checks is a theorem.

## Disagreements between the code and what is said of it

* `proxy_persist`: "gracefully end the connection now" (`src/forward_proxy.cpp:77`).  After the
  refusal the code leaves `init()` with `ec` clear, `handle_request()` goes on to
  `tunnel()` and waits for another header.
* `proxy_overflow`: the proxy "should forward requests on behalf of the client"
  (`test/forward_proxy_test.cpp:20`).  The tail of a body longer than `buf` (`need_buffer`, cleared at
  `src/forward_proxy.cpp:177`) is where the next header is read: what looks like a header is
  relayed as a request, and what looks like the beginning of one spoils the next request.
* `partition_grammar`: the grammar quoted at `include/foxy/partition.hpp:39-46` allows empty elements
  anywhere; the rule stops at an empty element after an option.
* `client_session_reused`: `async_request` "writes a `http::request` to the remotely connected host and
  then uses the supplied `http::response_parser` to store the response"
  (`include/foxy/client_session.hpp:75-76`).  The buffer is not cleared by `async_connect`: when the first
  host left within a status line, the start of that line is parsed in front of the
  second host's response, and what is stored is neither's.
* `client_session_refused`: the same sentence.  When the read ends in an error of the parser the
  connection stays up (`include/foxy/impl/client_session.impl.hpp:162`), and the next request is
  given what is left of the earlier one's response, or all of it.

## What is not modelled

* `ssl_stream` but for its construction, moves and the forwarding of reads and writes; the
  state of an OpenSSL object, and so what a second handshake of one session does; the
  bytes of an SSL session.
* Reads and teardown of `flat_stream`, which forward to the next layer.
* Timeouts: the timer of `session_state` is never armed.
* The sizes of socket buffers (a peer stalls by choice), and the limits of the parsers of
  *requests* in the proxy, which add ways for a read to fail.
* The path of an exception that `shutdown()` may throw (`src/forward_proxy.cpp:214`): the coroutine
  is detached, so the exception goes nowhere, and unwinding `handle_request()` destroys both
  sessions as its return does.  Both ways are the step `Release`.
* `server_session` beyond its construction: its operations are those of `session`.
* The text of responses, the grammar of targets, letters and case of field names, logging,
  coroutine aliases and type traits, which have no state.
* The remote host's responses to the proxy: none of its code reads them.
