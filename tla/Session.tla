------------------------------ MODULE Session ------------------------------
(***************************************************************************)
(* The asynchronous operations of foxy::detail::session and                *)
(* foxy::client_session (include/foxy/impl/session.impl.hpp,               *)
(* client_session.impl.hpp) on the threads that run the io_context.        *)
(*                                                                         *)
(* Every operation has the same frame: a coroutine that shares ownership   *)
(* of the session_state is spawned on a strand; it awaits the steps of the *)
(* operation one after the other, returning early from the first that      *)
(* fails; it posts the completion handler to the handler's own executor    *)
(* and returns.  A coroutine occupies a thread, and its strand, from where *)
(* it is resumed to where it awaits again or returns, and what it does     *)
(* meanwhile interleaves with what the other threads do.                   *)
(*                                                                         *)
(* The caller's part: a session is used as the Beast and Asio streams it   *)
(* wraps ask for.  Operations overlap only if their handlers share a       *)
(* strand and they use different directions of the stream.                 *)
(***************************************************************************)
EXTENDS Naturals, Sequences, FiniteSets

CONSTANTS
  Ops,      \* calls made on the session
  Threads,  \* threads that run the io_context
  Strands,  \* strands completion handlers may be bound to
  Plain,    \* the executor of a handler bound to no strand
  Idle,     \* a thread that runs nothing
  User,     \* the owner of the session objects
  Ssl       \* whether the session was constructed with an SSL context

ASSUME SessionAssumption == /\ Plain \notin Strands
                            /\ Ops \cap Strands = {}
                            /\ User \notin Ops
                            /\ Idle \notin [runs : {"coroutine", "handler"}, op : Ops]
                            /\ Ssl \in BOOLEAN

-----------------------------------------------------------------------------
(***************************************************************************)
(* The steps of each operation.  All but "sni", a call of OpenSSL, are     *)
(* awaited.                                                                *)
(***************************************************************************)
ConnectSteps     == IF Ssl THEN <<"sni", "resolve", "connect", "handshake">>
                    ELSE <<"resolve", "connect">>
RequestSteps     == <<"write", "read">>
SslShutdownSteps == <<"ssl_shutdown">>
WriteHeaderSteps == <<"write_header">>
WriteSteps       == <<"write">>
ReadHeaderSteps  == <<"read_header">>
ReadSteps        == <<"read">>

Steps == [connect      |-> ConnectSteps,
          request      |-> RequestSteps,
          ssl_shutdown |-> SslShutdownSteps,
          write_header |-> WriteHeaderSteps,
          write        |-> WriteSteps,
          read_header  |-> ReadHeaderSteps,
          read         |-> ReadSteps]

\* async_ssl_shutdown is not for a session without an SSL context.
Kinds == DOMAIN Steps \ (IF Ssl THEN {} ELSE {"ssl_shutdown"})

StepNames == {"sni", "resolve", "connect", "handshake", "write", "read",
              "ssl_shutdown", "write_header", "read_header"}

\* What a handler is called with: no error, or the step the error is from.
Success == "success"
Outcomes == StepNames \cup {Success}

\* The directions of the stream an operation uses.
Directions(k) ==
  (IF k \in {"write_header", "write"} THEN {} ELSE {"in"})
    \cup (IF k \in {"read_header", "read"} THEN {} ELSE {"out"})

-----------------------------------------------------------------------------
VARIABLES
  kind,      \* which operation a call is
  executor,  \* the executor associated with its handler
  frame,     \* its coroutine: "none", "ready" to be resumed, "awaiting",
             \* "running", "returning" past its last co_await, or "gone"
  log,       \* the steps it has completed, and whether they succeeded
  posted,    \* the completions posted and not yet run
  called,    \* the completions run: what the handler was called with
  thread,    \* what a thread runs
  owners     \* who holds a shared_ptr to the session_state

vars == <<kind, executor, frame, log, posted, called, thread, owners>>

Init ==
  /\ kind     = [o \in Ops |-> "none"]
  /\ executor = [o \in Ops |-> Plain]
  /\ frame    = [o \in Ops |-> "none"]
  /\ log      = [o \in Ops |-> <<>>]
  /\ posted   = [o \in Ops |-> <<>>]
  /\ called   = [o \in Ops |-> <<>>]
  /\ thread   = [t \in Threads |-> Idle]
  /\ owners   = {User}

Coroutine(o) == [runs |-> "coroutine", op |-> o]
Handler(o)   == [runs |-> "handler", op |-> o]

\* The bug of a new strand even where the handler has one.
FreshStrand(o) == o

\* get_strand(): the handler's strand, or a new one for this operation only.
StrandOf(o) == IF executor[o] \in Strands THEN executor[o] ELSE o

\* The strands that a thread holds while it runs w.
Holds(w) ==
  IF w = Idle THEN {}
  ELSE IF w.runs = "coroutine" THEN {StrandOf(w.op)} ELSE {executor[w.op]} \cap Strands

Free(strand) == \A t \in Threads : strand \notin Holds(thread[t])

\* The last step failed: `if (ec)`.
Failed(o) == log[o] # <<>> /\ ~log[o][Len(log[o])].ok

\* The bug of leaving out the early return.
AllStepsTaken(o) == Len(log[o]) = Len(Steps[kind[o]])

\* No step is left to be taken.
Finished(o) == Failed(o) \/ Len(log[o]) = Len(Steps[kind[o]])

NextStep(o) == Steps[kind[o]][Len(log[o]) + 1]

-----------------------------------------------------------------------------
\* Calls whose handler the caller still waits for.
Outstanding(o) == frame[o] # "none" /\ called[o] = <<>>

\* The caller's part.
MayCall(o, k, e) ==
  /\ User \in owners
  /\ frame[o] = "none"
  /\ \A p \in Ops : Outstanding(p) =>
       /\ executor[p] = e /\ e # Plain
       /\ Directions(kind[p]) \cap Directions(k) = {}

\* The bug of a coroutine that captures a reference where it needs `s = s_`.
InitiateUnowned(o, k, e) ==
  /\ MayCall(o, k, e)
  /\ kind' = [kind EXCEPT ![o] = k]
  /\ executor' = [executor EXCEPT ![o] = e]
  /\ frame' = [frame EXCEPT ![o] = "ready"]
  /\ UNCHANGED <<log, posted, called, thread, owners>>

\* The user calls an operation: its coroutine is spawned.
Initiate(o, k, e) ==
  /\ MayCall(o, k, e)
  /\ kind' = [kind EXCEPT ![o] = k]
  /\ executor' = [executor EXCEPT ![o] = e]
  /\ frame' = [frame EXCEPT ![o] = "ready"]
  /\ owners' = owners \cup {o}
  /\ UNCHANGED <<log, posted, called, thread>>

\* The user destroys the session objects, whatever is outstanding.
UserLetsGo ==
  /\ User \in owners
  /\ owners' = owners \ {User}
  /\ UNCHANGED <<kind, executor, frame, log, posted, called, thread>>

\* A thread resumes a coroutine, on its strand.
Resume(t, o) ==
  /\ thread[t] = Idle
  /\ frame[o] = "ready"
  /\ Free(StrandOf(o))
  /\ frame' = [frame EXCEPT ![o] = "running"]
  /\ thread' = [thread EXCEPT ![t] = Coroutine(o)]
  /\ UNCHANGED <<kind, executor, log, posted, called, owners>>

\* It calls SSL_set_tlsext_host_name, which does not suspend it.
SetHostName(t, o) ==
  /\ thread[t] = Coroutine(o) /\ frame[o] = "running"
  /\ ~Finished(o) /\ NextStep(o) = "sni"
  /\ \E ok \in BOOLEAN : log' = [log EXCEPT ![o] = Append(@, [step |-> "sni", ok |-> ok])]
  /\ UNCHANGED <<kind, executor, frame, posted, called, thread, owners>>

\* The bug of waiting for the step on the thread.
AwaitOnThread(t, o) ==
  /\ thread[t] = Coroutine(o) /\ frame[o] = "running"
  /\ ~Finished(o) /\ NextStep(o) # "sni"
  /\ frame' = [frame EXCEPT ![o] = "awaiting"]
  /\ UNCHANGED <<kind, executor, log, posted, called, thread, owners>>

\* It initiates a step, awaits it and leaves the thread and the strand.
Await(t, o) ==
  /\ thread[t] = Coroutine(o) /\ frame[o] = "running"
  /\ ~Finished(o) /\ NextStep(o) # "sni"
  /\ frame' = [frame EXCEPT ![o] = "awaiting"]
  /\ thread' = [thread EXCEPT ![t] = Idle]
  /\ UNCHANGED <<kind, executor, log, posted, called, owners>>

\* The step completes, and the coroutine is queued on its strand.
StepCompletes(o) ==
  /\ frame[o] = "awaiting"
  /\ frame' = [frame EXCEPT ![o] = "ready"]
  /\ \E ok \in BOOLEAN :
       log' = [log EXCEPT ![o] = Append(@, [step |-> NextStep(o), ok |-> ok])]
  /\ UNCHANGED <<kind, executor, posted, called, thread, owners>>

\* The bug of a post without a co_return: the coroutine comes to another one.
PostAndGoOn(t, o) ==
  /\ thread[t] = Coroutine(o) /\ frame[o] = "running"
  /\ Finished(o)
  /\ posted' = [posted EXCEPT ![o] =
       Append(@, IF Failed(o) THEN log[o][Len(log[o])].step ELSE Success)]
  /\ frame' = [frame EXCEPT ![o] = IF Len(posted[o]) = 0 THEN "running" ELSE "returning"]
  /\ UNCHANGED <<kind, executor, log, called, thread, owners>>

\* `co_return asio::post(executor, bind_handler(handler, ec))`: the coroutine
\* has no use of the stream from here on, but it is not destroyed yet.
Post(t, o) ==
  /\ thread[t] = Coroutine(o) /\ frame[o] = "running"
  /\ Finished(o)
  /\ posted' = [posted EXCEPT ![o] =
       Append(@, IF Failed(o) THEN log[o][Len(log[o])].step ELSE Success)]
  /\ frame' = [frame EXCEPT ![o] = "returning"]
  /\ UNCHANGED <<kind, executor, log, called, thread, owners>>

\* The coroutine is destroyed, and with it its share of the session_state.
CoReturn(t, o) ==
  /\ thread[t] = Coroutine(o) /\ frame[o] = "returning"
  /\ frame' = [frame EXCEPT ![o] = "gone"]
  /\ thread' = [thread EXCEPT ![t] = Idle]
  /\ owners' = owners \ {o}
  /\ UNCHANGED <<kind, executor, log, posted, called>>

\* A thread runs the completion handler, on its strand if it has one.
Call(t, o) ==
  /\ thread[t] = Idle
  /\ posted[o] # <<>>
  /\ executor[o] \in Strands => Free(executor[o])
  /\ posted' = [posted EXCEPT ![o] = Tail(@)]
  /\ called' = [called EXCEPT ![o] = Append(@, Head(posted[o]))]
  /\ thread' = [thread EXCEPT ![t] = Handler(o)]
  /\ UNCHANGED <<kind, executor, frame, log, owners>>

HandlerReturns(t, o) ==
  /\ thread[t] = Handler(o)
  /\ thread' = [thread EXCEPT ![t] = Idle]
  /\ UNCHANGED <<kind, executor, frame, log, posted, called, owners>>

\* What the threads do for a call.
Runs(o) ==
  \E t \in Threads :
    \/ Resume(t, o) \/ SetHostName(t, o) \/ Await(t, o)
    \/ Post(t, o) \/ CoReturn(t, o)
    \/ Call(t, o) \/ HandlerReturns(t, o)

Next ==
  \/ UserLetsGo
  \/ \E o \in Ops :
       \/ \E k \in Kinds, e \in Strands \cup {Plain} : Initiate(o, k, e)
       \/ StepCompletes(o)
       \/ Runs(o)

Spec == Init /\ [][Next]_vars

\* The threads run what is queued; the host, the network and the peer answer in
\* some way: the sessions have no timer running that would answer for them.
Fairness == \A o \in Ops : WF_vars(Runs(o)) /\ WF_vars(StepCompletes(o))

FairSpec == Spec /\ Fairness

-----------------------------------------------------------------------------
TypeOK ==
  /\ kind \in [Ops -> Kinds \cup {"none"}]
  /\ executor \in [Ops -> Strands \cup {Plain}]
  /\ frame \in [Ops -> {"none", "ready", "awaiting", "running", "returning", "gone"}]
  /\ log \in [Ops -> Seq([step : StepNames, ok : BOOLEAN])]
  /\ posted \in [Ops -> Seq(Outcomes)]
  /\ called \in [Ops -> Seq(Outcomes)]
  /\ thread \in [Threads -> {Idle} \cup [runs : {"coroutine", "handler"}, op : Ops]]
  /\ owners \subseteq Ops \cup {User}
  /\ \A o \in Ops : frame[o] \in {"running", "returning"}
                    <=> \E t \in Threads : thread[t] = Coroutine(o)

\* All that was posted for a call, run or not.
Completions(o) == called[o] \o posted[o]

(***************************************************************************)
(* What a handler is told is what happened: the steps were taken in order, *)
(* none after one that failed; it is told of success only if all of them   *)
(* succeeded (for SSL, the handshake too) and else of the one that failed. *)
(***************************************************************************)
FaithfulOutcome ==
  \A o \in Ops :
    /\ \A i \in DOMAIN log[o] : /\ log[o][i].step = Steps[kind[o]][i]
                                /\ log[o][i].ok \/ i = Len(log[o])
    /\ \A i \in DOMAIN Completions(o) :
         IF Completions(o)[i] = Success
         THEN Len(log[o]) = Len(Steps[kind[o]]) /\ ~Failed(o)
         ELSE Failed(o) /\ Completions(o)[i] = log[o][Len(log[o])].step

\* A thread is in code of a coroutine that may touch the stream or the buffer.
Touches(t) == \E o \in Ops : thread[t] = Coroutine(o) /\ frame[o] = "running"

(***************************************************************************)
(* No two threads touch the stream and the buffer of a session at once,    *)
(* though operations without a strand in common get a new one each, and a  *)
(* handler may start the next operation before the coroutine that posted   *)
(* it has returned.                                                        *)
(***************************************************************************)
StreamNotShared ==
  \A t, u \in Threads : Touches(t) /\ Touches(u) => t = u

(***************************************************************************)
(* The session_state outlives every operation on it: the user may destroy  *)
(* the session objects while operations are outstanding.                   *)
(***************************************************************************)
StateOutlivesOperations ==
  owners = {} => \A o \in Ops : frame[o] \in {"none", "gone"}

(***************************************************************************)
(* Each operation keeps the promise of AsyncOp: initiated, it completes    *)
(* exactly once, and its handler is not called before it was initiated.    *)
(***************************************************************************)
Promise == INSTANCE AsyncOp WITH
  phase   <- [o \in Ops |-> IF frame[o] = "none" THEN "idle"
                            ELSE IF called[o] = <<>> THEN "pending" ELSE "completed"],
  outcome <- called

PromiseKept == Promise!Spec
=============================================================================
