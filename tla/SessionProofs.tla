--------------------------- MODULE SessionProofs ---------------------------
(***************************************************************************)
(* Theorems about Session, for any number of calls, threads and strands,   *)
(* with and without SSL.                                                   *)
(***************************************************************************)
EXTENDS Session, TLAPS

-----------------------------------------------------------------------------
(***************************************************************************)
(* Lemmas about the operators.                                             *)
(***************************************************************************)

\* Appending keeps the type of a sequence and lengthens it by one.
LEMMA Appended ==
  ASSUME NEW S, NEW s \in Seq(S), NEW e \in S
  PROVE  /\ Append(s, e) \in Seq(S)
         /\ Len(Append(s, e)) = Len(s) + 1
         /\ Len(s) \in Nat
         /\ \A i \in 1..Len(s) : Append(s, e)[i] = s[i]
         /\ Append(s, e)[Len(s) + 1] = e
OBVIOUS

\* The elements and the length of a sequence.
LEMMA Element ==
  ASSUME NEW S, NEW s \in Seq(S), NEW i \in 1..Len(s) PROVE s[i] \in S
OBVIOUS

LEMMA SeqLen == ASSUME NEW S, NEW s \in Seq(S) PROVE Len(s) \in Nat
OBVIOUS

\* A sequence of one element, and what Head and Tail make of it.
LEMMA Singleton ==
  ASSUME NEW S, NEW e \in S
  PROVE  /\ Append(<<>>, e) = <<e>>
         /\ <<e>> # <<>> /\ Head(<<e>>) = e /\ Tail(<<e>>) = <<>>
         /\ <<>> \o <<e>> = <<e>> /\ <<e>> \o <<>> = <<e>>
         /\ <<e>> \in Seq(S)
OBVIOUS

\* The steps of an operation have names, none of which is that of success.
LEMMA StepsType ==
  ASSUME NEW k \in Kinds
  PROVE  /\ Steps[k] \in Seq(StepNames)
         /\ Len(Steps[k]) \in Nat
         /\ \A i \in 1..Len(Steps[k]) : Steps[k][i] \in StepNames
         /\ Success \notin StepNames
<1> USE SessionAssumption
<1>1. k \in {"connect", "request", "ssl_shutdown", "write_header", "write",
             "read_header", "read"}
  BY DEF Kinds, Steps
<1>2. Steps[k] \in Seq(StepNames)
  <2>1. ConnectSteps \in Seq(StepNames)
    <3>1. CASE Ssl
      BY <3>1 DEF ConnectSteps, StepNames
    <3>2. CASE ~Ssl
      BY <3>2 DEF ConnectSteps, StepNames
    <3> QED
      BY <3>1, <3>2
  <2>2. /\ RequestSteps \in Seq(StepNames) /\ SslShutdownSteps \in Seq(StepNames)
        /\ WriteHeaderSteps \in Seq(StepNames) /\ WriteSteps \in Seq(StepNames)
        /\ ReadHeaderSteps \in Seq(StepNames) /\ ReadSteps \in Seq(StepNames)
    BY DEF RequestSteps, SslShutdownSteps, WriteHeaderSteps, WriteSteps,
           ReadHeaderSteps, ReadSteps, StepNames
  <2>3. CASE k = "connect"
    <3>1. Steps["connect"] = ConnectSteps
      BY DEF Steps
    <3> QED
      BY <2>1, <2>3, <3>1
  <2>4. CASE k \in {"request", "ssl_shutdown", "write_header"}
    BY <2>2, <2>4 DEF Steps
  <2>5. CASE k \in {"write", "read_header", "read"}
    BY <2>2, <2>5 DEF Steps
  <2> QED
    BY <1>1, <2>3, <2>4, <2>5
<1>3. Success \notin StepNames
  BY DEF Success, StepNames
<1> QED
  BY <1>2, <1>3

-----------------------------------------------------------------------------
(***************************************************************************)
(* The inductive invariant.  A strand is held by one thread; the calls     *)
(* that overlap share theirs; and each call is where its coroutine's place *)
(* says: what it has logged, posted and completed, and what it owns.       *)
(***************************************************************************)
Exclusive ==
  \A t, u \in Threads : t # u => Holds(thread[t]) \cap Holds(thread[u]) = {}

Compatible ==
  \A o, p \in Ops : o # p /\ Outstanding(o) /\ Outstanding(p) =>
    executor[o] = executor[p] /\ executor[o] \in Strands

\* What the coroutine posts.
Outcome(o) == IF Failed(o) THEN log[o][Len(log[o])].step ELSE Success

\* The steps a call has logged.
Logged(o) ==
  /\ frame[o] = "none" => log[o] = <<>>
  /\ frame[o] # "none" => kind[o] \in Kinds /\ Len(log[o]) <= Len(Steps[kind[o]])
  /\ \A i \in 1..Len(log[o]) : /\ log[o][i].step = Steps[kind[o]][i]
                               /\ log[o][i].ok \/ i = Len(log[o])
  /\ frame[o] = "awaiting" => ~Finished(o)
  /\ frame[o] \in {"returning", "gone"} => Finished(o)

\* The one completion of a call.
Reported(o) ==
  /\ frame[o] \in {"none", "ready", "awaiting", "running"} =>
       posted[o] = <<>> /\ called[o] = <<>>
  /\ frame[o] \in {"returning", "gone"} =>
       \/ posted[o] = <<Outcome(o)>> /\ called[o] = <<>>
       \/ posted[o] = <<>> /\ called[o] = <<Outcome(o)>>

\* A thread runs what was initiated, and a live coroutine owns the state.
Placed(o) ==
  /\ frame[o] = "none" => \A t \in Threads : thread[t] # Idle => thread[t].op # o
  /\ frame[o] \notin {"none", "gone"} => o \in owners

CallInv == \A o \in Ops : Logged(o) /\ Reported(o) /\ Placed(o)

SessionInv == TypeOK /\ Exclusive /\ Compatible /\ CallInv

LEMMA SessionInit == Init => SessionInv
<1> SUFFICES ASSUME Init PROVE SessionInv
  OBVIOUS
<1> USE SessionAssumption
<1>1. TypeOK
  BY DEF Init, TypeOK, Coroutine
<1>2. Exclusive
  BY DEF Init, Exclusive, Holds
<1>3. Compatible
  BY DEF Init, Compatible, Outstanding
<1>4. ASSUME NEW o \in Ops PROVE Logged(o) /\ Reported(o) /\ Placed(o)
  <2>1. /\ log[o] = <<>> /\ frame[o] = "none" /\ posted[o] = <<>> /\ called[o] = <<>>
        /\ \A t \in Threads : thread[t] = Idle
    BY DEF Init
  <2>2. Len(log[o]) = 0
    BY <2>1
  <2> QED
    BY <2>1, <2>2 DEF Logged, Reported, Placed
<1> QED
  BY <1>1, <1>2, <1>3, <1>4 DEF SessionInv, CallInv
-----------------------------------------------------------------------------
(***************************************************************************)
(* What a step leaves alone.                                               *)
(***************************************************************************)

\* What a thread runs, and what it holds meanwhile.
LEMMA Tasks ==
  ASSUME NEW o \in Ops
  PROVE  /\ Coroutine(o) \in [runs : {"coroutine", "handler"}, op : Ops]
         /\ Handler(o) \in [runs : {"coroutine", "handler"}, op : Ops]
         /\ Coroutine(o) # Idle /\ Handler(o) # Idle
         /\ Coroutine(o).op = o /\ Handler(o).op = o
         /\ \A p \in Ops : /\ Coroutine(o) = Coroutine(p) => o = p
                           /\ Handler(o) # Coroutine(p)
         /\ Holds(Coroutine(o)) = {StrandOf(o)}
         /\ Holds(Handler(o)) = {executor[o]} \cap Strands
         /\ Holds(Idle) = {}
BY SessionAssumption DEF Coroutine, Handler, Holds

\* A coroutine runs on one thread.
LEMMA OneThread ==
  ASSUME Exclusive, NEW t \in Threads, NEW u \in Threads, NEW o \in Ops,
         thread[t] = Coroutine(o), thread[u] = Coroutine(o)
  PROVE  t = u
BY Tasks DEF Exclusive

LEMMA LoggedFrame ==
  ASSUME NEW o \in Ops, Logged(o), kind'[o] = kind[o], frame'[o] = frame[o],
         log'[o] = log[o]
  PROVE  Logged(o)'
BY DEF Logged, Finished, Failed

LEMMA ReportedFrame ==
  ASSUME NEW o \in Ops, Reported(o), frame'[o] = frame[o], log'[o] = log[o],
         posted'[o] = posted[o], called'[o] = called[o]
  PROVE  Reported(o)'
BY DEF Reported, Outcome, Failed

\* One thread changes what it runs, to something of a call that was initiated.
LEMMA PlacedFrame ==
  ASSUME NEW p \in Ops, Placed(p), NEW t \in Threads, NEW w,
         thread \in [Threads -> {Idle} \cup [runs : {"coroutine", "handler"}, op : Ops]],
         thread' = [thread EXCEPT ![t] = w], w # Idle => w.op # p \/ frame'[p] # "none",
         frame'[p] = "none" => frame[p] = "none",
         frame'[p] \notin {"none", "gone"} => p \in owners'
  PROVE  Placed(p)'
BY DEF Placed

\* It takes hold of nothing that another thread holds.
LEMMA ExclusiveFrame ==
  ASSUME Exclusive, UNCHANGED executor, NEW t \in Threads, NEW w,
         thread \in [Threads -> {Idle} \cup [runs : {"coroutine", "handler"}, op : Ops]],
         thread' = [thread EXCEPT ![t] = w],
         \A u \in Threads : u # t => Holds(w) \cap Holds(thread[u]) = {}
  PROVE  Exclusive'
BY DEF Exclusive, Holds, StrandOf

LEMMA CompatibleFrame ==
  ASSUME Compatible, UNCHANGED executor,
         \A o \in Ops : Outstanding(o)' => Outstanding(o)
  PROVE  Compatible'
BY DEF Compatible
-----------------------------------------------------------------------------
(***************************************************************************)
(* Every step preserves the invariant.                                     *)
(***************************************************************************)
LEMMA InitiatePreserves ==
  ASSUME SessionInv, NEW o \in Ops, NEW k \in Kinds, NEW e \in Strands \cup {Plain},
         Initiate(o, k, e)
  PROVE  SessionInv'
<1> USE DEF SessionInv
<1>1. /\ frame[o] = "none" /\ frame'[o] = "ready"
      /\ kind'[o] = k /\ executor'[o] = e /\ owners' = owners \cup {o}
      /\ \A p \in Ops \ {o} : /\ frame'[p] = frame[p] /\ kind'[p] = kind[p]
                              /\ executor'[p] = executor[p]
      /\ UNCHANGED <<log, posted, called, thread>>
      /\ \A p \in Ops : Outstanding(p) =>
           executor[p] = e /\ e # Plain
  BY DEF Initiate, MayCall, TypeOK
<1>2. log[o] = <<>> /\ Len(log[o]) = 0 /\ posted[o] = <<>> /\ called[o] = <<>>
      /\ \A t \in Threads : thread[t] # Idle => thread[t].op # o
  BY <1>1 DEF CallInv, Logged, Reported, Placed
<1>3. TypeOK'
  <2>1. /\ kind' \in [Ops -> Kinds \cup {"none"}]
        /\ executor' \in [Ops -> Strands \cup {Plain}]
        /\ frame' \in [Ops -> {"none", "ready", "awaiting", "running", "returning", "gone"}]
        /\ owners' \subseteq Ops \cup {User}
    BY DEF Initiate, TypeOK
  <2>2. \A p \in Ops : frame'[p] \in {"running", "returning"}
                         <=> \E t \in Threads : thread'[t] = Coroutine(p)
    BY <1>1, <1>2, Tasks DEF TypeOK
  <2> QED
    BY <1>1, <2>1, <2>2 DEF TypeOK
<1>4. Exclusive'
  <2>1. \A t \in Threads : Holds(thread[t])' = Holds(thread[t])
    BY <1>1, <1>2 DEF Holds, StrandOf, TypeOK
  <2> QED
    BY <2>1 DEF Exclusive
<1>5. Compatible'
  BY <1>1 DEF Compatible, Outstanding
<1>6. ASSUME NEW p \in Ops PROVE Logged(p)' /\ Reported(p)' /\ Placed(p)'
  <2>1. CASE p = o
    <3>1. Len(Steps[k]) \in Nat
      BY StepsType
    <3>2. Logged(o)'
      BY <1>1, <1>2, <3>1 DEF Logged
    <3> QED
      BY <1>1, <1>2, <2>1, <3>2 DEF Reported, Placed
  <2>2. CASE p # o
    <3>1. Logged(p)' /\ Reported(p)'
      BY <1>1, <2>2, LoggedFrame, ReportedFrame DEF CallInv
    <3>2. Placed(p)'
      BY <1>1, <2>2 DEF CallInv, Placed
    <3> QED
      BY <3>1, <3>2
  <2> QED
    BY <2>1, <2>2
<1> QED
  BY <1>3, <1>4, <1>5, <1>6 DEF CallInv

\* A thread resumes a coroutine, or the coroutine awaits and leaves it.
LEMMA ThreadPreserves ==
  ASSUME SessionInv, NEW t \in Threads, NEW o \in Ops, Resume(t, o) \/ Await(t, o)
  PROVE  SessionInv'
<1> USE DEF SessionInv
<1>1. /\ UNCHANGED <<kind, executor, log, posted, called, owners>>
      /\ \A p \in Ops \ {o} : frame'[p] = frame[p]
      /\ thread \in [Threads -> {Idle} \cup [runs : {"coroutine", "handler"}, op : Ops]]
  BY DEF Resume, Await, TypeOK
<1>2. CASE Resume(t, o)
  <2>1. /\ frame[o] = "ready" /\ frame'[o] = "running" /\ thread[t] = Idle
        /\ thread' = [thread EXCEPT ![t] = Coroutine(o)]
        /\ Free(StrandOf(o))
    BY <1>2 DEF Resume, TypeOK
  <2>2. TypeOK'
    <3>1. thread' \in [Threads -> {Idle} \cup [runs : {"coroutine", "handler"}, op : Ops]]
      BY <1>1, <2>1, Tasks
    <3>2. frame' \in [Ops -> {"none", "ready", "awaiting", "running", "returning", "gone"}]
      BY <1>2 DEF Resume, TypeOK
    <3>3. \A p \in Ops : frame'[p] \in {"running", "returning"}
                           <=> \E u \in Threads : thread'[u] = Coroutine(p)
      BY <1>1, <2>1, Tasks DEF TypeOK
    <3> QED
      BY <1>1, <3>1, <3>2, <3>3 DEF TypeOK
  <2>3. Exclusive'
    <3>1. \A u \in Threads : Holds(Coroutine(o)) \cap Holds(thread[u]) = {}
      BY <2>1, Tasks DEF Free
    <3> QED
      BY <1>1, <2>1, <3>1, ExclusiveFrame
  <2>4. Compatible'
    BY <1>1, <2>1, CompatibleFrame DEF Outstanding
  <2>5. ASSUME NEW p \in Ops PROVE Logged(p)' /\ Reported(p)' /\ Placed(p)'
    <3>1. CASE p = o
      <4>1. Logged(o)'
        BY <1>1, <2>1 DEF CallInv, Logged, Finished, Failed
      <4>2. Reported(o)'
        BY <1>1, <2>1 DEF CallInv, Reported
      <4>3. Placed(o)'
        BY <1>1, <2>1, Tasks DEF CallInv, Placed
      <4> QED
        BY <3>1, <4>1, <4>2, <4>3
    <3>2. CASE p # o
      <4>1. Placed(p)'
        BY <1>1, <2>1, <3>2, Tasks, PlacedFrame DEF CallInv, Placed
      <4> QED
        BY <1>1, <3>2, <4>1, LoggedFrame, ReportedFrame DEF CallInv
    <3> QED
      BY <3>1, <3>2
  <2> QED
    BY <2>2, <2>3, <2>4, <2>5 DEF CallInv
<1>3. CASE Await(t, o)
  <2>1. /\ frame[o] = "running" /\ frame'[o] = "awaiting" /\ thread[t] = Coroutine(o)
        /\ thread' = [thread EXCEPT ![t] = Idle]
        /\ ~Finished(o)
    BY <1>3 DEF Await, TypeOK
  <2>2. TypeOK'
    <3>1. thread' \in [Threads -> {Idle} \cup [runs : {"coroutine", "handler"}, op : Ops]]
      BY <1>1, <2>1
    <3>2. frame' \in [Ops -> {"none", "ready", "awaiting", "running", "returning", "gone"}]
      BY <1>3 DEF Await, TypeOK
    <3>3. \A p \in Ops : frame'[p] \in {"running", "returning"}
                           <=> \E u \in Threads : thread'[u] = Coroutine(p)
      <4>1. \A u \in Threads \ {t} : thread'[u] = thread[u] /\ thread[u] # Coroutine(o)
        BY <1>1, <2>1, OneThread
      <4>2. thread'[t] = Idle
        BY <1>1, <2>1
      <4>3. \A u \in Threads : thread'[u] # Coroutine(o)
        BY <4>1, <4>2, Tasks
      <4>4. ASSUME NEW p \in Ops, p # o
            PROVE  \A u \in Threads : thread'[u] = Coroutine(p) <=> thread[u] = Coroutine(p)
        BY <2>1, <4>1, <4>2, <4>4, Tasks
      <4>5. ASSUME NEW p \in Ops, p # o
            PROVE  frame'[p] \in {"running", "returning"}
                     <=> \E u \in Threads : thread'[u] = Coroutine(p)
        BY <1>1, <4>4, <4>5 DEF TypeOK
      <4> QED
        BY <2>1, <4>3, <4>5
    <3> QED
      BY <1>1, <3>1, <3>2, <3>3 DEF TypeOK
  <2>3. Exclusive'
    <3>1. Holds(Idle) = {}
      BY Tasks
    <3> QED
      BY <1>1, <2>1, <3>1, ExclusiveFrame
  <2>4. Compatible'
    BY <1>1, <2>1, CompatibleFrame DEF Outstanding
  <2>5. ASSUME NEW p \in Ops PROVE Logged(p)' /\ Reported(p)' /\ Placed(p)'
    <3>1. CASE p = o
      <4>1. Logged(o)'
        BY <1>1, <2>1 DEF CallInv, Logged, Finished, Failed
      <4>2. Reported(o)'
        BY <1>1, <2>1 DEF CallInv, Reported
      <4>3. Placed(o)'
        BY <1>1, <2>1 DEF CallInv, Placed
      <4> QED
        BY <3>1, <4>1, <4>2, <4>3
    <3>2. CASE p # o
      <4>1. Placed(p)'
        BY <1>1, <2>1, <3>2, PlacedFrame DEF CallInv, Placed
      <4> QED
        BY <1>1, <3>2, <4>1, LoggedFrame, ReportedFrame DEF CallInv
    <3> QED
      BY <3>1, <3>2
  <2> QED
    BY <2>2, <2>3, <2>4, <2>5 DEF CallInv
<1> QED
  BY <1>2, <1>3
\* A coroutine runs a step of OpenSSL, or a step it awaits completes.
LEMMA StepPreserves ==
  ASSUME SessionInv, NEW o \in Ops,
         StepCompletes(o) \/ \E t \in Threads : SetHostName(t, o)
  PROVE  SessionInv'
<1> USE DEF SessionInv
<1>1. /\ UNCHANGED <<kind, executor, posted, called, thread, owners>>
      /\ \A p \in Ops \ {o} : frame'[p] = frame[p] /\ log'[p] = log[p]
      /\ \/ frame[o] = "awaiting" /\ frame'[o] = "ready"
         \/ frame[o] = "running" /\ frame'[o] = "running"
      /\ \E ok \in BOOLEAN : log' = [log EXCEPT ![o] = Append(@, [step |-> NextStep(o), ok |-> ok])]
      /\ frame' \in [Ops -> {"none", "ready", "awaiting", "running", "returning", "gone"}]
  BY DEF StepCompletes, SetHostName, TypeOK
<1>2. ~Finished(o)
  BY DEF StepCompletes, SetHostName, CallInv, Logged
<1>3. /\ log[o] \in Seq([step : StepNames, ok : BOOLEAN]) /\ Len(log[o]) \in Nat
      /\ log \in [Ops -> Seq([step : StepNames, ok : BOOLEAN])]
  <2>1. /\ log \in [Ops -> Seq([step : StepNames, ok : BOOLEAN])]
        /\ log[o] \in Seq([step : StepNames, ok : BOOLEAN])
    BY DEF TypeOK
  <2> QED
    BY <2>1, SeqLen
<1>4. /\ kind[o] \in Kinds /\ Len(log[o]) <= Len(Steps[kind[o]])
      /\ \A i \in 1..Len(log[o]) : /\ log[o][i].step = Steps[kind[o]][i]
                                   /\ log[o][i].ok \/ i = Len(log[o])
  BY <1>1 DEF CallInv, Logged
<1>5. Len(log[o]) + 1 \in 1..Len(Steps[kind[o]]) /\ Len(Steps[kind[o]]) \in Nat
  BY <1>2, <1>3, <1>4, StepsType DEF Finished
<1>6. NextStep(o) \in StepNames
  BY <1>4, <1>5, StepsType DEF NextStep
<1>7. PICK ok \in BOOLEAN :
        log' = [log EXCEPT ![o] = Append(@, [step |-> NextStep(o), ok |-> ok])]
  BY <1>1
<1> DEFINE entry == [step |-> NextStep(o), ok |-> ok]
<1>8. entry \in [step : StepNames, ok : BOOLEAN] /\ entry.step = NextStep(o)
  BY <1>6
<1>9. /\ log'[o] = Append(log[o], entry)
      /\ log'[o] \in Seq([step : StepNames, ok : BOOLEAN])
      /\ Len(log'[o]) = Len(log[o]) + 1
      /\ \A i \in 1..Len(log[o]) : log'[o][i] = log[o][i]
      /\ log'[o][Len(log[o]) + 1] = entry
  BY <1>3, <1>7, <1>8, Appended
<1> HIDE DEF entry
<1>10. TypeOK'
  <2>1. log' \in [Ops -> Seq([step : StepNames, ok : BOOLEAN])]
    BY <1>3, <1>7, <1>9
  <2>2. \A p \in Ops : frame'[p] \in {"running", "returning"}
                         <=> frame[p] \in {"running", "returning"}
    BY <1>1
  <2> QED
    BY <1>1, <2>1, <2>2 DEF TypeOK
<1>11. Exclusive' /\ Compatible'
  <2>1. Compatible'
    BY <1>1, CompatibleFrame DEF Outstanding
  <2> QED
    BY <1>1, <2>1 DEF Exclusive, Holds, StrandOf
<1>12. ASSUME NEW p \in Ops PROVE Logged(p)' /\ Reported(p)' /\ Placed(p)'
  <2>1. CASE p = o
    <3>1. \A i \in 1..Len(log[o]) : log[o][i].ok
      <4> SUFFICES ASSUME NEW i \in 1..Len(log[o]) PROVE log[o][i].ok
        OBVIOUS
      <4>1. log[o] # <<>>
        BY <1>3
      <4> QED
        BY <1>2, <1>4, <4>1 DEF Finished, Failed
    <3>2. \A i \in 1..Len(log[o]) + 1 :
            /\ log'[o][i].step = Steps[kind[o]][i]
            /\ log'[o][i].ok \/ i = Len(log[o]) + 1
      <4> SUFFICES ASSUME NEW i \in 1..Len(log[o]) + 1
                   PROVE  /\ log'[o][i].step = Steps[kind[o]][i]
                          /\ log'[o][i].ok \/ i = Len(log[o]) + 1
        OBVIOUS
      <4>1. CASE i = Len(log[o]) + 1
        BY <1>8, <1>9, <4>1 DEF NextStep
      <4>2. CASE i \in 1..Len(log[o])
        BY <1>4, <1>9, <3>1, <4>2
      <4> QED
        BY <1>3, <4>1, <4>2
    <3>3. Len(log'[o]) <= Len(Steps[kind[o]])
      BY <1>5, <1>9
    <3>4. Logged(o)'
      BY <1>1, <1>4, <1>9, <3>2, <3>3 DEF Logged
    <3>5. Reported(o)'
      BY <1>1 DEF CallInv, Reported
    <3>6. Placed(o)'
      BY <1>1 DEF CallInv, Placed
    <3> QED
      BY <2>1, <3>4, <3>5, <3>6
  <2>2. CASE p # o
    <3>1. Placed(p)'
      BY <1>1, <2>2 DEF CallInv, Placed
    <3> QED
      BY <1>1, <2>2, <3>1, LoggedFrame, ReportedFrame DEF CallInv
  <2> QED
    BY <2>1, <2>2
<1> QED
  BY <1>10, <1>11, <1>12 DEF CallInv

\* What a coroutine posts is the name of a step, or success.
LEMMA OutcomeType ==
  ASSUME TypeOK, NEW o \in Ops
  PROVE  Outcome(o) \in Outcomes
<1>1. log[o] \in Seq([step : StepNames, ok : BOOLEAN])
  BY DEF TypeOK
<1>2. CASE Failed(o)
  <2>1. log[o] # <<>>
    BY <1>2 DEF Failed
  <2>2. Len(log[o]) \in 1..Len(log[o])
    BY <1>1, <2>1
  <2>3. log[o][Len(log[o])] \in [step : StepNames, ok : BOOLEAN]
    BY <1>1, <2>2, Element
  <2>4. log[o][Len(log[o])].step \in StepNames
    BY <2>3
  <2> QED
    BY <1>2, <2>4 DEF Outcome, Outcomes
<1> QED
  BY <1>2 DEF Outcome, Outcomes

\* The coroutine posts the completion.
LEMMA PostPreserves ==
  ASSUME SessionInv, NEW t \in Threads, NEW o \in Ops, Post(t, o)
  PROVE  SessionInv'
<1> USE DEF SessionInv
<1>1. /\ UNCHANGED <<kind, executor, log, called, thread, owners>>
      /\ frame[o] = "running" /\ frame'[o] = "returning" /\ Finished(o)
      /\ posted'[o] = Append(posted[o], Outcome(o))
      /\ \A p \in Ops \ {o} : frame'[p] = frame[p] /\ posted'[p] = posted[p]
      /\ frame' \in [Ops -> {"none", "ready", "awaiting", "running", "returning", "gone"}]
  BY DEF Post, Outcome, TypeOK
<1>2. posted[o] = <<>> /\ called[o] = <<>>
  BY <1>1 DEF CallInv, Reported
<1>3. posted'[o] = <<Outcome(o)>> /\ <<Outcome(o)>> \in Seq(Outcomes)
  BY <1>1, <1>2, OutcomeType, Singleton
<1>4. TypeOK'
  <2>1. posted' \in [Ops -> Seq(Outcomes)]
    BY <1>3 DEF Post, TypeOK
  <2>2. \A p \in Ops : frame'[p] \in {"running", "returning"}
                         <=> frame[p] \in {"running", "returning"}
    BY <1>1
  <2> QED
    BY <1>1, <2>1, <2>2 DEF TypeOK
<1>5. Exclusive' /\ Compatible'
  <2>1. Compatible'
    BY <1>1, CompatibleFrame DEF Outstanding
  <2> QED
    BY <1>1, <2>1 DEF Exclusive, Holds, StrandOf
<1>6. ASSUME NEW p \in Ops PROVE Logged(p)' /\ Reported(p)' /\ Placed(p)'
  <2>1. CASE p = o
    <3>1. Logged(o)'
      BY <1>1 DEF CallInv, Logged, Finished, Failed
    <3>2. Reported(o)'
      BY <1>1, <1>2, <1>3 DEF Reported, Outcome, Failed
    <3>3. Placed(o)'
      BY <1>1 DEF CallInv, Placed
    <3> QED
      BY <2>1, <3>1, <3>2, <3>3
  <2>2. CASE p # o
    <3>1. Placed(p)'
      BY <1>1, <2>2 DEF CallInv, Placed
    <3> QED
      BY <1>1, <2>2, <3>1, LoggedFrame, ReportedFrame DEF CallInv
  <2> QED
    BY <2>1, <2>2
<1> QED
  BY <1>4, <1>5, <1>6 DEF CallInv
\* The coroutine is destroyed, and gives up its share of the state.
LEMMA CoReturnPreserves ==
  ASSUME SessionInv, NEW t \in Threads, NEW o \in Ops, CoReturn(t, o)
  PROVE  SessionInv'
<1> USE DEF SessionInv
<1>1. /\ UNCHANGED <<kind, executor, log, posted, called>>
      /\ frame[o] = "returning" /\ frame'[o] = "gone" /\ thread[t] = Coroutine(o)
      /\ thread' = [thread EXCEPT ![t] = Idle] /\ owners' = owners \ {o}
      /\ \A p \in Ops \ {o} : frame'[p] = frame[p]
      /\ frame' \in [Ops -> {"none", "ready", "awaiting", "running", "returning", "gone"}]
      /\ thread \in [Threads -> {Idle} \cup [runs : {"coroutine", "handler"}, op : Ops]]
  BY DEF CoReturn, TypeOK
<1>2. TypeOK'
  <2>1. \A u \in Threads \ {t} : thread'[u] = thread[u] /\ thread[u] # Coroutine(o)
    BY <1>1, OneThread
  <2>2. thread'[t] = Idle
    BY <1>1
  <2>3. \A u \in Threads : thread'[u] # Coroutine(o)
    BY <2>1, <2>2, Tasks
  <2>4. ASSUME NEW p \in Ops, p # o
        PROVE  \A u \in Threads : thread'[u] = Coroutine(p) <=> thread[u] = Coroutine(p)
    BY <1>1, <2>1, <2>2, <2>4, Tasks
  <2>5. \A p \in Ops : frame'[p] \in {"running", "returning"}
                         <=> \E u \in Threads : thread'[u] = Coroutine(p)
    BY <1>1, <2>3, <2>4 DEF TypeOK
  <2>6. thread' \in [Threads -> {Idle} \cup [runs : {"coroutine", "handler"}, op : Ops]]
    BY <1>1
  <2> QED
    BY <1>1, <2>5, <2>6 DEF TypeOK
<1>3. Exclusive'
  <2>1. Holds(Idle) = {}
    BY Tasks
  <2> QED
    BY <1>1, <2>1, ExclusiveFrame
<1>4. Compatible'
  BY <1>1, CompatibleFrame DEF Outstanding
<1>5. ASSUME NEW p \in Ops PROVE Logged(p)' /\ Reported(p)' /\ Placed(p)'
  <2>1. CASE p = o
    <3>1. Logged(o)'
      BY <1>1 DEF CallInv, Logged, Finished, Failed
    <3>2. Reported(o)'
      BY <1>1 DEF CallInv, Reported, Outcome, Failed
    <3>3. Placed(o)'
      BY <1>1 DEF Placed
    <3> QED
      BY <2>1, <3>1, <3>2, <3>3
  <2>2. CASE p # o
    <3>1. Placed(p)'
      BY <1>1, <2>2, PlacedFrame DEF CallInv, Placed
    <3> QED
      BY <1>1, <2>2, <3>1, LoggedFrame, ReportedFrame DEF CallInv
  <2> QED
    BY <2>1, <2>2
<1> QED
  BY <1>2, <1>3, <1>4, <1>5 DEF CallInv

\* A handler runs: it is called with the one outcome that was posted.
LEMMA CallFacts ==
  ASSUME SessionInv, NEW t \in Threads, NEW o \in Ops, Call(t, o)
  PROVE  /\ frame[o] \in {"returning", "gone"}
         /\ posted[o] = <<Outcome(o)>> /\ called[o] = <<>>
         /\ posted' = [posted EXCEPT ![o] = <<>>]
         /\ called' = [called EXCEPT ![o] = <<Outcome(o)>>]
<1>1. frame[o] \in {"none", "ready", "awaiting", "running", "returning", "gone"}
      /\ posted[o] # <<>>
  BY DEF SessionInv, TypeOK, Call
<1>2. /\ frame[o] \in {"returning", "gone"}
      /\ posted[o] = <<Outcome(o)>> /\ called[o] = <<>>
  BY <1>1 DEF SessionInv, CallInv, Reported
<1>3. Outcome(o) \in Outcomes
  BY OutcomeType DEF SessionInv
<1>4. Tail(posted[o]) = <<>> /\ Append(called[o], Head(posted[o])) = <<Outcome(o)>>
  BY <1>2, <1>3, Singleton
<1> QED
  BY <1>2, <1>4 DEF Call

LEMMA CallPreserves ==
  ASSUME SessionInv, NEW t \in Threads, NEW o \in Ops,
         Call(t, o) \/ HandlerReturns(t, o)
  PROVE  SessionInv'
<1> USE DEF SessionInv
<1>1. /\ UNCHANGED <<kind, executor, frame, log, owners>>
      /\ thread \in [Threads -> {Idle} \cup [runs : {"coroutine", "handler"}, op : Ops]]
      /\ \/ /\ thread[t] = Idle /\ thread' = [thread EXCEPT ![t] = Handler(o)]
            /\ executor[o] \in Strands => Free(executor[o])
         \/ /\ thread[t] = Handler(o) /\ thread' = [thread EXCEPT ![t] = Idle]
            /\ UNCHANGED <<posted, called>>
  BY DEF Call, HandlerReturns, TypeOK
<1>2. \/ UNCHANGED <<posted, called>>
      \/ /\ frame[o] \in {"returning", "gone"}
         /\ posted[o] = <<Outcome(o)>> /\ called[o] = <<>>
         /\ posted' = [posted EXCEPT ![o] = <<>>]
         /\ called' = [called EXCEPT ![o] = <<Outcome(o)>>]
  BY CallFacts DEF HandlerReturns
<1>3. frame[o] # "none"
  <2>1. CASE Call(t, o)
    BY <2>1, CallFacts
  <2>2. CASE HandlerReturns(t, o)
    BY <2>2, Tasks DEF HandlerReturns, CallInv, Placed
  <2> QED
    BY <2>1, <2>2
<1>4. TypeOK'
  <2>1. posted' \in [Ops -> Seq(Outcomes)] /\ called' \in [Ops -> Seq(Outcomes)]
    <3>1. <<Outcome(o)>> \in Seq(Outcomes) /\ <<>> \in Seq(Outcomes)
      BY OutcomeType, Singleton
    <3> QED
      BY <1>2, <3>1 DEF TypeOK
  <2>2. thread' \in [Threads -> {Idle} \cup [runs : {"coroutine", "handler"}, op : Ops]]
    BY <1>1, Tasks
  <2>3. ASSUME NEW p \in Ops, NEW u \in Threads
        PROVE  thread'[u] = Coroutine(p) <=> thread[u] = Coroutine(p)
    BY <1>1, Tasks
  <2>4. \A p \in Ops : frame'[p] \in {"running", "returning"}
                         <=> \E u \in Threads : thread'[u] = Coroutine(p)
    BY <1>1, <2>3 DEF TypeOK
  <2> QED
    BY <1>1, <2>1, <2>2, <2>4 DEF TypeOK
<1>5. Exclusive'
  <2>1. Holds(Idle) = {}
    BY Tasks
  <2>2. CASE thread' = [thread EXCEPT ![t] = Idle]
    BY <1>1, <2>1, <2>2, ExclusiveFrame
  <2>3. CASE /\ thread' = [thread EXCEPT ![t] = Handler(o)]
             /\ executor[o] \in Strands => Free(executor[o])
    <3>1. \A u \in Threads : Holds(Handler(o)) \cap Holds(thread[u]) = {}
      BY <2>3, Tasks DEF Free
    <3> QED
      BY <1>1, <2>3, <3>1, ExclusiveFrame
  <2> QED
    BY <1>1, <2>2, <2>3
<1>6. Compatible'
  <2>1. \A p \in Ops : called'[p] = <<>> => called[p] = <<>>
    BY <1>2 DEF TypeOK
  <2> QED
    BY <1>1, <2>1, CompatibleFrame DEF Outstanding
<1>7. ASSUME NEW p \in Ops PROVE Logged(p)' /\ Reported(p)' /\ Placed(p)'
  <2>1. Logged(p)'
    BY <1>1, LoggedFrame DEF CallInv
  <2>2. Placed(p)'
    BY <1>1, <1>3, Tasks, PlacedFrame DEF CallInv, Placed
  <2>3. CASE posted'[p] = posted[p] /\ called'[p] = called[p]
    <3>1. Reported(p) /\ frame'[p] = frame[p] /\ log'[p] = log[p]
      BY <1>1 DEF CallInv
    <3> QED
      BY <2>1, <2>2, <2>3, <3>1, ReportedFrame
  <2>4. CASE /\ p = o /\ frame[o] \in {"returning", "gone"}
             /\ posted'[o] = <<>> /\ called'[o] = <<Outcome(o)>>
    <3>1. Outcome(o)' = Outcome(o) /\ frame'[o] = frame[o]
      BY <1>1 DEF Outcome, Failed
    <3> QED
      BY <2>1, <2>2, <2>4, <3>1 DEF Reported
  <2>5. \/ posted'[p] = posted[p] /\ called'[p] = called[p]
        \/ /\ p = o /\ frame[o] \in {"returning", "gone"}
           /\ posted'[o] = <<>> /\ called'[o] = <<Outcome(o)>>
    BY <1>2 DEF TypeOK
  <2> QED
    BY <2>1, <2>2, <2>3, <2>4, <2>5
<1> QED
  BY <1>4, <1>5, <1>6, <1>7 DEF CallInv

LEMMA SessionStep == SessionInv /\ [Next]_vars => SessionInv'
<1> SUFFICES ASSUME SessionInv, [Next]_vars PROVE SessionInv'
  OBVIOUS
<1>1. CASE UserLetsGo
  <2>1. UNCHANGED <<kind, executor, frame, log, posted, called, thread>>
        /\ owners' = owners \ {User}
    BY <1>1 DEF UserLetsGo
  <2>2. TypeOK' /\ Exclusive' /\ Compatible'
    BY <2>1 DEF SessionInv, TypeOK, Exclusive, Holds, StrandOf, Compatible, Outstanding
  <2>3. \A o \in Ops : Logged(o)' /\ Reported(o)'
    BY <2>1, LoggedFrame, ReportedFrame DEF SessionInv, CallInv
  <2>4. \A o \in Ops : Placed(o)'
    BY <2>1, SessionAssumption DEF SessionInv, CallInv, Placed
  <2> QED
    BY <2>2, <2>3, <2>4 DEF SessionInv, CallInv
<1>2. CASE UNCHANGED vars
  <2>1. UNCHANGED <<kind, executor, frame, log, posted, called, thread, owners>>
    BY <1>2 DEF vars
  <2>2. TypeOK' /\ Exclusive' /\ Compatible'
    BY <2>1 DEF SessionInv, TypeOK, Exclusive, Holds, StrandOf, Compatible, Outstanding
  <2>3. \A o \in Ops : Logged(o)' /\ Reported(o)' /\ Placed(o)'
    BY <2>1, LoggedFrame, ReportedFrame DEF SessionInv, CallInv, Placed
  <2> QED
    BY <2>2, <2>3 DEF SessionInv, CallInv
<1>3. ASSUME NEW o \in Ops, NEW k \in Kinds, NEW e \in Strands \cup {Plain},
             Initiate(o, k, e)
      PROVE  SessionInv'
  BY <1>3, InitiatePreserves
<1>4. ASSUME NEW o \in Ops, StepCompletes(o) PROVE SessionInv'
  BY <1>4, StepPreserves
<1>5. ASSUME NEW o \in Ops, Runs(o) PROVE SessionInv'
  BY <1>5, ThreadPreserves, StepPreserves, PostPreserves, CoReturnPreserves, CallPreserves
     DEF Runs
<1> QED
  BY <1>1, <1>2, <1>3, <1>4, <1>5 DEF Next

LEMMA SessionAlways == Spec => []SessionInv
BY SessionInit, SessionStep, PTL DEF Spec
-----------------------------------------------------------------------------
(***************************************************************************)
(* A session is type correct, and a coroutine that is neither suspended    *)
(* nor gone is on a thread, whatever calls and completions interleave.     *)
(***************************************************************************)
THEOREM SessionTypes == Spec => []TypeOK
BY SessionAlways, PTL DEF SessionInv

(***************************************************************************)
(* Of every operation, with any number of steps, the handler is told what  *)
(* the coroutine met: its first failure, or success if there was none.     *)
(***************************************************************************)
THEOREM OutcomeIsFaithful == Spec => []FaithfulOutcome
<1>1. ASSUME SessionInv, NEW o \in Ops
      PROVE  /\ \A i \in DOMAIN log[o] : /\ log[o][i].step = Steps[kind[o]][i]
                                         /\ log[o][i].ok \/ i = Len(log[o])
             /\ \A i \in DOMAIN Completions(o) :
                  IF Completions(o)[i] = Success
                  THEN Len(log[o]) = Len(Steps[kind[o]]) /\ ~Failed(o)
                  ELSE Failed(o) /\ Completions(o)[i] = log[o][Len(log[o])].step
  <2>1. Logged(o) /\ Reported(o) /\ Outcome(o) \in Outcomes
    BY <1>1, OutcomeType DEF SessionInv, CallInv
  <2>2. /\ log[o] \in Seq([step : StepNames, ok : BOOLEAN])
        /\ frame[o] \in {"none", "ready", "awaiting", "running", "returning", "gone"}
    BY <1>1 DEF SessionInv, TypeOK
  <2>3. DOMAIN log[o] = 1..Len(log[o])
    BY <2>2
  <2>4. CASE frame[o] \in {"none", "ready", "awaiting", "running"}
    <3>1. Completions(o) = <<>>
      BY <2>1, <2>4 DEF Reported, Completions
    <3> QED
      BY <2>1, <2>3, <3>1 DEF Logged
  <2>5. CASE frame[o] \in {"returning", "gone"}
    <3>1. Completions(o) = <<Outcome(o)>>
      BY <2>1, <2>5, Singleton DEF Reported, Completions
    <3>2. DOMAIN Completions(o) = {1} /\ Completions(o)[1] = Outcome(o)
      BY <3>1
    <3>3. Finished(o) /\ kind[o] \in Kinds
      BY <2>1, <2>5 DEF Logged
    <3>4. Failed(o) => log[o][Len(log[o])].step \in StepNames
      <4> SUFFICES ASSUME Failed(o) PROVE log[o][Len(log[o])].step \in StepNames
        OBVIOUS
      <4>1. Len(log[o]) \in 1..Len(log[o])
        BY <2>2 DEF Failed
      <4>2. log[o][Len(log[o])] \in [step : StepNames, ok : BOOLEAN]
        BY <2>2, <4>1, Element
      <4> QED
        BY <4>2
    <3>5. Success \notin StepNames
      BY <3>3, StepsType
    <3> QED
      BY <2>1, <2>3, <3>2, <3>3, <3>4, <3>5 DEF Logged, Finished, Outcome
  <2> QED
    BY <2>2, <2>4, <2>5
<1>2. SessionInv => FaithfulOutcome
  BY <1>1 DEF FaithfulOutcome
<1> QED
  BY <1>2, SessionAlways, PTL

(***************************************************************************)
(* On any number of threads, one thread at most is in code that touches    *)
(* the stream and the buffer of a session.                                 *)
(***************************************************************************)
THEOREM StreamIsNotShared == Spec => []StreamNotShared
<1>1. ASSUME SessionInv, NEW t \in Threads, NEW u \in Threads,
             NEW o \in Ops, thread[t] = Coroutine(o), frame[o] = "running",
             NEW p \in Ops, thread[u] = Coroutine(p), frame[p] = "running"
      PROVE  t = u
  <2>1. Outstanding(o) /\ Outstanding(p)
    BY <1>1 DEF SessionInv, CallInv, Reported, Outstanding
  <2>2. StrandOf(o) = StrandOf(p)
    BY <1>1, <2>1 DEF SessionInv, Compatible, StrandOf
  <2>3. Holds(thread[t]) = {StrandOf(o)} /\ Holds(thread[u]) = {StrandOf(p)}
    BY <1>1, Tasks
  <2> QED
    BY <1>1, <2>2, <2>3 DEF SessionInv, Exclusive
<1>2. SessionInv => StreamNotShared
  BY <1>1 DEF StreamNotShared, Touches
<1> QED
  BY <1>2, SessionAlways, PTL

(***************************************************************************)
(* Whoever lets go of a session and when, its state lives for as long as a *)
(* coroutine of one of its operations does.                                *)
(***************************************************************************)
THEOREM StateOutlives == Spec => []StateOutlivesOperations
<1>1. SessionInv => StateOutlivesOperations
  BY DEF SessionInv, CallInv, Placed, StateOutlivesOperations
<1> QED
  BY <1>1, SessionAlways, PTL

(***************************************************************************)
(* Every step of a session is a step of AsyncOp or is hidden from the      *)
(* caller: no operation completes twice, or before it was initiated.       *)
(***************************************************************************)
callPhases == [o \in Ops |-> IF frame[o] = "none" THEN "idle"
                             ELSE IF called[o] = <<>> THEN "pending" ELSE "completed"]

LEMMA PromiseStep ==
  ASSUME SessionInv, [Next]_vars
  PROVE  [Promise!Next]_(Promise!vars)
<1>1. ASSUME NEW o \in Ops, NEW k \in Kinds, NEW e \in Strands \cup {Plain},
             Initiate(o, k, e)
      PROVE  Promise!Next
  <2>1. /\ frame[o] = "none" /\ called[o] = <<>>
        /\ frame' = [frame EXCEPT ![o] = "ready"] /\ UNCHANGED called
    BY <1>1 DEF Initiate, MayCall, SessionInv, CallInv, Reported
  <2>2. callPhases' = [callPhases EXCEPT ![o] = "pending"] /\ callPhases[o] = "idle"
    BY <2>1 DEF callPhases, SessionInv, TypeOK
  <2>3. Promise!Initiate(o)
    BY <2>1, <2>2 DEF callPhases, Promise!Initiate
  <2> QED
    BY <2>3 DEF Promise!Next
<1>2. ASSUME NEW o \in Ops, NEW t \in Threads, Call(t, o)
      PROVE  Promise!Next
  <2>1. /\ frame[o] \in {"returning", "gone"} /\ called[o] = <<>>
        /\ called' = [called EXCEPT ![o] = <<Outcome(o)>>]
        /\ UNCHANGED frame
    BY <1>2, CallFacts DEF Call
  <2>2. Outcome(o) \in Outcomes
    BY OutcomeType DEF SessionInv
  <2>3. callPhases' = [callPhases EXCEPT ![o] = "completed"] /\ callPhases[o] = "pending"
    BY <2>1 DEF callPhases, SessionInv, TypeOK
  <2>4. Promise!Complete(o)
    BY <2>1, <2>2, <2>3 DEF callPhases, Promise!Complete
  <2> QED
    BY <2>4 DEF Promise!Next
<1>3. ASSUME UNCHANGED called,
             \A o \in Ops : frame'[o] = "none" <=> frame[o] = "none"
      PROVE  UNCHANGED Promise!vars
  BY <1>3 DEF Promise!vars
<1>4. CASE UserLetsGo \/ UNCHANGED vars
  BY <1>3, <1>4 DEF UserLetsGo, vars
<1>5. ASSUME NEW o \in Ops, StepCompletes(o) PROVE UNCHANGED Promise!vars
  BY <1>3, <1>5 DEF StepCompletes, SessionInv, TypeOK
<1>6. ASSUME NEW o \in Ops, NEW t \in Threads,
             \/ Resume(t, o) \/ SetHostName(t, o) \/ Await(t, o)
             \/ Post(t, o) \/ CoReturn(t, o) \/ HandlerReturns(t, o)
      PROVE  UNCHANGED Promise!vars
  BY <1>3, <1>6 DEF Resume, SetHostName, Await, Post, CoReturn, HandlerReturns,
                    SessionInv, TypeOK
<1> QED
  BY <1>1, <1>2, <1>4, <1>5, <1>6 DEF Next, Runs

(***************************************************************************)
(* A session keeps the safety of AsyncOp's promise.                        *)
(***************************************************************************)
THEOREM SessionImplementsAsyncOp == Spec => Promise!Safety
<1>1. Init => Promise!Init
  BY DEF Init, Promise!Init
<1>2. Spec => [][Promise!Next]_(Promise!vars)
  BY PromiseStep, SessionAlways, PTL DEF Spec
<1> QED
  BY <1>1, <1>2, PTL DEF Spec, Promise!Safety
=============================================================================
