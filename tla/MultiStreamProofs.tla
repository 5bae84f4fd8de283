------------------------- MODULE MultiStreamProofs -------------------------
(***************************************************************************)
(* Proofs about the hand-over of a connection, for any number of           *)
(* connections, SSL sessions and objects on the way.                       *)
(*                                                                         *)
(* OwnedOnce is not inductive: that the end of an object closes nothing    *)
(* rests on its having been moved from (MovedFrom), and that two objects   *)
(* never hold one connection on each holding only its own (HoldsOwn).      *)
(***************************************************************************)
EXTENDS MultiStream, TLAPS

-----------------------------------------------------------------------------
\* The objects of c hold c or nothing, the loop's holds what it accepted.
HoldsOwn ==
  /\ \A c \in Conns, i \in 1..Hops : held[Hop(c, i)] \in {c, NoConn}
  /\ \A s \in Clients : held[s] \in {s, NoConn}
  /\ loop = "accepting" => held[Head] = NoConn
  /\ loop = "accepted" => held[Head] \in Conns /\ status[held[Head]] = "open"
  /\ loop # "stopped"

\* While the loop's object holds c there is none behind it, and an object
\* behind which there is one, in whatever state, has been moved from.
MovedFrom ==
  /\ \A c \in Conns : status[c] = "waiting" \/ held[Head] = c =>
       \A i \in 1..Hops : life[Hop(c, i)] = "none"
  /\ \A c \in Conns, i \in 1..Hops, j \in 1..Hops :
       i < j /\ life[Hop(c, j)] # "none" =>
         life[Hop(c, i)] # "none" /\ held[Hop(c, i)] = NoConn

\* An open connection is with the loop or with an object of its own; a
\* closed one was closed by the end of its session.
Somewhere ==
  \A c \in Conns :
    /\ status[c] = "open" => \/ held[Head] = c
                             \/ \E i \in 1..Hops : held[Hop(c, i)] = c
    /\ status[c] = "closed" => life[Member(c)] = "gone"

Inv == TypeOK /\ life[Head] = "alive" /\ HoldsOwn /\ MovedFrom /\ Somewhere

-----------------------------------------------------------------------------
LEMMA HopFacts ==
  /\ Head \in Objects /\ Clients \subseteq Objects
  /\ Hops \in 1..Hops /\ Hops \in Nat
  /\ \A c \in Conns, i \in 1..Hops : /\ Hop(c, i) \in Passed
                                     /\ Hop(c, i) \in Objects
                                     /\ Hop(c, i) # Head
                                     /\ Hop(c, i) \notin Clients
  /\ \A o \in Passed : o.conn \in Conns /\ o.hop \in 1..Hops /\ o = Hop(o.conn, o.hop)
  /\ \A c, d \in Conns, i, j \in 1..Hops : Hop(c, i) = Hop(d, j) <=> c = d /\ i = j
  /\ \A s \in Clients : s # Head
<1>1. Hops \in 1..Hops /\ Hops \in Nat  BY MultiStreamAssumption
<1>2. \A c \in Conns, i \in 1..Hops : Hop(c, i) \in Passed  BY DEF Hop, Passed
<1>3. \A o \in Passed : o.conn \in Conns /\ o.hop \in 1..Hops /\ o = Hop(o.conn, o.hop)
  BY DEF Hop, Passed
<1>4. \A c, d \in Conns, i, j \in 1..Hops : Hop(c, i) = Hop(d, j) <=> c = d /\ i = j
  BY DEF Hop
<1> QED
  BY <1>1, <1>2, <1>3, <1>4, MultiStreamAssumption, ObjectsAssumption DEF Objects

\* The invariant holds of the first state.
LEMMA InvInit == Init => Inv
<1> SUFFICES ASSUME Init PROVE Inv  OBVIOUS
<1> USE HopFacts, MultiStreamAssumption, ObjectsAssumption
<1>1. TypeOK  BY DEF Init, TypeOK
<1>2. life[Head] = "alive"  BY DEF Init
<1>3. HoldsOwn  BY DEF Init, HoldsOwn
<1>4. MovedFrom  BY DEF Init, MovedFrom
<1>5. Somewhere  BY DEF Init, Somewhere, Member
<1> QED  BY <1>1, <1>2, <1>3, <1>4, <1>5 DEF Inv

\* Move construction keeps the types.
LEMMA MoveTypes ==
  ASSUME NEW from \in Objects, NEW to \in Objects, TypeOK, Move(from, to),
         UNCHANGED status, loop' \in {"accepting", "accepted", "stopped"}
  PROVE  TypeOK'
<1> USE ObjectsAssumption DEF TypeOK, Move
<1>1. from # to  OBVIOUS
<1>2. life' \in [Objects -> {"none", "alive", "gone"}]  OBVIOUS
<1>3. held' \in [Objects -> Conns \cup Clients \cup {NoConn}]  OBVIOUS
<1>4. ssl' \in [Objects -> {"none", "engine", "empty"}]  OBVIOUS
<1>5. refers' \in [Objects -> Objects \cup {Nobody}]  OBVIOUS
<1>6. \A o \in Objects : /\ life'[o] # "alive" => held'[o] = NoConn /\ ssl'[o] = "none"
                         /\ ssl'[o] = "engine" <=> refers'[o] # Nobody
  <2> TAKE o \in Objects
  <2>1. CASE o = to  BY <1>1, <2>1
  <2>2. CASE o = from  BY <1>1, <2>2
  <2>3. CASE o # to /\ o # from  BY <2>3
  <2> QED  BY <2>1, <2>2, <2>3
<1> QED  BY <1>2, <1>3, <1>4, <1>5, <1>6

\* So does destruction.
LEMMA DestroyTypes ==
  ASSUME NEW o \in Objects, TypeOK, Destroy(o), UNCHANGED loop
  PROVE  TypeOK'
BY ObjectsAssumption DEF TypeOK, Destroy

-----------------------------------------------------------------------------
LEMMA AcceptInv == ASSUME NEW c \in Conns, Inv, Accept(c) PROVE Inv'
<1> USE HopFacts, MultiStreamAssumption DEF Inv, Accept
<1>1. held[Head] = NoConn  BY DEF HoldsOwn
<1>2. TypeOK'  BY DEF TypeOK
<1>3. HoldsOwn'  BY DEF HoldsOwn, TypeOK
<1>4. MovedFrom'  BY <1>1 DEF MovedFrom, TypeOK
<1>5. Somewhere'  BY <1>1 DEF Somewhere, TypeOK, Member
<1> QED  BY <1>2, <1>3, <1>4, <1>5

LEMMA SpawnInv == ASSUME Inv, Spawn PROVE Inv'
<1> USE HopFacts, MultiStreamAssumption
<1> DEFINE c == held[Head]
<1>1. c \in Conns /\ status[c] = "open"  BY DEF Inv, HoldsOwn, Spawn
<1>2. 1 \in 1..Hops  BY MultiStreamAssumption
<1>3. /\ held' = [held EXCEPT ![Hop(c, 1)] = c, ![Head] = NoConn]
      /\ life' = [life EXCEPT ![Hop(c, 1)] = "alive"]
      /\ UNCHANGED status
  BY DEF Spawn, Move
<1>4. held'[Head] = NoConn /\ loop' = "accepting"
  BY <1>1, <1>2, <1>3 DEF Inv, TypeOK, Spawn, AcceptNext
<1> HIDE DEF c
<1>5. TypeOK'
  BY <1>1, <1>2, <1>4, MoveTypes DEF Inv, Spawn, c
<1>6. \A d \in Conns, i \in 1..Hops :
        /\ ~(d = c /\ i = 1) => /\ held'[Hop(d, i)] = held[Hop(d, i)]
                                /\ life'[Hop(d, i)] = life[Hop(d, i)]
        /\ held'[Hop(c, 1)] = c /\ life'[Hop(c, 1)] = "alive"
  BY <1>1, <1>2, <1>3 DEF Inv, TypeOK
<1>7. life'[Head] = "alive"  BY <1>1, <1>2, <1>3 DEF Inv, TypeOK
<1>8. HoldsOwn'
  BY <1>1, <1>2, <1>3, <1>4, <1>6 DEF Inv, HoldsOwn, TypeOK
<1>9. \A i \in 1..Hops : life[Hop(c, i)] = "none"
  BY <1>1 DEF Inv, MovedFrom, c
<1>10. MovedFrom'
  <2>1. \A d \in Conns : status'[d] = "waiting" \/ held'[Head] = d =>
          \A i \in 1..Hops : life'[Hop(d, i)] = "none"
    BY <1>1, <1>3, <1>4, <1>6 DEF Inv, MovedFrom
  <2>2. ASSUME NEW d \in Conns, NEW i \in 1..Hops, NEW j \in 1..Hops,
               i < j, life'[Hop(d, j)] # "none"
        PROVE  life'[Hop(d, i)] # "none" /\ held'[Hop(d, i)] = NoConn
    <3>1. d # c  BY <2>2, <1>6, <1>9
    <3> QED  BY <3>1, <2>2, <1>6 DEF Inv, MovedFrom
  <2> QED  BY <2>1, <2>2 DEF MovedFrom
<1>11. Somewhere'
  <2> SUFFICES ASSUME NEW d \in Conns
               PROVE  /\ status'[d] = "open" => \/ held'[Head] = d
                                                \/ \E i \in 1..Hops : held'[Hop(d, i)] = d
                      /\ status'[d] = "closed" => life'[Member(d)] = "gone"
    BY DEF Somewhere
  <2>1. CASE d = c  BY <2>1, <1>1, <1>2, <1>3, <1>6
  <2>2. CASE d # c
    <3>1. status'[d] = "closed" => life'[Member(d)] = "gone"
      BY <2>2, <1>3, <1>6 DEF Inv, Somewhere, Member
    <3>2. ASSUME status'[d] = "open"
          PROVE  \E i \in 1..Hops : held'[Hop(d, i)] = d
      <4>1. held[Head] # d  BY <2>2 DEF c
      <4>2. PICK i \in 1..Hops : held[Hop(d, i)] = d
        BY <4>1, <3>2, <1>3 DEF Inv, Somewhere
      <4>3. held'[Hop(d, i)] = d  BY <4>2, <2>2, <1>6
      <4> QED  BY <4>3
    <3> QED  BY <3>1, <3>2
  <2> QED  BY <2>1, <2>2
<1> QED  BY <1>5, <1>7, <1>8, <1>10, <1>11 DEF Inv

LEMMA PassOnInv ==
  ASSUME NEW c \in Conns, NEW i \in 1..Hops, Inv, PassOn(c, i)
  PROVE  Inv'
<1> USE HopFacts, MultiStreamAssumption
<1>1. i < Hops /\ i + 1 \in 1..Hops /\ i # i + 1  BY DEF PassOn
<1>2. /\ held' = [held EXCEPT ![Hop(c, i + 1)] = held[Hop(c, i)], ![Hop(c, i)] = NoConn]
      /\ life' = [life EXCEPT ![Hop(c, i + 1)] = "alive"]
      /\ life[Hop(c, i)] = "alive" /\ life[Hop(c, i + 1)] = "none"
      /\ UNCHANGED <<loop, status>>
  BY DEF PassOn, Move
<1>3. TypeOK'
  <2>1. TypeOK /\ Move(Hop(c, i), Hop(c, i + 1))  BY DEF Inv, PassOn
  <2>2. loop' \in {"accepting", "accepted", "stopped"}  BY <1>2 DEF Inv, TypeOK
  <2>3. Hop(c, i) \in Objects /\ Hop(c, i + 1) \in Objects  BY <1>1
  <2> QED  BY <2>1, <2>2, <2>3, <1>2, MoveTypes
<1>4. \A d \in Conns, j \in 1..Hops :
        /\ ~(d = c /\ j \in {i, i + 1}) => held'[Hop(d, j)] = held[Hop(d, j)]
        /\ ~(d = c /\ j = i + 1) => life'[Hop(d, j)] = life[Hop(d, j)]
  BY <1>1, <1>2 DEF Inv, TypeOK
<1>5. /\ held'[Hop(c, i)] = NoConn /\ held'[Hop(c, i + 1)] = held[Hop(c, i)]
      /\ life'[Hop(c, i + 1)] = "alive"
  BY <1>1, <1>2 DEF Inv, TypeOK
<1>6. /\ held'[Head] = held[Head] /\ life'[Head] = life[Head]
      /\ \A s \in Clients : held'[s] = held[s]
  BY <1>1, <1>2 DEF Inv, TypeOK
<1>7. HoldsOwn'
  <2>1. \A d \in Conns, j \in 1..Hops : held'[Hop(d, j)] \in {d, NoConn}
    <3> TAKE d \in Conns, j \in 1..Hops
    <3>1. CASE d = c /\ j = i  BY <3>1, <1>5
    <3>2. CASE d = c /\ j = i + 1  BY <3>2, <1>5 DEF Inv, HoldsOwn
    <3>3. CASE ~(d = c /\ j \in {i, i + 1})  BY <3>3, <1>4 DEF Inv, HoldsOwn
    <3> QED  BY <3>1, <3>2, <3>3
  <2> QED  BY <2>1, <1>2, <1>6 DEF Inv, HoldsOwn
<1>8. held[Head] # c /\ status[c] # "waiting"
  BY <1>2 DEF Inv, MovedFrom
<1>9. MovedFrom'
  <2>1. ASSUME NEW d \in Conns, status'[d] = "waiting" \/ held'[Head] = d,
               NEW j \in 1..Hops
        PROVE  life'[Hop(d, j)] = "none"
    BY <2>1, <1>2, <1>4, <1>6, <1>8 DEF Inv, MovedFrom
  <2>2. ASSUME NEW d \in Conns, NEW j \in 1..Hops, NEW k \in 1..Hops,
               j < k, life'[Hop(d, k)] # "none"
        PROVE  life'[Hop(d, j)] # "none" /\ held'[Hop(d, j)] = NoConn
    <3>1. CASE d # c  BY <3>1, <2>2, <1>4 DEF Inv, MovedFrom
    <3>2. CASE d = c /\ k = i + 1
      <4>1. CASE j = i  BY <4>1, <3>2, <1>1, <1>2, <1>4, <1>5
      <4>2. CASE j < i
        <5>1. life[Hop(c, j)] # "none" /\ held[Hop(c, j)] = NoConn
          BY <4>2, <1>2 DEF Inv, MovedFrom
        <5>2. /\ life'[Hop(c, j)] = life[Hop(c, j)]
              /\ held'[Hop(c, j)] = held[Hop(c, j)]
          BY <4>2, <1>1, <1>4
        <5> QED  BY <5>1, <5>2, <3>2
      <4> QED  BY <4>1, <4>2, <3>2, <2>2, <1>1
    <3>3. CASE d = c /\ k # i + 1
      <4>1. life[Hop(c, k)] # "none"  BY <3>3, <2>2, <1>4
      <4>2. k <= i
        <5> SUFFICES ASSUME ~(k <= i) PROVE FALSE  OBVIOUS
        <5>1. i + 1 < k  BY <3>3, <1>1
        <5>2. life[Hop(c, i + 1)] # "none"
          BY <5>1, <4>1, <1>1 DEF Inv, MovedFrom
        <5> QED  BY <5>2, <1>2
      <4> QED  BY <4>1, <4>2, <3>3, <2>2, <1>1, <1>4 DEF Inv, MovedFrom
    <3> QED  BY <3>1, <3>2, <3>3
  <2> QED  BY <2>1, <2>2 DEF MovedFrom
<1>10. Somewhere'
  <2> SUFFICES ASSUME NEW d \in Conns
               PROVE  /\ status'[d] = "open" => \/ held'[Head] = d
                                                \/ \E j \in 1..Hops : held'[Hop(d, j)] = d
                      /\ status'[d] = "closed" => life'[Member(d)] = "gone"
    BY DEF Somewhere
  <2>1. status'[d] = "closed" => life'[Member(d)] = "gone"
    <3> HAVE status'[d] = "closed"
    <3>1. life[Hop(d, Hops)] = "gone"  BY <1>2 DEF Inv, Somewhere, Member
    <3>2. ~(d = c /\ Hops = i + 1)  BY <3>1, <1>2
    <3> QED  BY <3>1, <3>2, <1>4 DEF Member
  <2>2. ASSUME status'[d] = "open"
        PROVE  held'[Head] = d \/ \E j \in 1..Hops : held'[Hop(d, j)] = d
    <3>1. CASE held[Head] = d  BY <3>1, <1>6
    <3>2. CASE held[Head] # d
      <4>1. PICK j \in 1..Hops : held[Hop(d, j)] = d
        BY <3>2, <2>2, <1>2 DEF Inv, Somewhere
      <4>2. CASE d = c /\ j = i  BY <4>1, <4>2, <1>1, <1>5
      <4>3. CASE d = c /\ j = i + 1
        BY <4>1, <4>3, <1>1, <1>2 DEF Inv, TypeOK
      <4>4. CASE ~(d = c /\ j \in {i, i + 1})  BY <4>1, <4>4, <1>4
      <4> QED  BY <4>2, <4>3, <4>4
    <3> QED  BY <3>1, <3>2
  <2> QED  BY <2>1, <2>2
<1> QED  BY <1>3, <1>6, <1>7, <1>9, <1>10 DEF Inv

\* An object of c ends that holds nothing, or that is the session's.
LEMMA EndInv ==
  ASSUME NEW c \in Conns, NEW i \in 1..Hops, Inv, Destroy(Hop(c, i)), UNCHANGED loop,
         held[Hop(c, i)] = NoConn \/ i = Hops
  PROVE  Inv'
<1> USE HopFacts, MultiStreamAssumption
<1>1. /\ life[Hop(c, i)] = "alive"
      /\ life' = [life EXCEPT ![Hop(c, i)] = "gone"]
      /\ held' = [held EXCEPT ![Hop(c, i)] = NoConn]
      /\ status' = [k \in DOMAIN status |-> IF k = held[Hop(c, i)] THEN "closed" ELSE status[k]]
  BY DEF Destroy
<1>2. TypeOK'  BY DestroyTypes DEF Inv
<1>3. \A d \in Conns, j \in 1..Hops :
        ~(d = c /\ j = i) => /\ held'[Hop(d, j)] = held[Hop(d, j)]
                             /\ life'[Hop(d, j)] = life[Hop(d, j)]
  BY <1>1 DEF Inv, TypeOK
<1>4. /\ held'[Hop(c, i)] = NoConn /\ life'[Hop(c, i)] = "gone"
      /\ held'[Head] = held[Head] /\ life'[Head] = life[Head]
      /\ \A s \in Clients : held'[s] = held[s]
  BY <1>1 DEF Inv, TypeOK
<1>5. held[Hop(c, i)] \in {c, NoConn}  BY DEF Inv, HoldsOwn
<1>6. \A d \in Conns : d # c => status'[d] = status[d]
  BY <1>1, <1>5 DEF Inv, TypeOK
<1>7. status'[c] = IF held[Hop(c, i)] = c THEN "closed" ELSE status[c]
  BY <1>1 DEF Inv, TypeOK
<1>8. held[Head] # c /\ status[c] # "waiting"
  BY <1>1 DEF Inv, MovedFrom
<1>9. HoldsOwn'  BY <1>3, <1>4, <1>6, <1>8 DEF Inv, HoldsOwn
<1>10. MovedFrom'
  <2>1. ASSUME NEW d \in Conns, status'[d] = "waiting" \/ held'[Head] = d,
               NEW j \in 1..Hops
        PROVE  life'[Hop(d, j)] = "none"
    BY <2>1, <1>3, <1>4, <1>6, <1>7, <1>8 DEF Inv, MovedFrom
  <2>2. ASSUME NEW d \in Conns, NEW j \in 1..Hops, NEW k \in 1..Hops,
               j < k, life'[Hop(d, k)] # "none"
        PROVE  life'[Hop(d, j)] # "none" /\ held'[Hop(d, j)] = NoConn
    <3>1. life[Hop(d, k)] # "none"  BY <2>2, <1>1, <1>3
    <3>2. life[Hop(d, j)] # "none" /\ held[Hop(d, j)] = NoConn
      BY <3>1, <2>2 DEF Inv, MovedFrom
    <3> QED  BY <3>2, <1>3, <1>4
  <2> QED  BY <2>1, <2>2 DEF MovedFrom
<1>11. Somewhere'
  <2> SUFFICES ASSUME NEW d \in Conns
               PROVE  /\ status'[d] = "open" => \/ held'[Head] = d
                                                \/ \E j \in 1..Hops : held'[Hop(d, j)] = d
                      /\ status'[d] = "closed" => life'[Member(d)] = "gone"
    BY DEF Somewhere
  <2>1. CASE d # c
    BY <2>1, <1>3, <1>4, <1>6 DEF Inv, Somewhere, Member
  <2>2. CASE d = c /\ held[Hop(c, i)] = c
    BY <2>2, <1>4, <1>7 DEF Member
  <2>3. CASE d = c /\ held[Hop(c, i)] # c
    <3>1. status'[d] = status[d]  BY <2>3, <1>7
    <3>2. status'[d] = "closed" => life'[Member(d)] = "gone"
      BY <3>1, <2>3, <1>3, <1>4 DEF Inv, Somewhere, Member
    <3>3. ASSUME status'[d] = "open"
          PROVE  held'[Head] = d \/ \E j \in 1..Hops : held'[Hop(d, j)] = d
      <4>1. CASE held[Head] = d  BY <4>1, <1>4
      <4>2. CASE held[Head] # d
        <5>1. PICK j \in 1..Hops : held[Hop(d, j)] = d
          BY <4>2, <3>1, <3>3 DEF Inv, Somewhere
        <5>2. held'[Hop(d, j)] = d  BY <5>1, <2>3, <1>3
        <5> QED  BY <5>2
      <4> QED  BY <4>1, <4>2
    <3> QED  BY <3>2, <3>3
  <2> QED  BY <2>1, <2>2, <2>3
<1> QED  BY <1>2, <1>4, <1>9, <1>10, <1>11 DEF Inv

\* What a client_session does to its own object is nothing to the others.
LEMMA ClientInv ==
  ASSUME NEW s \in Clients, Inv, MakeClient(s) \/ Connect(s) \/ EndClient(s)
  PROVE  Inv'
<1> USE HopFacts, MultiStreamAssumption
<1>1. held[s] \in {s, NoConn}  BY DEF Inv, HoldsOwn
<1>2. TypeOK'
  <2>1. CASE MakeClient(s)
    BY <2>1, ObjectsAssumption DEF Inv, TypeOK, MakeClient, ConstructSsl
  <2>2. CASE Connect(s)  BY <2>2 DEF Inv, TypeOK, Connect
  <2>3. CASE EndClient(s)  BY <2>3, DestroyTypes DEF Inv, EndClient
  <2> QED  BY <2>1, <2>2, <2>3
<1>3. /\ \A o \in Objects \ {s} : held'[o] = held[o] /\ life'[o] = life[o]
      /\ held'[s] \in {s, NoConn}
      /\ loop' = loop
  <2>1. CASE MakeClient(s)  BY <2>1, <1>1 DEF Inv, TypeOK, MakeClient, ConstructSsl
  <2>2. CASE Connect(s)  BY <2>2, <1>1 DEF Inv, TypeOK, Connect
  <2>3. CASE EndClient(s)  BY <2>3, <1>1 DEF Inv, TypeOK, EndClient, Destroy
  <2> QED  BY <2>1, <2>2, <2>3
<1>4. \A d \in Conns : status'[d] = status[d]
  <2>1. CASE MakeClient(s)  BY <2>1 DEF MakeClient
  <2>2. CASE Connect(s)  BY <2>2 DEF Inv, TypeOK, Connect
  <2>3. CASE EndClient(s)  BY <2>3, <1>1 DEF Inv, TypeOK, EndClient, Destroy
  <2> QED  BY <2>1, <2>2, <2>3
<1>5. HoldsOwn'  BY <1>3, <1>4 DEF Inv, HoldsOwn
<1>6. MovedFrom'  BY <1>3, <1>4 DEF Inv, MovedFrom
<1>7. Somewhere'  BY <1>3, <1>4 DEF Inv, Somewhere, Member
<1> QED  BY <1>2, <1>3, <1>5, <1>6, <1>7 DEF Inv

LEMMA InvNext == Inv /\ [Next]_vars => Inv'
<1> SUFFICES ASSUME Inv, [Next]_vars PROVE Inv'  OBVIOUS
<1>1. ASSUME NEW c \in Conns, Accept(c) PROVE Inv'  BY <1>1, AcceptInv
<1>2. ASSUME NEW c \in Conns, EndSession(c) PROVE Inv'
  BY <1>2, EndInv, HopFacts DEF EndSession, Member
<1>3. ASSUME NEW c \in Conns, NEW i \in 1..Hops, PassOn(c, i) PROVE Inv'
  BY <1>3, PassOnInv
<1>4. ASSUME NEW c \in Conns, NEW i \in 1..Hops, Drop(c, i) PROVE Inv'
  <2>1. i + 1 \in 1..Hops /\ i < i + 1  BY <1>4, MultiStreamAssumption DEF Drop
  <2>2. held[Hop(c, i)] = NoConn  BY <2>1, <1>4 DEF Inv, MovedFrom, Drop
  <2> QED  BY <2>2, <1>4, EndInv DEF Drop
<1>5. CASE Spawn  BY <1>5, SpawnInv
<1>6. ASSUME NEW s \in Clients, MakeClient(s) \/ Connect(s) \/ EndClient(s) PROVE Inv'
  BY <1>6, ClientInv
<1>7. CASE UNCHANGED vars
  BY <1>7 DEF Inv, TypeOK, HoldsOwn, MovedFrom, Somewhere, Member, vars
<1> QED  BY <1>1, <1>2, <1>3, <1>4, <1>5, <1>6, <1>7 DEF Next

LEMMA InvHolds == Spec => []Inv
BY InvInit, InvNext, PTL DEF Spec

\* The objects, their sockets and SSL streams keep their types; an object that
\* ended holds no connection (multi_stream.hpp:41-45).
THEOREM StreamTypes == Spec => []TypeOK
<1>1. Inv => TypeOK  BY DEF Inv
<1> QED  BY <1>1, InvHolds, PTL

-----------------------------------------------------------------------------
\* An accepted connection is held by exactly one living object until the end
\* of its session closes it, over any number of moves (multi_stream.hpp:41,
\* forward_proxy.cpp:258).
THEOREM ConnectionOwnedOnce == Spec => []OwnedOnce
<1>1. Inv => OwnedOnce
  <2> SUFFICES ASSUME Inv, NEW c \in Conns
               PROVE  /\ status[c] = "open" =>
                           \E o \in Objects : /\ held[o] = c
                                              /\ life[o] = "alive"
                                              /\ \A p \in Objects \ {o} : held[p] # c
                      /\ status[c] = "closed" => life[Member(c)] = "gone"
    BY DEF OwnedOnce
  <2> USE HopFacts, MultiStreamAssumption
  <2>1. status[c] = "closed" => life[Member(c)] = "gone"  BY DEF Inv, Somewhere
  <2>2. ASSUME status[c] = "open"
        PROVE  \E o \in Objects : /\ held[o] = c
                                  /\ life[o] = "alive"
                                  /\ \A p \in Objects \ {o} : held[p] # c
    <3>1. \A d \in Conns, i \in 1..Hops : held[Hop(d, i)] = c => d = c
      BY DEF Inv, HoldsOwn
    <3>2. \A s \in Clients : held[s] # c  BY DEF Inv, HoldsOwn
    <3>3. \A o \in Objects : held[o] = c => life[o] = "alive"  BY DEF Inv, TypeOK
    <3>4. CASE held[Head] = c
      <4>1. \A i \in 1..Hops : held[Hop(c, i)] # c
        BY <3>3, <3>4 DEF Inv, MovedFrom
      <4>2. \A p \in Objects \ {Head} : held[p] # c
        BY <4>1, <3>1, <3>2 DEF Objects
      <4> QED  BY <4>2, <3>3, <3>4
    <3>5. CASE held[Head] # c
      <4>1. PICK i \in 1..Hops : held[Hop(c, i)] = c
        BY <3>5, <2>2 DEF Inv, Somewhere
      <4>2. \A j \in 1..Hops : j # i => held[Hop(c, j)] # c
        <5> SUFFICES ASSUME NEW j \in 1..Hops, j # i, held[Hop(c, j)] = c PROVE FALSE
          OBVIOUS
        <5>1. life[Hop(c, i)] = "alive" /\ life[Hop(c, j)] = "alive"  BY <3>3, <4>1
        <5>2. i < j \/ j < i  OBVIOUS
        <5> QED  BY <5>1, <5>2, <4>1 DEF Inv, MovedFrom
      <4>3. \A p \in Objects \ {Hop(c, i)} : held[p] # c
        BY <4>2, <3>1, <3>2, <3>5 DEF Objects
      <4> QED  BY <4>1, <4>3, <3>3
    <3> QED  BY <3>4, <3>5
  <2> QED  BY <2>1, <2>2
<1> QED  BY <1>1, InvHolds, PTL

\* The accept loop never accepts into a socket that is open (forward_proxy.cpp:250).
THEOREM LoopGoesOn == Spec => []LoopKeepsAccepting
<1>1. Inv => LoopKeepsAccepting  BY DEF Inv, HoldsOwn, LoopKeepsAccepting
<1> QED  BY <1>1, InvHolds, PTL

-----------------------------------------------------------------------------
\* Whatever was moved, an SSL stream refers to the socket it was made with.
RefersBack ==
  \A o \in Objects :
    ssl[o] = "engine" => refers[o] = IF o \in Clients THEN o ELSE Head

LEMMA RefersBackNext == Inv /\ RefersBack /\ [Next]_vars => RefersBack'
<1> SUFFICES ASSUME Inv, RefersBack, [Next]_vars PROVE RefersBack'  OBVIOUS
<1> USE HopFacts, MultiStreamAssumption DEF RefersBack
<1>1. ASSUME NEW c \in Conns, Accept(c) PROVE RefersBack'  BY <1>1 DEF Accept
<1>2. ASSUME NEW o \in Objects, Destroy(o) PROVE RefersBack'
  BY <1>2 DEF Destroy, Inv, TypeOK
<1>3. ASSUME NEW from \in Objects \ Clients, NEW to \in Objects \ Clients,
             Move(from, to)
      PROVE  RefersBack'
  BY <1>3 DEF Move, Inv, TypeOK
<1>4. ASSUME NEW c \in Conns, NEW i \in 1..Hops, PassOn(c, i) PROVE RefersBack'
  <2>1. i + 1 \in 1..Hops  BY <1>4 DEF PassOn
  <2> QED  BY <2>1, <1>3, <1>4 DEF PassOn
<1>5. CASE Spawn
  <2>1. held[Head] \in Conns /\ 1 \in 1..Hops  BY <1>5 DEF Inv, HoldsOwn, Spawn
  <2> QED  BY <2>1, <1>3, <1>5 DEF Spawn
<1>6. ASSUME NEW s \in Clients, MakeClient(s) \/ Connect(s) \/ EndClient(s)
      PROVE  RefersBack'
  <2>1. CASE MakeClient(s)  BY <2>1 DEF MakeClient, ConstructSsl, Inv, TypeOK
  <2>2. CASE Connect(s)  BY <2>2 DEF Connect
  <2>3. CASE EndClient(s)  BY <2>3, <1>2 DEF EndClient
  <2> QED  BY <1>6, <2>1, <2>2, <2>3
<1>7. CASE UNCHANGED vars  BY <1>7 DEF vars
<1> QED
  BY <1>1, <1>2, <1>4, <1>5, <1>6, <1>7 DEF Next, EndSession, Drop, Member

\* A connection with an SSL stream is read and written through its own socket
\* until the first move, and never after it, over any number of objects
\* (multi_stream.hpp:41-45); without one it always is.
THEOREM MovedSslMisses == Spec => []ReachedUnlessMoved
<1> USE HopFacts, MultiStreamAssumption, ObjectsAssumption
<1>1. Init => RefersBack  BY DEF Init, RefersBack
<1>2. Inv /\ RefersBack => ReachedUnlessMoved
  <2> SUFFICES ASSUME Inv, RefersBack, NEW o \in Objects, held[o] # NoConn
               PROVE  ReachesOwn(o) <=> \/ ssl[o] = "none"
                                        \/ ssl[o] = "engine" /\ o \notin Passed
    BY DEF ReachedUnlessMoved
  <2>1. CASE ssl[o] = "none"  BY <2>1 DEF ReachesOwn, Reached
  <2>2. CASE ssl[o] = "empty"
    <3>1. refers[o] = Nobody  BY <2>2 DEF Inv, TypeOK
    <3> QED  BY <3>1, <2>2 DEF ReachesOwn, Reached
  <2>3. CASE ssl[o] = "engine" /\ o \notin Passed
    <3>1. refers[o] = o  BY <2>3 DEF RefersBack, Objects
    <3> QED  BY <3>1, <2>3 DEF ReachesOwn, Reached
  <2>4. CASE ssl[o] = "engine" /\ o \in Passed
    <3>1. refers[o] = Head  BY <2>4 DEF RefersBack
    <3>2. PICK c \in Conns, i \in 1..Hops : o = Hop(c, i)  BY <2>4
    <3>3. held[o] = c /\ life[o] # "none"  BY <3>2 DEF Inv, HoldsOwn, TypeOK
    <3>4. held[Head] # c  BY <3>2, <3>3 DEF Inv, MovedFrom
    <3> QED  BY <3>1, <3>3, <3>4, <2>4 DEF ReachesOwn, Reached
  <2> QED  BY <2>1, <2>2, <2>3, <2>4 DEF Inv, TypeOK
<1> QED  BY <1>1, <1>2, RefersBackNext, InvHolds, PTL DEF Spec

=============================================================================
