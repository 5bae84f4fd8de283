------------------------ MODULE ClientSessionProofs ------------------------
(***************************************************************************)
(* Proof that a session pairs responses with requests on a connection made *)
(* while its buffer was empty, up to the first response a parser refuses,  *)
(* for any number of connections and requests.                             *)
(*                                                                         *)
(* AnswersItsRequest is about what was stored; that it stays true rests on *)
(* what is under way.  While the host is there, what was parsed, is in the *)
(* buffer and is on the wire is the beginning of the one response that is  *)
(* due (Current).  Once it has left, a read that failed may leave a piece  *)
(* of a line behind, and then no response is ever complete (Dead).         *)
(***************************************************************************)
EXTENDS ClientSession, Integers, SequenceTheorems, WellFoundedInduction, TLAPS

-----------------------------------------------------------------------------
Tokens == [conn : Nat, request : Nat, part : PartNames]

\* s is the beginning of the n-th response on the connection c.
Begins(s, c, n) ==
  /\ s \in Seq(Tokens)
  /\ Len(s) <= 5
  /\ \A i \in 1..Len(s) : s[i] = Response(c, n)[i]

Current ==
  /\ Begins((parsed \o buffer) \o wire, conn, asked)
  /\ end = "open" => sent = 5 * (asked - 1) + Len((parsed \o buffer) \o wire)

\* No header ends in s.
NoEnd(s) == \A i \in DOMAIN s : s[i].part \notin {"rest", "body"}

Dead == end # "open" /\ wire = <<>> /\ NoEnd(parsed \o buffer)

\* Between two reads nothing is under way.
AtRest ==
  /\ wire = <<>>
  /\ end = "open" => buffer = <<>> /\ sent = 5 * asked

CleanInv ==
  /\ buffer \in Seq(Tokens) /\ wire \in Seq(Tokens)
  /\ phase = "reading" => parsed \in Seq(Tokens)
  /\ NoEnd(buffer)
  /\ phase = "writing" => parsed = <<>>
  /\ phase # "reading" => AtRest
  /\ phase = "reading" => Current \/ Dead

Inv ==
  /\ conn \in Nat /\ asked \in Nat /\ sent \in Nat
  /\ phase = "connecting" => socket = "closed" /\ wire = <<>>
  /\ clean => CleanInv
  /\ AnswersItsRequest

-----------------------------------------------------------------------------
\* What Min returns is the element that is below all.
LEMMA MinIs ==
  ASSUME NEW S \in SUBSET Nat, NEW m \in S, \A y \in S : m <= y
  PROVE  Min(S) = m
<1>1. \A x \in S : (\A y \in S : x <= y) => x = m  OBVIOUS
<1> QED  BY <1>1, Zenon DEF Min

LEMMA Concat ==
  ASSUME NEW s \in Seq(Tokens), NEW t \in Seq(Tokens)
  PROVE  /\ s \o t \in Seq(Tokens)
         /\ Len(s) \in Nat /\ Len(t) \in Nat /\ Len(s \o t) = Len(s) + Len(t)
BY ConcatProperties, LenProperties

LEMMA MaxIs ==
  ASSUME NEW S \in SUBSET Nat, NEW m \in S, \A y \in S : m >= y
  PROVE  Max(S) = m
<1>1. \A x \in S : (\A y \in S : x >= y) => x = m  OBVIOUS
<1> QED  BY <1>1, Zenon DEF Max

LEMMA DivideByFive ==
  ASSUME NEW a \in Nat, NEW k \in 0..4
  PROVE  (5 * a + k) \div 5 = a /\ (5 * a + k) % 5 = k
<1>1. CASE k = 0  BY <1>1
<1>2. CASE k = 1  BY <1>2
<1>3. CASE k = 2  BY <1>3
<1>4. CASE k = 3  BY <1>4
<1>5. CASE k = 4  BY <1>5
<1> QED  BY <1>1, <1>2, <1>3, <1>4, <1>5

LEMMA ResponseParts ==
  ASSUME NEW c, NEW n
  PROVE  /\ Response(c, n)[1].part = "start"
         /\ Response(c, n)[2].part = "lines"
         /\ Response(c, n)[3].part = "field"
         /\ Response(c, n)[4].part = "rest"
         /\ Response(c, n)[5].part = "body"
         /\ Len(Response(c, n)) = 5
         /\ DOMAIN Response(c, n) = 1..5
         /\ c \in Nat /\ n \in Nat =>
              Response(c, n) \in Seq(Tokens) /\ \A i \in 1..5 : Response(c, n)[i] \in Tokens
BY DEF Response, Part, Tokens, PartNames

LEMMA NoHeader == ASSUME NEW s, NoEnd(s) PROVE HeaderEnds(s) = {}
BY DEF NoEnd, HeaderEnds, EndsIn

LEMMA NoEndInEmpty == NoEnd(<<>>)
BY DEF NoEnd

\* What the parts of the beginning of a response are.
LEMMA BeginningParts ==
  ASSUME NEW c, NEW n, NEW s, Begins(s, c, n)
  PROVE  /\ s \in Seq(Tokens) /\ Len(s) \in 0..5 /\ DOMAIN s = 1..Len(s)
         /\ \A i \in 1..Len(s) : /\ s[i] = Response(c, n)[i]
                                 /\ s[i].part = "start" <=> i = 1
                                 /\ s[i].part = "lines" <=> i = 2
                                 /\ s[i].part = "rest" <=> i = 4
                                 /\ s[i].part = "body" <=> i = 5
<1>1. /\ s \in Seq(Tokens) /\ Len(s) \in 0..5 /\ DOMAIN s = 1..Len(s)
      /\ \A i \in 1..Len(s) : s[i] = Response(c, n)[i]
  <2>1. s \in Seq(Tokens)  BY DEF Begins
  <2>2. Len(s) \in Nat /\ DOMAIN s = 1..Len(s)  BY <2>1, LenProperties
  <2> QED  BY <2>1, <2>2 DEF Begins
<1>2. ASSUME NEW i \in 1..Len(s)
      PROVE  /\ s[i].part = "start" <=> i = 1
             /\ s[i].part = "lines" <=> i = 2
             /\ s[i].part = "rest" <=> i = 4
             /\ s[i].part = "body" <=> i = 5
  <2>1. i = 1 \/ i = 2 \/ i = 3 \/ i = 4 \/ i = 5  BY <1>1
  <2> QED  BY <2>1, <1>1, ResponseParts
<1> QED  BY <1>1, <1>2

\* What the parser makes of it.
LEMMA ParseBeginning ==
  ASSUME NEW c \in Nat, NEW n \in Nat, NEW s, Begins(s, c, n)
  PROVE  /\ HeaderEnds(s) = IF Len(s) >= 4 THEN {4} ELSE {}
         /\ Complete(s) <=> Len(s) = 5
         /\ Taken(s) = IF Len(s) >= 4 THEN Len(s) ELSE IF Len(s) >= 2 THEN 2 ELSE 0
         /\ Len(s) = 5 => s = Response(c, n)
<1>1. /\ s \in Seq(Tokens) /\ Len(s) \in 0..5 /\ DOMAIN s = 1..Len(s)
      /\ \A i \in 1..Len(s) : s[i] = Response(c, n)[i]
  BY BeginningParts
<1>2. ASSUME NEW i \in 1..Len(s)
      PROVE  /\ (s[i].part \in {"rest"} /\ s[1].part # "field") <=> i = 4
             /\ (s[i].part \in {"lines", "rest"} /\ s[1].part # "field") <=> (i = 2 \/ i = 4)
  <2>1. 1 \in 1..Len(s)
    BY <1>1
  <2>2. s[1].part = "start"
    BY <1>1, <2>1, ResponseParts
  <2>3. (s[i].part = "rest" <=> i = 4) /\ (s[i].part = "lines" <=> i = 2)
    BY BeginningParts
  <2> QED
    BY <2>2, <2>3
<1>3. HeaderEnds(s) = IF Len(s) >= 4 THEN {4} ELSE {}
  <2>1. HeaderEnds(s) = {i \in 1..Len(s) : i = 4}
    BY <1>1, <1>2, Zenon DEF HeaderEnds, EndsIn
  <2> QED  BY <2>1, <1>1
<1>4. LineEnds(s) = {i \in 1..Len(s) : i = 2 \/ i = 4}
  BY <1>1, <1>2, Zenon DEF LineEnds, EndsIn
<1>5. Complete(s) <=> Len(s) = 5
  <2>1. CASE Len(s) >= 4
    <3>1. Min({4}) = 4  BY MinIs
    <3> QED  BY <2>1, <3>1, <1>1, <1>3 DEF Complete
  <2>2. CASE ~(Len(s) >= 4)  BY <2>2, <1>1, <1>3 DEF Complete
  <2> QED  BY <2>1, <2>2
<1>6. CASE Len(s) >= 4
  <2>1. Min({4}) = 4  BY MinIs
  <2>2. Min({5, Len(s)}) = Len(s)  BY <1>1, <1>6, MinIs
  <2>3. HeaderEnds(s) = {4} /\ HeaderEnds(s) # {}  BY <1>6, <1>3
  <2>4. Taken(s) = Min({Min(HeaderEnds(s)) + 1, Len(s)})  BY <2>3 DEF Taken
  <2>5. Min(HeaderEnds(s)) = 4  BY <2>1, <2>3, Zenon
  <2>6. Min(HeaderEnds(s)) + 1 = 5  BY <2>5
  <2>7. Taken(s) = Min({5, Len(s)})  BY <2>4, <2>6, Zenon
  <2>8. Taken(s) = Len(s)  BY <2>2, <2>7
  <2> QED  BY <1>1, <1>3, <1>5, <1>6, <2>8, ResponseParts, SeqEqual
<1>7. CASE ~(Len(s) >= 4)
  <2>1. Taken(s) = Max(LineEnds(s) \cup {0})  BY <1>3, <1>7 DEF Taken
  <2>2. CASE Len(s) >= 2
    <3>1. LineEnds(s) \cup {0} = {2, 0}  BY <1>1, <1>4, <1>7, <2>2
    <3>2. Max({2, 0}) = 2  BY MaxIs
    <3>3. Taken(s) = 2  BY <2>1, <3>1, <3>2, Zenon
    <3> QED  BY <1>1, <1>3, <1>5, <1>7, <2>2, <3>3
  <2>3. CASE ~(Len(s) >= 2)
    <3>1. LineEnds(s) \cup {0} = {0}  BY <1>1, <1>4, <1>7, <2>3
    <3>2. Max({0}) = 0  BY MaxIs
    <3>3. Taken(s) = 0  BY <2>1, <3>1, <3>2, Zenon
    <3> QED  BY <1>1, <1>3, <1>5, <1>7, <2>3, <3>3
  <2> QED  BY <2>2, <2>3
<1> QED  BY <1>6, <1>7

\* The parser takes a first part of the beginning of a response, and all of it
\* when the header is complete.
LEMMA ParseSplits ==
  ASSUME NEW c \in Nat, NEW n \in Nat, NEW s, Begins(s, c, n), Parse(s)
  PROVE  /\ parsed' \o buffer' = s
         /\ parsed' \in Seq(Tokens) /\ buffer' \in Seq(Tokens)
         /\ NoEnd(buffer')
         /\ Len(s) = 5 => parsed' = s /\ buffer' = <<>>
<1>1. s \in Seq(Tokens) /\ Len(s) \in 0..5 /\ DOMAIN s = 1..Len(s)  BY BeginningParts
<1>2. CASE Len(s) >= 4
  <2>1. Taken(s) = Len(s)  BY <1>2, ParseBeginning
  <2>2. SubSeq(s, 1, Len(s)) = s  BY <1>1, SubSeqFull
  <2>3. SubSeq(s, Len(s) + 1, Len(s)) = <<>>  BY <1>1, SubSeqEmpty
  <2>4. parsed' = s /\ buffer' = <<>>  BY <2>1, <2>2, <2>3 DEF Parse
  <2> QED  BY <1>1, <2>4, ConcatEmptySeq, EmptySeq, NoEndInEmpty
<1>3. CASE ~(Len(s) >= 4)
  <2>1. PICK k \in 0..Len(s) : k = Taken(s)
    <3>1. Taken(s) = IF Len(s) >= 2 THEN 2 ELSE 0  BY <1>3, ParseBeginning
    <3>2. (IF Len(s) >= 2 THEN 2 ELSE 0) \in 0..Len(s)  BY <1>1
    <3> QED  BY <3>1, <3>2
  <2>2. parsed' = SubSeq(s, 1, k) /\ buffer' = SubSeq(s, k + 1, Len(s))
    BY <2>1 DEF Parse
  <2>3. parsed' \o buffer' = s
    <3>1. SubSeq(s, 1, k) \o SubSeq(s, k + 1, Len(s)) = SubSeq(s, 1, Len(s))
      <4>1. 1 \in 1..Len(s) + 1 /\ k \in 1 - 1 .. Len(s) /\ Len(s) \in k..Len(s)
        BY <1>1
      <4> QED  BY <1>1, <4>1, ConcatAdjacentSubSeq
    <3> QED  BY <1>1, <2>2, <3>1, SubSeqFull
  <2>4. parsed' \in Seq(Tokens) /\ buffer' \in Seq(Tokens)
    BY <1>1, <2>2, SubSeqProperties, ElementOfSeq
  <2>5. \A i \in 1..Len(buffer') : \E q \in 1..Len(s) : buffer'[i] = s[q]
    BY <1>1, <2>2, SubSeqProperties
  <2>6. \A q \in 1..Len(s) : s[q].part \notin {"rest", "body"}
    <3> TAKE q \in 1..Len(s)
    <3>1. q # 4 /\ q # 5  BY <1>1, <1>3
    <3> QED  BY <3>1, BeginningParts
  <2>7. DOMAIN buffer' = 1..Len(buffer')  BY <2>4, LenProperties
  <2>8. NoEnd(buffer')  BY <2>5, <2>6, <2>7 DEF NoEnd
  <2> QED  BY <1>3, <2>3, <2>4, <2>8
<1> QED  BY <1>2, <1>3

\* A prefix of the beginning of a response is one.
LEMMA BeginsPrefix ==
  ASSUME NEW c, NEW n, NEW s \in Seq(Tokens), NEW t \in Seq(Tokens), Begins(s \o t, c, n)
  PROVE  Begins(s, c, n)
<1>1. Len(s) \in Nat /\ Len(t) \in Nat  BY LenProperties
<1>2. /\ Len(s \o t) = Len(s) + Len(t)
      /\ \A i \in 1..Len(s) : (s \o t)[i] = s[i]
  BY <1>1, ConcatProperties
<1> QED  BY <1>1, <1>2 DEF Begins

-----------------------------------------------------------------------------
LEMMA FinishInv == ASSUME Inv, Finish PROVE Inv'
<1> DEFINE s == parsed \o buffer
<1>1. conn \in Nat /\ asked \in Nat /\ sent \in Nat /\ phase = "reading"
  BY DEF Inv, Finish
<1>2. /\ UNCHANGED <<conn, asked, sent, end, wire, clean>> /\ phase' = "idle"
      /\ results' = results \cup {[nr |-> made, conn |-> conn, request |-> asked,
                                   clean |-> clean, got |-> parsed']}
  BY DEF Finish, Succeed, host
<1>3. ASSUME clean PROVE CleanInv' /\ parsed' = Response(conn, asked)
  <2>1. CleanInv  BY <1>3 DEF Inv
  <2>2. s \in Seq(Tokens)  BY <1>1, <2>1, Concat DEF CleanInv
  <2>3. Complete(s) /\ Parse(s)  BY DEF Finish
  <2>4. Current  BY <2>1, <2>3, <1>1, NoHeader DEF CleanInv, Dead, Complete
  <2>5. Begins(s, conn, asked)  BY <2>1, <2>2, <2>4, BeginsPrefix DEF Current, CleanInv
  <2>6. Len(s) = 5 /\ s = Response(conn, asked)  BY <1>1, <2>3, <2>5, ParseBeginning
  <2>7. parsed' = s /\ buffer' = <<>>
    <3> HIDE DEF s
    <3> QED  BY <1>1, <2>3, <2>5, <2>6, ParseSplits
  <2>8. Len(wire) = 0 /\ Len(s \o wire) = 5
    <3>1. wire \in Seq(Tokens) /\ Len(wire) \in Nat  BY <2>1, LenProperties DEF CleanInv
    <3>2. Len(s \o wire) = Len(s) + Len(wire)  BY <2>2, <3>1, ConcatProperties
    <3>3. Len(s \o wire) <= 5  BY <2>4 DEF Current, Begins
    <3> QED  BY <2>6, <3>1, <3>2, <3>3
  <2>9. wire = <<>>  BY <2>1, <2>8, EmptySeq DEF CleanInv
  <2>10. end = "open" => sent = 5 * asked
    <3> HIDE DEF s
    <3>1. end = "open" => sent = 5 * (asked - 1) + Len(s \o wire)  BY <2>4 DEF Current, s
    <3> QED  BY <1>1, <2>8, <3>1
  <2>11. AtRest'  BY <1>2, <2>7, <2>9, <2>10 DEF AtRest
  <2> QED
    BY <1>2, <2>1, <2>2, <2>6, <2>7, <2>9, <2>11, NoEndInEmpty, EmptySeq DEF CleanInv
<1>4. AnswersItsRequest'
  <2> SUFFICES ASSUME NEW r \in results', r.clean
               PROVE  r.got = Response(r.conn, r.request)
    BY DEF AnswersItsRequest
  <2>1. CASE r \in results  BY <2>1 DEF Inv, AnswersItsRequest
  <2>2. CASE r \notin results
    <3>1. r = [nr |-> made, conn |-> conn, request |-> asked, clean |-> clean,
               got |-> parsed']
      BY <1>2, <2>2
    <3>2. r.clean = clean /\ r.conn = conn /\ r.request = asked /\ r.got = parsed'
      BY <3>1
    <3> QED  BY <1>3, <3>2
  <2> QED  BY <2>1, <2>2
<1> QED  BY <1>1, <1>2, <1>3, <1>4 DEF Inv

LEMMA ReadSomeInv == ASSUME Inv, ReadSome PROVE Inv'
<1>1. /\ conn \in Nat /\ asked \in Nat /\ sent \in Nat /\ phase = "reading" /\ wire # <<>>
      /\ UNCHANGED <<phase, conn, asked, sent, end, clean, results>>
  BY DEF Inv, ReadSome, host
<1>2. ASSUME clean PROVE CleanInv'
  <2>1. CleanInv  BY <1>2 DEF Inv
  <2>2. Current  BY <2>1, <1>1 DEF CleanInv, Dead
  <2>3. PICK n \in 1..Len(wire) : /\ Parse(parsed \o buffer \o SubSeq(wire, 1, n))
                                  /\ wire' = SubSeq(wire, n + 1, Len(wire))
    BY DEF ReadSome
  <2> DEFINE s == parsed \o buffer
  <2> DEFINE t == SubSeq(wire, 1, n)
  <2>4. s \in Seq(Tokens) /\ wire \in Seq(Tokens) /\ Len(wire) \in Nat
    BY <1>1, <2>1, Concat DEF CleanInv
  <2>5. t \in Seq(Tokens) /\ wire' \in Seq(Tokens)
    BY <2>3, <2>4, SubSeqProperties, ElementOfSeq
  <2>6. t \o wire' = wire
    BY <2>3, <2>4, ConcatAdjacentSubSeq, SubSeqFull
  <2> HIDE DEF s, t
  <2>7. (s \o t) \o wire' = s \o wire /\ s \o t \in Seq(Tokens)
    <3>1. s \o t \in Seq(Tokens)  BY <2>4, <2>5, Concat
    <3>2. (s \o t) \o wire' = s \o (t \o wire')  BY <2>4, <2>5, ConcatAssociative
    <3> QED  BY <2>6, <3>1, <3>2
  <2>8. Begins(s \o wire, conn, asked)
    BY <2>2 DEF Current, s
  <2>9. Begins(s \o t, conn, asked)
    BY <2>5, <2>7, <2>8, BeginsPrefix
  <2>10. Parse(s \o t)  BY <2>3 DEF s, t
  <2>11. /\ parsed' \o buffer' = s \o t
         /\ parsed' \in Seq(Tokens) /\ buffer' \in Seq(Tokens)
         /\ NoEnd(buffer)'
    <3>1. NoEnd(buffer') <=> NoEnd(buffer)'  BY DEF NoEnd
    <3> QED  BY <3>1, <1>1, <2>9, <2>10, ParseSplits
  <2>12. Current'
    <3>1. (parsed' \o buffer') \o wire' = s \o wire  BY <2>7, <2>11
    <3>2. end = "open" => sent = 5 * (asked - 1) + Len(s \o wire)
      BY <2>2 DEF Current, s
    <3> QED  BY <1>1, <2>8, <3>1, <3>2 DEF Current
  <2> QED  BY <1>1, <2>5, <2>11, <2>12 DEF CleanInv
<1> QED  BY <1>1, <1>2 DEF Inv, AnswersItsRequest

LEMMA ReadFailsInv == ASSUME Inv, ReadFails PROVE Inv'
BY DEF Inv, ReadFails, host, CleanInv, AtRest, AnswersItsRequest, NoEnd

\* On a connection that is clean no first line is refused but the end of one.
LEMMA RefuseInv == ASSUME Inv, Refuse PROVE Inv'
<1> PICK s : s = parsed \o buffer
  OBVIOUS
<1>1. /\ s # <<>> /\ (s[1].part # "start" \/ (Len(s) > 1 /\ s[2].part # "lines"))
      /\ phase = "reading" /\ phase' = "idle" /\ buffer' = SubSeq(s, 0 + 1, Len(s))
      /\ UNCHANGED <<conn, socket, asked, sent, end, clean, wire, results>>
  BY DEF Refuse, ParserGivesUp, host
<1>2. ASSUME clean PROVE CleanInv'
  <2>1. CleanInv /\ s \in Seq(Tokens) /\ conn \in Nat /\ asked \in Nat
    BY <1>1, <1>2, Concat DEF Inv, CleanInv
  <2>2. ASSUME Current PROVE FALSE
    <3>1. Begins(s, conn, asked)  BY <2>1, <2>2, BeginsPrefix DEF CleanInv, Current
    <3>2. Len(s) \in 0..5 /\ Len(s) # 0  BY <1>1, <2>1, <3>1, BeginningParts, EmptySeq
    <3>3. 1 \in 1..Len(s) /\ (Len(s) > 1 => 2 \in 1..Len(s))  BY <3>2
    <3>4. s[1].part = "start" /\ (Len(s) > 1 => s[2].part = "lines")
      <4>1. \A i \in 1..Len(s) : s[i] = Response(conn, asked)[i]
        BY <3>1 DEF Begins
      <4> QED  BY <3>3, <4>1, ResponseParts
    <3> QED  BY <1>1, <3>4
  <2>3. Dead  BY <1>1, <2>1, <2>2 DEF CleanInv
  <2>4. buffer' = s  BY <1>1, <2>1, SubSeqFull
  <2>5. NoEnd(buffer)' /\ wire' = <<>> /\ end' # "open"
    BY <1>1, <2>3, <2>4 DEF Dead, NoEnd
  <2> QED  BY <1>1, <2>1, <2>4, <2>5, EmptySeq DEF CleanInv, AtRest
<1> QED  BY <1>1, <1>2 DEF Inv, AnswersItsRequest

\* Once a parser has refused a response the connection is clean no more.
LEMMA ParserFailsInv == ASSUME Inv, ParserFails PROVE Inv'
BY DEF Inv, ParserFails, ParserGivesUp, host, AnswersItsRequest

\* On one that is clean no body is left over.
LEMMA MisreadInv == ASSUME Inv, Misread PROVE Inv'
<1>1. /\ UNCHANGED <<conn, socket, asked, sent, clean>> /\ phase' = "idle"
      /\ results' = results \cup {[nr |-> made, conn |-> conn, request |-> asked,
                                   clean |-> clean, got |-> parsed']}
  BY DEF Misread, Succeed, host
<1>2. ASSUME clean PROVE FALSE
  <2>1. NoEnd(buffer) /\ buffer \in Seq(Tokens)  BY <1>2 DEF Inv, CleanInv
  <2>2. buffer # <<>> /\ buffer[1].part = "body"  BY DEF Misread
  <2>3. 1 \in DOMAIN buffer  BY <2>1, <2>2, EmptySeq, LenProperties
  <2> QED  BY <2>1, <2>2, <2>3 DEF NoEnd
<1>3. \A r \in results' : r \in results \/ ~r.clean
  BY <1>1, <1>2
<1> QED  BY <1>1, <1>2, <1>3 DEF Inv, AnswersItsRequest

LEMMA WrittenInv == ASSUME Inv, Written PROVE Inv'
<1>1. /\ conn \in Nat /\ asked \in Nat /\ sent \in Nat /\ phase = "writing"
      /\ phase' = "reading" /\ asked' = asked + 1
      /\ UNCHANGED <<conn, sent, end, clean, wire, buffer, parsed, results>>
  BY DEF Inv, Written
<1>2. ASSUME clean PROVE CleanInv'
  <2>1. CleanInv /\ AtRest /\ parsed = <<>>  BY <1>1, <1>2 DEF Inv, CleanInv
  <2>2. parsed \o buffer = buffer  BY <2>1, ConcatEmptySeq DEF CleanInv
  <2>3. CASE end = "open"
    <3>1. buffer = <<>> /\ wire = <<>> /\ sent = 5 * asked  BY <2>1, <2>3 DEF AtRest
    <3>2. (parsed' \o buffer') \o wire' = <<>>
      BY <1>1, <2>2, <3>1, ConcatEmptySeq, EmptySeq
    <3>3. Current'  BY <1>1, <3>1, <3>2, EmptySeq DEF Current, Begins
    <3> QED  BY <1>1, <2>1, <3>3 DEF CleanInv, NoEnd
  <2>4. CASE end # "open"
    <3>1. Dead'  BY <1>1, <2>1, <2>2, <2>4 DEF Dead, AtRest, CleanInv, NoEnd
    <3> QED  BY <1>1, <2>1, <3>1 DEF CleanInv, NoEnd
  <2> QED  BY <2>3, <2>4
<1> QED  BY <1>1, <1>2 DEF Inv, AnswersItsRequest

LEMMA HostSendsInv == ASSUME Inv, HostSends PROVE Inv'
<1>1. /\ conn \in Nat /\ asked \in Nat /\ sent \in Nat /\ sent < 5 * asked
      /\ end = "open" /\ sent' = sent + 1
      /\ wire' = Append(wire, Response(conn, (sent \div 5) + 1)[(sent % 5) + 1])
      /\ UNCHANGED <<phase, conn, asked, end, clean, buffer, parsed, results>>
  BY DEF Inv, HostSends
<1>2. ASSUME clean PROVE CleanInv'
  <2>1. CleanInv  BY <1>2 DEF Inv
  <2>2. phase = "reading" /\ Current  BY <1>1, <2>1 DEF CleanInv, AtRest, Dead
  <2> DEFINE s == parsed \o buffer
  <2> DEFINE k == Len(s \o wire)
  <2> DEFINE e == Response(conn, (sent \div 5) + 1)[(sent % 5) + 1]
  <2>3. s \in Seq(Tokens) /\ wire \in Seq(Tokens)
    BY <2>1, <2>2, Concat DEF CleanInv
  <2>4. s \o wire \in Seq(Tokens) /\ k \in Nat
    BY <2>3, ConcatProperties, LenProperties
  <2>5. /\ sent = 5 * (asked - 1) + k /\ k <= 5
        /\ \A i \in 1..k : (s \o wire)[i] = Response(conn, asked)[i]
    BY <1>1, <2>2 DEF Current, Begins
  <2> HIDE DEF s, k
  <2>6. k \in 0..4 /\ sent \div 5 = asked - 1 /\ sent % 5 = k
    <3>1. k \in 0..4 /\ asked - 1 \in Nat  BY <1>1, <2>4, <2>5
    <3> QED  BY <3>1, <2>5, DivideByFive
  <2>7. e = Response(conn, asked)[k + 1] /\ e \in Tokens
    <3>1. e = Response(conn, asked)[k + 1]
      <4>1. (asked - 1) + 1 = asked  BY <1>1
      <4> QED  BY <2>6, <4>1 DEF e
    <3>2. k + 1 \in 1..5  BY <2>6
    <3> QED  BY <1>1, <3>1, <3>2, ResponseParts
  <2> HIDE DEF e
  <2>8. wire' = Append(wire, e) /\ wire' \in Seq(Tokens)
    BY <1>1, <2>3, <2>7, AppendProperties DEF e
  <2>9. s \o wire' = Append(s \o wire, e)
    BY <2>3, <2>4, <2>7, <2>8, AppendIsConcat, ConcatAssociative
  <2>10. /\ s \o wire' \in Seq(Tokens) /\ Len(s \o wire') = k + 1
         /\ \A i \in 1..k : (s \o wire')[i] = (s \o wire)[i]
         /\ (s \o wire')[k + 1] = e
    BY <2>4, <2>7, <2>9, AppendProperties DEF k
  <2>11. Begins(s \o wire', conn, asked)
    <3>1. \A i \in 1..k + 1 : (s \o wire')[i] = Response(conn, asked)[i]
      <4> TAKE i \in 1..k + 1
      <4>1. i \in 1..k \/ i = k + 1  BY <2>6
      <4> QED  BY <4>1, <2>5, <2>7, <2>10
    <3> QED  BY <2>6, <2>10, <3>1 DEF Begins
  <2>12. Current'
    <3>1. (parsed' \o buffer') \o wire' = s \o wire'  BY <1>1 DEF s
    <3>2. sent' = 5 * (asked - 1) + (k + 1)  BY <1>1, <2>5, <2>6
    <3> QED  BY <1>1, <2>10, <2>11, <3>1, <3>2 DEF Current
  <2> QED  BY <1>1, <2>1, <2>2, <2>8, <2>12 DEF CleanInv, NoEnd
<1>3. phase # "connecting" /\ UNCHANGED socket  BY DEF Inv, HostSends
<1> QED  BY <1>1, <1>2, <1>3 DEF Inv, AnswersItsRequest

LEMMA HostLeavesInv == ASSUME Inv, HostLeaves PROVE Inv'
<1>1. /\ conn \in Nat /\ asked \in Nat /\ sent \in Nat
      /\ end = "open" /\ end' # "open" /\ (wire' = wire \/ wire' = <<>>)
      /\ UNCHANGED <<phase, conn, socket, asked, sent, clean, buffer, parsed, results>>
  BY DEF Inv, HostLeaves
<1>2. ASSUME clean PROVE CleanInv'
  <2>1. CleanInv  BY <1>2 DEF Inv
  <2>2. wire' \in Seq(Tokens)  BY <1>1, <2>1, EmptySeq DEF CleanInv
  <2>3. CASE phase = "reading"
    <3> DEFINE s == parsed \o buffer
    <3>1. Begins(s \o wire, conn, asked) /\ s \in Seq(Tokens) /\ wire \in Seq(Tokens)
      BY <1>1, <2>1, <2>3, Concat DEF CleanInv, Current, Dead
    <3> HIDE DEF s
    <3>2. Begins(s, conn, asked)  BY <3>1, BeginsPrefix
    <3>3. s \o <<>> = s  BY <3>1, ConcatEmptySeq
    <3>4. Begins(s \o wire', conn, asked)  BY <1>1, <3>1, <3>2, <3>3
    <3>5. Current'  BY <1>1, <3>4 DEF Current, s
    <3> QED  BY <1>1, <2>1, <2>2, <2>3, <3>5 DEF CleanInv, NoEnd
  <2>4. CASE phase # "reading"
    BY <1>1, <2>1, <2>2, <2>4 DEF CleanInv, AtRest, NoEnd
  <2> QED  BY <2>3, <2>4
<1> QED  BY <1>1, <1>2 DEF Inv, AnswersItsRequest

LEMMA ResolvedInv == ASSUME Inv, Resolved PROVE Inv'
<1>1. CleanInv => CleanInv'
  BY EmptySeq DEF Resolved, host, CleanInv, AtRest, NoEnd
<1> QED  BY <1>1 DEF Inv, Resolved, host, AnswersItsRequest

\* A connection is clean if the buffer is empty, whatever came before.
LEMMA ConnectedInv == ASSUME Inv, Connected PROVE Inv'
<1>1. ASSUME clean' PROVE CleanInv'
  <2>1. buffer' = <<>> /\ wire' = <<>>  BY <1>1 DEF Connected, Inv
  <2> QED  BY <2>1, EmptySeq, NoEndInEmpty DEF Connected, CleanInv, AtRest, NoEnd
<1> QED  BY <1>1 DEF Inv, Connected, AnswersItsRequest

LEMMA RequestCallInv == ASSUME Inv, RequestCall PROVE Inv'
<1>1. CleanInv => CleanInv'
  BY DEF RequestCall, host, CleanInv, AtRest, NoEnd
<1> QED  BY <1>1 DEF Inv, RequestCall, host, AnswersItsRequest

\* The steps that begin or end a call and move nothing.
LEMMA OtherInv ==
  ASSUME Inv, ConnectCall \/ ResolveFails \/ ConnectFails \/ WriteFails \/ Shutdown
  PROVE  Inv'
<1>1. /\ UNCHANGED <<conn, clean, host, wire, buffer, parsed, results>>
      /\ phase # "reading" /\ phase' \notin {"writing", "reading", "connecting"}
  BY DEF ConnectCall, ResolveFails, ConnectFails, WriteFails, Shutdown
<1>2. CleanInv => CleanInv'
  BY <1>1 DEF host, CleanInv, AtRest, NoEnd
<1> QED  BY <1>1, <1>2 DEF Inv, host, AnswersItsRequest

LEMMA StutterInv == ASSUME Inv, UNCHANGED vars PROVE Inv'
BY DEF Inv, vars, host, CleanInv, AtRest, Current, Dead, Begins, NoEnd, AnswersItsRequest

LEMMA InitInv == Init => Inv
BY EmptySeq, NoEndInEmpty DEF Init, Inv, CleanInv, AtRest, AnswersItsRequest

LEMMA NextInv == Inv /\ [Next]_vars => Inv'
<1> SUFFICES ASSUME Inv, [Next]_vars PROVE Inv'
  OBVIOUS
<1>1. CASE ConnectCall \/ ResolveFails \/ ConnectFails \/ WriteFails \/ Shutdown
  BY <1>1, OtherInv
<1>2. CASE Resolved      BY <1>2, ResolvedInv
<1>3. CASE Connected     BY <1>3, ConnectedInv
<1>4. CASE RequestCall   BY <1>4, RequestCallInv
<1>5. CASE Written       BY <1>5, WrittenInv
<1>6. CASE Finish        BY <1>6, FinishInv
<1>7. CASE Refuse        BY <1>7, RefuseInv
<1>8. CASE ReadSome      BY <1>8, ReadSomeInv
<1>9. CASE ReadFails     BY <1>9, ReadFailsInv
<1>10. CASE HostSends    BY <1>10, HostSendsInv
<1>11. CASE HostLeaves   BY <1>11, HostLeavesInv
<1>12. CASE UNCHANGED vars  BY <1>12, StutterInv
<1>13. CASE ParserFails  BY <1>13, ParserFailsInv
<1>14. CASE Misread      BY <1>14, MisreadInv
<1> QED
  BY <1>1, <1>2, <1>3, <1>4, <1>5, <1>6, <1>7, <1>8, <1>9, <1>10, <1>11, <1>12,
     <1>13, <1>14 DEF Next, Session

\* On a connection made while the buffer was empty, a request that succeeds
\* before any parser has refused a response was given the response of the host
\* it was sent to, to that request (client_session.impl.hpp:146-170).
THEOREM ResponsesPairWithRequests == FairSpec => []AnswersItsRequest
<1>1. Inv => AnswersItsRequest  BY DEF Inv
<1> QED  BY <1>1, InitInv, NextInv, PTL DEF FairSpec

-----------------------------------------------------------------------------
(***************************************************************************)
(* Type correctness, for which the host's answers must be to requests that *)
(* were made on a connection that is there.                                *)
(***************************************************************************)
Bounded ==
  /\ phase \in {"resolving", "connecting"} => conn < MaxConns
  /\ phase = "connecting" => socket = "closed" /\ wire = <<>>
  /\ socket # "closed" => conn >= 1
  /\ phase = "writing" => asked < made

LEMMA Least ==
  ASSUME NEW T \in SUBSET Nat, T # {}
  PROVE  \E m \in T : \A y \in T : m <= y
<1> DEFINE R == OpToRel(<, Nat)
<1>1. IsWellFoundedOn(R, Nat)  BY NatLessThanWellFounded
<1>2. \A x, y \in Nat : <<y, x>> \in R <=> y < x  BY DEF OpToRel
<1> HIDE DEF R
<1>3. PICK m \in T : \A y \in T : ~(<<y, m>> \in R)  BY <1>1, WFMin
<1>4. ASSUME NEW y \in T PROVE m <= y
  <2>1. m \in Nat /\ y \in Nat  OBVIOUS
  <2>2. ~(<<y, m>> \in R)  BY <1>3
  <2>3. ~(y < m)  BY <1>2, <2>1, <2>2
  <2> QED  BY <2>1, <2>3
<1> QED  BY <1>4

LEMMA LastOrBefore == ASSUME NEW n \in Nat, NEW m \in 1..n PROVE m = n \/ m < n
OBVIOUS

\* An end of a line is a place in what the parser is given.
LEMMA EndsType ==
  ASSUME NEW s \in Seq(Parts)
  PROVE  /\ Len(s) \in Nat
         /\ HeaderEnds(s) \subseteq 1..Len(s) /\ LineEnds(s) \subseteq 1..Len(s)
BY LenProperties DEF HeaderEnds, LineEnds, EndsIn

LEMMA MaxWithin ==
  ASSUME NEW n \in Nat, NEW S \in SUBSET (1..n)
  PROVE  Max(S \cup {0}) \in 0..n
<1> DEFINE T == {n - i : i \in S \cup {0}}
<1>1. T \in SUBSET Nat /\ T # {}  OBVIOUS
<1>2. PICK t \in T : \A y \in T : t <= y  BY <1>1, Least
<1>3. PICK m \in S \cup {0} : t = n - m  OBVIOUS
<1>4. ASSUME NEW y \in S \cup {0} PROVE m >= y
  <2>1. n - y \in T  OBVIOUS
  <2>2. t <= n - y  BY <1>2, <2>1
  <2>3. m \in Nat /\ y \in Nat  OBVIOUS
  <2> HIDE DEF T
  <2> QED  BY <1>3, <2>2, <2>3
<1> HIDE DEF T
<1>5. Max(S \cup {0}) = m
  <2>1. S \cup {0} \in SUBSET Nat  OBVIOUS
  <2> QED  BY <1>4, <2>1, MaxIs
<1> QED  BY <1>5

\* The parser takes no more than it is given.
LEMMA TakenBound ==
  ASSUME NEW s \in Seq(Parts)
  PROVE  Taken(s) \in 0..Len(s)
<1>1. Len(s) \in Nat  BY LenProperties
<1>2. CASE HeaderEnds(s) = {}  BY <1>1, <1>2, EndsType, MaxWithin DEF Taken
<1>3. CASE HeaderEnds(s) # {}
  <2>1. HeaderEnds(s) \in SUBSET Nat  BY <1>1, EndsType
  <2>2. PICK m \in HeaderEnds(s) : \A y \in HeaderEnds(s) : m <= y  BY <1>3, <2>1, Least
  <2>3. m \in 1..Len(s) /\ Min(HeaderEnds(s)) = m
    BY <1>1, <2>1, <2>2, MinIs, EndsType
  <2>4. Taken(s) = Min({m + 1, Len(s)})  BY <1>3, <2>3 DEF Taken
  <2>5. CASE m = Len(s)
    <3>1. Min({m + 1, Len(s)}) = Len(s)
      <4>1. {m + 1, Len(s)} \in SUBSET Nat /\ Len(s) \in {m + 1, Len(s)}
            /\ \A y \in {m + 1, Len(s)} : Len(s) <= y
        BY <1>1, <2>3, <2>5
      <4> QED  BY <4>1, MinIs
    <3> QED  BY <1>1, <2>4, <3>1
  <2>6. CASE m < Len(s)
    <3> DEFINE k == m + 1
    <3>1. k \in 0..Len(s)
      <4>1. m \in Nat /\ m <= Len(s)  BY <1>1, <2>3
      <4> QED  BY <1>1, <2>6, <4>1
    <3>2. Taken(s) = Min({k, Len(s)})  BY <2>4
    <3> HIDE DEF k
    <3>3. {k, Len(s)} \in SUBSET Nat /\ \A y \in {k, Len(s)} : k <= y  BY <1>1, <3>1
    <3>4. Min({k, Len(s)}) = k  BY <3>3, MinIs
    <3> QED  BY <3>1, <3>2, <3>4
  <2>7. m = Len(s) \/ m < Len(s)  BY <1>1, <2>3, LastOrBefore
  <2> QED  BY <2>5, <2>6, <2>7
<1> QED  BY <1>2, <1>3

LEMMA SliceType ==
  ASSUME NEW s \in Seq(Parts), NEW m \in Nat, m <= Len(s)
  PROVE  SubSeq(s, 1, m) \in Seq(Parts) /\ SubSeq(s, m + 1, Len(s)) \in Seq(Parts)
<1>1. Len(s) \in Nat /\ \A i \in 1..Len(s) : s[i] \in Parts  BY LenProperties, ElementOfSeq
<1> QED  BY <1>1, SubSeqProperties

LEMMA ParseTypes ==
  ASSUME NEW s \in Seq(Parts), Parse(s)
  PROVE  parsed' \in Seq(Parts) /\ buffer' \in Seq(Parts)
<1>1. Taken(s) \in Nat /\ Taken(s) <= Len(s)  BY TakenBound, LenProperties
<1> QED  BY <1>1, SliceType DEF Parse

\* The part the host sends next is one of an answer it owes.
LEMMA PartTypes ==
  ASSUME NEW c \in 1..MaxConns, NEW n \in 1..MaxRequests, NEW i \in 1..5
  PROVE  Response(c, n)[i] \in Parts
<1>1. i = 1 \/ i = 2 \/ i = 3 \/ i = 4 \/ i = 5  OBVIOUS
<1>2. \A p \in PartNames : Part(c, n, p) \in Parts  BY DEF Part, Parts
<1> QED  BY <1>1, <1>2 DEF Response, PartNames

LEMMA FifthOf ==
  ASSUME NEW n \in Nat
  PROVE  /\ n \div 5 \in Nat /\ n % 5 \in 0..4
         /\ \A m \in Nat : n < 5 * m => n \div 5 < m
OBVIOUS

LEMMA HostSendsTypes == ASSUME TypeOK, Bounded, HostSends PROVE TypeOK' /\ Bounded'
<1>1. /\ conn \in 1..MaxConns /\ asked \in Nat /\ asked <= made /\ made \in Nat
      /\ made <= MaxRequests /\ sent \in Nat /\ sent < 5 * asked /\ phase # "connecting"
  BY ClientSessionAssumption DEF TypeOK, Bounded, HostSends
<1>2. (sent \div 5) + 1 \in 1..MaxRequests /\ (sent % 5) + 1 \in 1..5
  BY <1>1, FifthOf, ClientSessionAssumption
<1> DEFINE e == Response(conn, (sent \div 5) + 1)[(sent % 5) + 1]
<1>3. e \in Parts  BY <1>1, <1>2, PartTypes
<1> HIDE DEF e
<1>4. wire' = Append(wire, e)  BY DEF HostSends, e
<1>5. wire \in Seq(Parts) /\ Len(wire) <= sent  BY DEF TypeOK
<1>6. wire' \in Seq(Parts) /\ Len(wire') = Len(wire) + 1 /\ Len(wire) \in Nat
  BY <1>3, <1>4, <1>5, AppendProperties, LenProperties
<1>7. sent' = sent + 1 /\ sent' \in 0..5 * asked' /\ Len(wire') <= sent'
  BY <1>1, <1>5, <1>6 DEF HostSends
<1> QED  BY <1>1, <1>6, <1>7 DEF TypeOK, Bounded, HostSends

LEMMA ReadSomeTypes == ASSUME TypeOK, Bounded, ReadSome PROVE TypeOK' /\ Bounded'
<1>1. PICK n \in 1..Len(wire) : /\ Parse(parsed \o buffer \o SubSeq(wire, 1, n))
                                /\ wire' = SubSeq(wire, n + 1, Len(wire))
  BY DEF ReadSome
<1>2. /\ parsed \in Seq(Parts) /\ buffer \in Seq(Parts) /\ wire \in Seq(Parts)
      /\ Len(wire) \in Nat /\ Len(wire) <= sent /\ sent \in Nat
  BY LenProperties DEF TypeOK
<1>3. SubSeq(wire, 1, n) \in Seq(Parts) /\ wire' \in Seq(Parts)
  BY <1>1, <1>2, SliceType
<1>4. parsed \o buffer \o SubSeq(wire, 1, n) \in Seq(Parts)
  BY <1>2, <1>3, ConcatProperties
<1>5. parsed' \in Seq(Parts) /\ buffer' \in Seq(Parts)
  BY <1>1, <1>4, ParseTypes
<1>6. Len(wire') <= sent
  <2>1. Len(wire') = Len(wire) - n  BY <1>1, <1>2, SubSeqProperties, ElementOfSeq
  <2>2. Len(wire') \in Nat  BY <1>3, LenProperties
  <2> QED  BY <1>2, <2>1, <2>2
<1> QED  BY <1>3, <1>5, <1>6 DEF TypeOK, Bounded, ReadSome, host

LEMMA FinishTypes == ASSUME TypeOK, Bounded, Finish PROVE TypeOK' /\ Bounded'
<1>1. parsed \o buffer \in Seq(Parts)  BY ConcatProperties DEF TypeOK
<1>2. parsed' \in Seq(Parts) /\ buffer' \in Seq(Parts)
  BY <1>1, ParseTypes DEF Finish
<1> QED  BY <1>2 DEF TypeOK, Bounded, Finish, Succeed, host

LEMMA MisreadTypes == ASSUME TypeOK, Bounded, Misread PROVE TypeOK' /\ Bounded'
<1>1. buffer \in Seq(Parts) /\ buffer # <<>>  BY DEF TypeOK, Misread
<1>2. buffer[1] \in Parts /\ Tail(buffer) \in Seq(Parts)
  BY <1>1, HeadTailProperties
<1>3. parsed' \in Seq(Parts) /\ buffer' \in Seq(Parts)
  BY <1>2 DEF Misread
<1> QED  BY <1>3 DEF TypeOK, Bounded, Misread, Succeed, host

LEMMA GivesUpTypes ==
  ASSUME TypeOK, Bounded, NEW n \in LineEnds(parsed \o buffer) \cup {0},
         ParserGivesUp(parsed \o buffer, n), clean' \in BOOLEAN
  PROVE  TypeOK' /\ Bounded'
<1> PICK s : s = parsed \o buffer
  OBVIOUS
<1>1. s \in Seq(Parts)  BY ConcatProperties DEF TypeOK
<1>2. n \in Nat /\ n <= Len(s)
  <2>1. Len(s) \in Nat /\ LineEnds(s) \subseteq 1..Len(s)  BY <1>1, EndsType
  <2> QED  BY <2>1
<1>3. parsed' \in Seq(Parts) /\ buffer' \in Seq(Parts)
  BY <1>1, <1>2, SliceType DEF ParserGivesUp
<1> QED  BY <1>3 DEF TypeOK, Bounded, ParserGivesUp, host

LEMMA TypesInit == Init => TypeOK /\ Bounded
BY ClientSessionAssumption, EmptySeq DEF Init, TypeOK, Bounded

LEMMA TypesNext == TypeOK /\ Bounded /\ [Next]_vars => TypeOK' /\ Bounded'
<1> SUFFICES ASSUME TypeOK, Bounded, [Next]_vars PROVE TypeOK' /\ Bounded'
  OBVIOUS
<1> USE ClientSessionAssumption
<1>1. CASE ConnectCall  BY <1>1 DEF TypeOK, Bounded, ConnectCall, host
<1>2. CASE RequestCall  BY <1>2, EmptySeq DEF TypeOK, Bounded, RequestCall, host
<1>3. CASE Shutdown     BY <1>3 DEF TypeOK, Bounded, Shutdown, host
<1>4. CASE ResolveFails BY <1>4 DEF TypeOK, Bounded, ResolveFails, host
<1>5. CASE Resolved     BY <1>5, EmptySeq DEF TypeOK, Bounded, Resolved, host
<1>6. CASE ConnectFails BY <1>6 DEF TypeOK, Bounded, ConnectFails, host
<1>7. CASE Connected    BY <1>7, EmptySeq DEF TypeOK, Bounded, Connected
<1>8. CASE Written      BY <1>8 DEF TypeOK, Bounded, Written
<1>9. CASE WriteFails   BY <1>9 DEF TypeOK, Bounded, WriteFails, host
<1>10. CASE ReadFails   BY <1>10 DEF TypeOK, Bounded, ReadFails, host
<1>11. CASE HostLeaves
  <2>1. wire' \in Seq(Parts) /\ Len(wire') <= sent
    <3>1. wire' = wire \/ wire' = <<>>  BY <1>11 DEF HostLeaves
    <3>2. wire \in Seq(Parts) /\ Len(wire) <= sent /\ sent \in Nat  BY DEF TypeOK
    <3>3. <<>> \in Seq(Parts) /\ Len(<<>>) = 0  BY EmptySeq
    <3>4. CASE wire' = wire  BY <3>2, <3>4
    <3>5. CASE wire' = <<>>  BY <3>2, <3>3, <3>5
    <3> QED  BY <3>1, <3>4, <3>5
  <2> QED  BY <1>11, <2>1 DEF TypeOK, Bounded, HostLeaves
<1>12. CASE UNCHANGED vars  BY <1>12 DEF TypeOK, Bounded, vars, host
<1>13. CASE Refuse       BY <1>13, GivesUpTypes DEF Refuse, TypeOK
<1>14. CASE ParserFails  BY <1>14, GivesUpTypes DEF ParserFails
<1> QED
  BY <1>1, <1>2, <1>3, <1>4, <1>5, <1>6, <1>7, <1>8, <1>9, <1>10, <1>11, <1>12,
     <1>13, <1>14, FinishTypes, MisreadTypes, ReadSomeTypes, HostSendsTypes
  DEF Next, Session

\* A session, its parser and its host are type correct: the host answers
\* only what it was asked, and no more than it sent is on the wire.
THEOREM ClientTypes == FairSpec => []TypeOK
BY TypesInit, TypesNext, PTL DEF FairSpec
-----------------------------------------------------------------------------
(***************************************************************************)
(* The first connection of a session is made with an empty buffer, and its *)
(* responses are told from those of later ones by the connection's number. *)
(* It stays clean until the parser of a request refuses its response.      *)
(***************************************************************************)
Refused(n) == \E m \in Choosy : m < n

First ==
  /\ conn = 0 => socket = "closed" /\ buffer = <<>> /\ phase # "reading"
  /\ conn = 1 /\ ~clean =>
       \/ Refused(made)
       \/ made \in Choosy /\ phase \notin {"writing", "reading"}
  /\ \A r \in results : /\ r.conn \in 1..conn /\ r.nr \in Nat
                        /\ r.conn = 1 /\ ~r.clean => Refused(r.nr)

LEMMA FirstInit == Init => First
BY DEF Init, First

LEMMA FirstNext == TypeOK /\ First /\ [Next]_vars => First'
<1> SUFFICES ASSUME TypeOK, First, [Next]_vars PROVE First'
  OBVIOUS
<1>0. conn \in Nat /\ made \in Nat /\ clean \in BOOLEAN /\ Choosy \subseteq Nat
  BY ClientSessionAssumption DEF TypeOK
<1>1. CASE ConnectCall \/ ResolveFails \/ ConnectFails \/ WriteFails
             \/ ReadFails \/ UNCHANGED vars
  BY <1>1 DEF First, ConnectCall, ResolveFails, ConnectFails, WriteFails,
              ReadFails, vars, host
<1>2. CASE Shutdown \/ Resolved \/ HostSends \/ HostLeaves
  BY <1>2 DEF First, Shutdown, Resolved, HostSends, HostLeaves
<1>3. CASE Written
  BY <1>3 DEF First, Written
<1>4. CASE ReadSome
  BY <1>4 DEF First, ReadSome
<1>5. CASE Refuse
  BY <1>5 DEF First, Refuse, ParserGivesUp
<1>6. CASE ParserFails
  BY <1>6 DEF First, ParserFails, ParserGivesUp
<1>7. CASE RequestCall
  <2>1. made' = made + 1 /\ UNCHANGED <<conn, socket, clean, buffer, results>>
        /\ phase' = "writing"
    BY <1>7 DEF RequestCall
  <2>2. Refused(made) \/ made \in Choosy => Refused(made')
    BY <1>0, <2>1 DEF Refused
  <2> QED  BY <2>1, <2>2 DEF First
<1>8. CASE Connected
  <2>1. conn' = conn + 1 /\ results' = results /\ (clean' <=> buffer = <<>>)
    BY <1>8 DEF Connected
  <2>2. conn' # 0 /\ (conn' = 1 => conn = 0)  BY <1>0, <2>1
  <2>3. \A r \in results : r.conn \in 1..conn'
    <3> SUFFICES ASSUME NEW r \in results PROVE r.conn \in 1..conn'
      OBVIOUS
    <3>1. r.conn \in 1..conn  BY DEF First
    <3>2. 1..conn \subseteq 1..(conn + 1)  BY <1>0
    <3> QED  BY <2>1, <3>1, <3>2
  <2> QED  BY <2>1, <2>2, <2>3 DEF First
<1>9. CASE Finish \/ Misread
  <2>1. /\ UNCHANGED <<conn, socket, clean, made>> /\ conn # 0 /\ phase = "reading"
        /\ results' = results \cup {[nr |-> made, conn |-> conn, request |-> asked,
                                     clean |-> clean, got |-> parsed']}
    BY <1>9 DEF Finish, Misread, Succeed, First
  <2>2. conn = 1 /\ ~clean => Refused(made)
    BY <2>1 DEF First
  <2>3. ASSUME NEW r \in results'
        PROVE  r.conn \in 1..conn /\ r.nr \in Nat /\ (r.conn = 1 /\ ~r.clean => Refused(r.nr))
    <3>1. CASE r \in results  BY <3>1 DEF First
    <3>2. CASE r.conn = conn /\ r.clean = clean /\ r.nr = made
      BY <1>0, <2>1, <2>2, <3>2
    <3> QED  BY <2>1, <3>1, <3>2
  <2>4. conn' # 0 /\ (conn' = 1 /\ ~clean' => Refused(made'))
    BY <2>1, <2>2
  <2> QED  BY <2>1, <2>3, <2>4 DEF First
<1> QED
  BY <1>1, <1>2, <1>3, <1>4, <1>5, <1>6, <1>7, <1>8, <1>9 DEF Next, Session

\* A request that succeeds on the first connection was given its own response,
\* unless the parser of an earlier request may have refused one.  So what is
\* said of async_request (client_session.hpp:75-76) holds of a session that is
\* connected once and whose parsers take every response that is well formed.
THEOREM FirstHostAnswers ==
  FairSpec => [](/\ \A r \in results : r.conn = 1 /\ (\A m \in Choosy : m >= r.nr) =>
                      r.got = Response(r.conn, r.request)
                 /\ conn <= 1 /\ Choosy = {} => ResponseIsTheHosts)
<1>1. FairSpec => []First  BY FirstInit, FirstNext, ClientTypes, PTL DEF FairSpec
<1>2. First /\ TypeOK /\ AnswersItsRequest =>
        /\ \A r \in results : r.conn = 1 /\ (\A m \in Choosy : m >= r.nr) =>
             r.got = Response(r.conn, r.request)
        /\ conn <= 1 /\ Choosy = {} => ResponseIsTheHosts
  <2> SUFFICES ASSUME First, TypeOK, AnswersItsRequest, NEW r \in results,
                      \/ r.conn = 1 /\ (\A m \in Choosy : m >= r.nr)
                      \/ conn <= 1 /\ Choosy = {}
               PROVE  r.got = Response(r.conn, r.request)
    BY DEF ResponseIsTheHosts
  <2>1. r.conn \in 1..conn /\ conn \in Nat /\ r.nr \in Nat /\ Choosy \subseteq Nat
    BY ClientSessionAssumption DEF First, TypeOK
  <2>2. r.conn = 1  BY <2>1
  <2>3. ~Refused(r.nr)  BY <2>1 DEF Refused
  <2> QED  BY <2>2, <2>3 DEF First, AnswersItsRequest
<1> QED  BY <1>1, <1>2, ClientTypes, ResponsesPairWithRequests, PTL
=============================================================================
