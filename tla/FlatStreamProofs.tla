-------------------------- MODULE FlatStreamProofs --------------------------
(***************************************************************************)
(* Proofs about the coalescing writes of flat_stream, for any limit and    *)
(* any buffer sequences.                                                   *)
(*                                                                         *)
(* As a buffer sequence is given by where its buffers end, the sums that   *)
(* coalesce() forms are differences: what was joined up to the buffer prev *)
(* is ends[prev] - done.                                                   *)
(***************************************************************************)
EXTENDS FlatStream, SequenceTheorems, TLAPS

Types ==
  /\ ends \in Inputs
  /\ done \in Nat /\ first \in Ahead(done)
  /\ at \in {"idle", "joining", "joined", "writing", "written", "handler",
             "failed", "stopped"}
  /\ size \in Nat /\ memory \in Nat /\ heap \in Nat /\ n \in Nat /\ ok \in BOOLEAN

\* What was counted of the rest: the buffers up to prev, all of which fit but
\* for a first one that alone reaches the limit.
Counted ==
  at \in {"joining", "joined", "writing", "written"} =>
    /\ first <= Len(ends)
    /\ prev \in first..Len(ends)
    /\ size = ends[prev] - done
    /\ IF prev = first
       THEN (at = "joining" => SizeOf(first) < Limit)
       ELSE SizeOf(first) < Limit /\ size <= Limit

\* Once the loop of coalesce() has ended, the next buffer does not fit.
Full ==
  at \in {"joined", "writing", "written"} =>
    \/ prev = first /\ SizeOf(first) >= Limit
    \/ prev = Len(ends)
    \/ ends[prev + 1] - done > Limit

Allocated ==
  /\ heap = memory
  /\ memory = IF at \in {"writing", "written"} /\ prev # first THEN size ELSE 0

\* What is written and not yet taken off the rest is what the handler is told.
Written ==
  /\ wire \in Seq(Nat)
  /\ \A i \in DOMAIN wire : wire[i] = i
  /\ Len(wire) = IF at \in {"written", "handler"} THEN done + n ELSE done
  /\ at \in {"written", "handler"} => done + n <= Whole
  /\ done <= Whole

Inv == Types /\ Counted /\ Full /\ Allocated /\ Written

-----------------------------------------------------------------------------
\* The ends of the buffers never decrease.
LEMMA EndsFacts ==
  ASSUME Types
  PROVE  /\ ends \in Seq(Nat) /\ Len(ends) \in Nat /\ DOMAIN ends = 1..Len(ends)
         /\ \A i \in 1..Len(ends) : ends[i] \in Nat /\ ends[i] <= Whole
         /\ \A i, j \in 1..Len(ends) : i <= j => ends[i] <= ends[j]
         /\ \A i \in 1..Len(ends) + 1 : Before(i) \in Nat /\ Before(i) <= Whole
         /\ Whole \in Nat
<1>1. /\ ends \in Seq(Nat)
      /\ \A i, j \in DOMAIN ends : i <= j => ends[i] <= ends[j]
  BY FlatStreamAssumption DEF Types
<1>2. Len(ends) \in Nat /\ DOMAIN ends = 1..Len(ends)  BY <1>1
<1>3. \A i \in 1..Len(ends) : ends[i] \in Nat  BY <1>1, <1>2
<1>4. CASE ends = <<>>
  <2>1. Len(ends) = 0 /\ Whole = 0  BY <1>4 DEF Whole
  <2> QED  BY <1>1, <1>2, <1>3, <2>1 DEF Before
<1>5. CASE ends # <<>>
  <2>1. Len(ends) \in 1..Len(ends)  BY <1>1, <1>2, <1>5, EmptySeq
  <2>2. Whole = ends[Len(ends)]  BY <1>5 DEF Whole
  <2>3. \A i \in 1..Len(ends) : ends[i] <= Whole  BY <1>1, <1>2, <2>1, <2>2
  <2>4. ASSUME NEW i \in 1..Len(ends) + 1
        PROVE  Before(i) \in Nat /\ Before(i) <= Whole
    <3>1. CASE i = 1  BY <1>3, <2>1, <2>2, <3>1 DEF Before
    <3>2. CASE i # 1
      <4>1. i - 1 \in 1..Len(ends)  BY <1>2, <3>2
      <4> QED  BY <1>3, <2>3, <3>2, <4>1 DEF Before
    <3> QED  BY <3>1, <3>2
  <2> QED  BY <1>1, <1>2, <1>3, <2>1, <2>2, <2>3, <2>4
<1> QED  BY <1>4, <1>5

\* What is left of the first buffer, and of one behind it.
LEMMA SizeFacts ==
  ASSUME Types, first <= Len(ends)
  PROVE  /\ first \in 1..Len(ends)
         /\ SizeOf(first) = ends[first] - done /\ SizeOf(first) \in Nat
         /\ \A i \in first..Len(ends) : done <= ends[i]
         /\ \A i \in first..Len(ends) - 1 :
              /\ SizeOf(i + 1) = ends[i + 1] - ends[i]
              /\ ends[i + 1] - done = (ends[i] - done) + SizeOf(i + 1)
              /\ SizeOf(i + 1) \in Nat /\ ends[i] - done \in Nat
<1> USE EndsFacts
<1>1. first \in 1..Len(ends) /\ done \in Nat /\ done <= ends[first]
  BY DEF Types, Ahead
<1>2. SizeOf(first) = ends[first] - done  BY DEF SizeOf
<1>3. \A i \in first..Len(ends) : done <= ends[i]
  <2> TAKE i \in first..Len(ends)
  <2>1. i \in 1..Len(ends) /\ ends[first] <= ends[i]  BY <1>1
  <2> QED  BY <1>1, <2>1
<1>4. ASSUME NEW i \in first..Len(ends) - 1
      PROVE  /\ SizeOf(i + 1) = ends[i + 1] - ends[i]
             /\ ends[i + 1] - done = (ends[i] - done) + SizeOf(i + 1)
             /\ SizeOf(i + 1) \in Nat /\ ends[i] - done \in Nat
  <2>1. /\ i \in 1..Len(ends) /\ i + 1 \in 1..Len(ends) /\ i + 1 # first
        /\ i + 1 # 1 /\ (i + 1) - 1 = i
    BY <1>1
  <2>2. ends[i] \in Nat /\ ends[i + 1] \in Nat /\ ends[i] <= ends[i + 1]
    BY <2>1
  <2>3. done <= ends[i]  BY <1>1, <1>3, <2>1
  <2>4. SizeOf(i + 1) = ends[i + 1] - ends[i]  BY <2>1 DEF SizeOf, Before
  <2> QED  BY <1>1, <2>2, <2>3, <2>4
<1> QED  BY <1>1, <1>2, <1>3, <1>4

LEMMA InvInit == Init => Inv
<1> SUFFICES ASSUME Init PROVE Inv
  OBVIOUS
<1>1. Types  BY DEF Init, Types
<1>2. Written
  <2>1. wire \in Seq(Nat) /\ Len(wire) = 0 /\ DOMAIN wire = {}
    BY EmptySeq DEF Init
  <2> QED  BY <1>1, <2>1, EndsFacts DEF Init, Written
<1> QED  BY <1>1, <1>2 DEF Init, Inv, Counted, Full, Allocated

-----------------------------------------------------------------------------
LEMMA WriteSomeInv == ASSUME Inv, WriteSome PROVE Inv'
<1> USE DEF Inv
<1>1. /\ first \in 1..Len(ends) /\ SizeOf(first) = ends[first] - done
      /\ SizeOf(first) \in Nat
  BY SizeFacts DEF WriteSome
<1>2. UNCHANGED <<caller, memory, heap, result, wire>> /\ at = "idle"
      /\ size' = SizeOf(first) /\ prev' = first
      /\ at' = IF SizeOf(first) < Limit THEN "joining" ELSE "joined"
  BY DEF WriteSome
<1>3. SizeOf(first)' = SizeOf(first) /\ Whole' = Whole /\ Ahead(done)' = Ahead(done)
  BY <1>2 DEF SizeOf, Before, Whole, Ahead, caller
<1>4. Types'  BY <1>1, <1>2, <1>3 DEF Types, caller, result
<1>5. Counted'  BY <1>1, <1>2, <1>3, EndsFacts DEF Counted, caller
<1>6. Full'
  BY <1>1, <1>2, <1>3, FlatStreamAssumption DEF Full, caller
<1>7. Allocated'  BY <1>2 DEF Allocated
<1>8. Written'  BY <1>2, <1>3 DEF Written, caller, result
<1> QED  BY <1>4, <1>5, <1>6, <1>7, <1>8

LEMMA JoinInv == ASSUME Inv, Join PROVE Inv'
<1> USE DEF Inv
<1>1. UNCHANGED <<caller, at, memory, heap, result, wire>> /\ at = "joining"
      /\ size' = size + SizeOf(prev + 1) /\ prev' = prev + 1
      /\ prev < Len(ends) /\ size + SizeOf(prev + 1) <= Limit
  BY DEF Join, Fits
<1>2. /\ first <= Len(ends) /\ prev \in first..Len(ends) /\ size = ends[prev] - done
      /\ SizeOf(first) < Limit
  BY <1>1 DEF Counted
<1>3. first \in 1..Len(ends) /\ prev \in first..Len(ends) - 1 /\ prev + 1 \in first..Len(ends)
      /\ prev + 1 # first
  BY <1>1, <1>2, SizeFacts, EndsFacts
<1>4. size' = ends[prev + 1] - done /\ size' \in Nat
  BY <1>1, <1>2, <1>3, SizeFacts
<1>5. SizeOf(first)' = SizeOf(first) /\ Whole' = Whole /\ Ahead(done)' = Ahead(done)
  BY <1>1 DEF SizeOf, Before, Whole, Ahead, caller
<1>6. Types'  BY <1>1, <1>4, <1>5 DEF Types, caller, result
<1>7. Counted'  BY <1>1, <1>2, <1>3, <1>4, <1>5 DEF Counted, caller
<1>8. Full'  BY <1>1 DEF Full
<1>9. Allocated'  BY <1>1 DEF Allocated
<1>10. Written'  BY <1>1, <1>5 DEF Written, caller, result
<1> QED  BY <1>6, <1>7, <1>8, <1>9, <1>10

LEMMA JoinEndsInv == ASSUME Inv, JoinEnds PROVE Inv'
<1> USE DEF Inv
<1>1. UNCHANGED <<caller, chunk, memory, heap, result, wire>> /\ at = "joining"
      /\ at' = "joined" /\ ~Fits
  BY DEF JoinEnds
<1>2. /\ first <= Len(ends) /\ prev \in first..Len(ends) /\ size = ends[prev] - done
  BY <1>1 DEF Counted
<1>3. SizeOf(first)' = SizeOf(first) /\ Whole' = Whole /\ Ahead(done)' = Ahead(done)
  BY <1>1 DEF SizeOf, Before, Whole, Ahead, caller
<1>4. prev = Len(ends) \/ ends[prev + 1] - done > Limit
  <2>1. first \in 1..Len(ends) /\ Len(ends) \in Nat  BY <1>2, SizeFacts, EndsFacts
  <2>2. CASE prev < Len(ends)
    <3>1. prev \in first..Len(ends) - 1  BY <1>2, <2>1, <2>2
    <3>2. ~(size + SizeOf(prev + 1) <= Limit)  BY <1>1, <2>2 DEF Fits
    <3>3. /\ ends[prev + 1] - done = size + SizeOf(prev + 1)
          /\ size \in Nat /\ SizeOf(prev + 1) \in Nat
      BY <1>2, <3>1, SizeFacts
    <3> QED  BY <3>2, <3>3, FlatStreamAssumption
  <2>3. CASE ~(prev < Len(ends))  BY <1>2, <2>1, <2>3
  <2> QED  BY <2>2, <2>3
<1>5. Types'  BY <1>1, <1>3 DEF Types, caller, chunk, result
<1>6. Counted'  BY <1>1, <1>3 DEF Counted, caller, chunk
<1>7. Full'  BY <1>1, <1>4 DEF Full, caller, chunk
<1>8. Allocated'  BY <1>1 DEF Allocated, chunk
<1>9. Written'  BY <1>1, <1>3 DEF Written, caller, result
<1> QED  BY <1>5, <1>6, <1>7, <1>8, <1>9

-----------------------------------------------------------------------------
LEMMA PassOnInv == ASSUME Inv, PassOn PROVE Inv'
<1> USE DEF Inv
<1>1. UNCHANGED <<caller, chunk, result, wire>> /\ at = "joined" /\ at' = "writing"
      /\ memory' = (IF prev # first THEN size ELSE 0) /\ heap' = heap + memory'
  BY DEF PassOn
<1>2. SizeOf(first)' = SizeOf(first) /\ Whole' = Whole /\ Ahead(done)' = Ahead(done)
  BY <1>1 DEF SizeOf, Before, Whole, Ahead, caller
<1>3. heap = 0 /\ memory' \in Nat /\ heap' = memory'
  BY <1>1 DEF Allocated, Types
<1>4. Types'  BY <1>1, <1>2, <1>3 DEF Types, caller, chunk, result
<1>5. Counted'  BY <1>1, <1>2 DEF Counted, caller, chunk
<1>6. Full'  BY <1>1, <1>2 DEF Full, caller, chunk
<1>7. Allocated'  BY <1>1, <1>3 DEF Allocated, caller, chunk
<1>8. Written'  BY <1>1, <1>2 DEF Written, caller, result
<1> QED  BY <1>4, <1>5, <1>6, <1>7, <1>8

\* The units of a chunk continue those on the wire.
LEMMA NextLayerWritesInv == ASSUME Inv, NextLayerWrites PROVE Inv'
<1> USE DEF Inv
<1>1. UNCHANGED <<caller, chunk, memory, heap>> /\ at = "writing" /\ at' = "written"
  BY DEF NextLayerWrites
<1>2. PICK k \in 0..size : /\ wire' = wire \o [i \in 1..k |-> done + i]
                           /\ ok' = TRUE /\ n' = k
  BY DEF NextLayerWrites
<1>3. SizeOf(first)' = SizeOf(first) /\ Whole' = Whole /\ Ahead(done)' = Ahead(done)
  BY <1>1 DEF SizeOf, Before, Whole, Ahead, caller
<1>4. k \in Nat /\ k <= size /\ size \in Nat /\ done \in Nat  BY DEF Types
<1>5. Types'  BY <1>1, <1>2, <1>3, <1>4 DEF Types, caller, chunk
<1>6. Counted'  BY <1>1, <1>3 DEF Counted, caller, chunk
<1>7. Full'  BY <1>1, <1>3 DEF Full, caller, chunk
<1>8. Allocated'  BY <1>1 DEF Allocated, caller, chunk
<1>9. Written'
  <2> DEFINE t == [i \in 1..k |-> done + i]
  <2>1. t \in Seq(Nat) /\ Len(t) = k /\ \A i \in 1..k : t[i] = done + i
    BY <1>4
  <2>2. wire \in Seq(Nat) /\ Len(wire) = done /\ \A i \in 1..done : wire[i] = i
    BY <1>1 DEF Written
  <2> HIDE DEF t
  <2>3. /\ wire' \in Seq(Nat) /\ Len(wire') = done + k
        /\ \A i \in 1..Len(wire) + Len(t) :
             (wire \o t)[i] = IF i <= Len(wire) THEN wire[i] ELSE t[i - Len(wire)]
    BY <1>2, <2>1, <2>2, ConcatProperties DEF t
  <2>4. \A i \in DOMAIN wire' : wire'[i] = i
    <3> TAKE i \in DOMAIN wire'
    <3>1. i \in 1..done + k  BY <2>3
    <3>2. wire'[i] = IF i <= done THEN wire[i] ELSE t[i - done]
      BY <1>2, <2>1, <2>2, <2>3, <3>1 DEF t
    <3>3. CASE i <= done  BY <1>4, <2>2, <3>1, <3>2, <3>3
    <3>4. CASE ~(i <= done)
      <4>1. i - done \in 1..k  BY <1>4, <3>1, <3>4
      <4> QED  BY <1>4, <2>1, <3>1, <3>2, <3>4, <4>1
    <3> QED  BY <3>3, <3>4
  <2>5. done + k <= Whole
    <3>1. first <= Len(ends) /\ prev \in first..Len(ends) /\ size = ends[prev] - done
      BY <1>1 DEF Counted
    <3>2. prev \in 1..Len(ends) /\ ends[prev] \in Nat /\ ends[prev] <= Whole /\ Whole \in Nat
      BY <3>1, SizeFacts, EndsFacts
    <3> QED  BY <1>4, <3>1, <3>2
  <2> QED  BY <1>1, <1>2, <1>3, <2>3, <2>4, <2>5 DEF Written, caller
<1> QED  BY <1>5, <1>6, <1>7, <1>8, <1>9

LEMMA NextLayerFailsInv == ASSUME Inv, NextLayerFails PROVE Inv'
<1> USE DEF Inv
<1>1. UNCHANGED <<caller, chunk, memory, heap, wire>> /\ at = "writing" /\ at' = "written"
      /\ ok' = FALSE /\ n' = 0
  BY DEF NextLayerFails
<1>2. SizeOf(first)' = SizeOf(first) /\ Whole' = Whole /\ Ahead(done)' = Ahead(done)
  BY <1>1 DEF SizeOf, Before, Whole, Ahead, caller
<1>3. Types'  BY <1>1, <1>2 DEF Types, caller, chunk
<1>4. Counted'  BY <1>1, <1>2 DEF Counted, caller, chunk
<1>5. Full'  BY <1>1, <1>2 DEF Full, caller, chunk
<1>6. Allocated'  BY <1>1 DEF Allocated, caller, chunk
<1>7. Written'  BY <1>1, <1>2 DEF Written, caller, Types
<1> QED  BY <1>3, <1>4, <1>5, <1>6, <1>7

LEMMA CompleteInv == ASSUME Inv, Complete PROVE Inv'
<1> USE DEF Inv
<1>1. UNCHANGED <<caller, chunk, result, wire>> /\ at = "written" /\ at' = "handler"
      /\ memory' = 0 /\ heap' = heap - memory
  BY DEF Complete
<1>2. SizeOf(first)' = SizeOf(first) /\ Whole' = Whole /\ Ahead(done)' = Ahead(done)
  BY <1>1 DEF SizeOf, Before, Whole, Ahead, caller
<1>3. heap' = 0  BY <1>1 DEF Allocated, Types
<1>4. Types'  BY <1>1, <1>2, <1>3 DEF Types, caller, chunk, result
<1>5. Counted' /\ Full'  BY <1>1 DEF Counted, Full
<1>6. Allocated'  BY <1>1, <1>3 DEF Allocated
<1>7. Written'  BY <1>1, <1>2 DEF Written, caller, result
<1> QED  BY <1>4, <1>5, <1>6, <1>7

LEMMA CallerGoesOnInv == ASSUME Inv, CallerGoesOn PROVE Inv'
<1> USE DEF Inv
<1>1. UNCHANGED <<ends, chunk, memory, heap, result, wire>> /\ at = "handler"
      /\ at' \in {"failed", "stopped", "idle"}
      /\ done' = done + n /\ first' \in Ahead(done')
  BY DEF CallerGoesOn
<1>2. Whole' = Whole /\ Ahead(done)' = Ahead(done')
  BY <1>1 DEF Before, Whole, Ahead
<1>3. Types'  BY <1>1, <1>2 DEF Types, chunk, result
<1>4. Counted' /\ Full'  BY <1>1 DEF Counted, Full
<1>5. Allocated'  BY <1>1 DEF Allocated
<1>6. Written'  BY <1>1, <1>2 DEF Written
<1> QED  BY <1>3, <1>4, <1>5, <1>6

LEMMA StutterInv == ASSUME Inv, UNCHANGED vars PROVE Inv'
<1>1. SizeOf(first)' = SizeOf(first) /\ Whole' = Whole /\ Ahead(done)' = Ahead(done)
  BY DEF SizeOf, Before, Whole, Ahead, vars, caller
<1> QED
  BY <1>1 DEF Inv, Types, Counted, Full, Allocated, Written, vars, caller, chunk, result

LEMMA InvNext == Inv /\ [Next]_vars => Inv'
BY WriteSomeInv, JoinInv, JoinEndsInv, PassOnInv, NextLayerWritesInv, NextLayerFailsInv,
   CompleteInv, CallerGoesOnInv, StutterInv DEF Next

LEMMA InvHolds == Spec => []Inv
BY InvInit, InvNext, PTL DEF Spec

-----------------------------------------------------------------------------
\* However buffers are joined and whatever part of them the next layer writes,
\* the units arrive once each and in order (impl/flat_stream.ipp:117-149).
THEOREM UnitsInOrder == Spec => []WireInOrder
<1>1. Inv => WireInOrder
  <2> SUFFICES ASSUME Inv PROVE WireInOrder
    OBVIOUS
  <2> QED  BY DEF Inv, Written, WireInOrder
<1> QED  BY <1>1, InvHolds, PTL

\* The memory of a chain of writes is bounded by the coalesce limit, and none
\* is held when a handler runs (impl/flat_stream.ipp:147).
THEOREM MemoryIsBounded == Spec => []MemoryBounded
<1>1. Inv => MemoryBounded
  <2> SUFFICES ASSUME Inv PROVE MemoryBounded
    OBVIOUS
  <2> QED
    BY FlatStreamAssumption DEF Inv, Counted, Allocated, MemoryBounded
<1> QED  BY <1>1, InvHolds, PTL

\* coalesce() takes the longest prefix within the limit, or one buffer that
\* reaches it (detail/flat_stream.hpp:29-57).
THEOREM ChunksAreMaximal == Spec => []ChunkIsMaximal
<1>1. Inv => ChunkIsMaximal
  <2> SUFFICES ASSUME Inv, at = "writing" PROVE ChunkIsMaximal
    BY DEF ChunkIsMaximal
  <2>1. /\ first \in 1..Len(ends) /\ SizeOf(first) \in Nat
        /\ SizeOf(first) = ends[first] - done /\ Len(ends) \in Nat
    BY SizeFacts, EndsFacts DEF Inv, Counted
  <2>2. /\ prev \in first..Len(ends) /\ size = ends[prev] - done
        /\ memory = IF prev # first THEN size ELSE 0
    BY DEF Inv, Counted, Allocated
  <2>3. CASE SizeOf(first) >= Limit
    <3>1. prev = first
      BY <2>1, <2>3, FlatStreamAssumption DEF Inv, Counted
    <3> QED  BY <2>1, <2>2, <2>3, <3>1 DEF ChunkIsMaximal
  <2>4. CASE SizeOf(first) < Limit
    <3>1. prev = Len(ends) \/ ends[prev + 1] - done > Limit
      BY <2>1, <2>4, FlatStreamAssumption DEF Inv, Full
    <3>2. size <= Limit
      BY <2>1, <2>2, <2>4, FlatStreamAssumption DEF Inv, Counted
    <3>3. memory = IF prev > first THEN size ELSE 0  BY <2>1, <2>2
    <3> QED  BY <2>2, <2>4, <3>1, <3>2, <3>3 DEF ChunkIsMaximal
  <2> QED  BY <2>1, <2>3, <2>4, FlatStreamAssumption
<1> QED  BY <1>1, InvHolds, PTL

-----------------------------------------------------------------------------
(***************************************************************************)
(* Why a write wrote nothing is settled when the next layer completes it:  *)
(* it was given an empty chunk.                                            *)
(***************************************************************************)
Stopped ==
  (at \in {"written", "handler"} /\ ok /\ n = 0) \/ at = "stopped" => EmptyAhead

LEMMA EmptyAheadStays ==
  ASSUME UNCHANGED <<ends, done>>
  PROVE  EmptyAhead' <=> EmptyAhead
BY DEF EmptyAhead, Before, Whole

\* A chunk of no units is one of empty buffers, with nothing that fits behind.
LEMMA EmptyChunk ==
  ASSUME Inv, at = "writing", size = 0
  PROVE  EmptyAhead
<1>1. /\ Types /\ first \in 1..Len(ends) /\ prev \in first..Len(ends) /\ ends[prev] - done = 0
      /\ SizeOf(first) = ends[first] - done
  BY SizeFacts DEF Inv, Counted
<1>2. /\ Len(ends) \in Nat /\ DOMAIN ends = 1..Len(ends) /\ done \in Nat
      /\ \A i \in 1..Len(ends) : ends[i] \in Nat
      /\ \A i, j \in 1..Len(ends) : i <= j => ends[i] <= ends[j]
  BY <1>1, EndsFacts DEF Types
<1>3. prev \in 1..Len(ends) /\ ends[prev] = done /\ done <= ends[first] /\ ends[first] <= ends[prev]
  BY <1>1, <1>2, SizeFacts
<1>4. ends[first] = done /\ Before(first) = done
  <2>1. ends[first] = done  BY <1>1, <1>2, <1>3
  <2>2. first \in Ahead(done) /\ first <= Len(ends)  BY <1>1 DEF Types
  <2> QED  BY <1>2, <2>1, <2>2 DEF Ahead
<1>5. CASE prev = Len(ends)
  <2>1. ends # <<>>  BY <1>1, <1>2
  <2>2. Whole = done  BY <1>3, <1>5, <2>1 DEF Whole
  <2> QED  BY <1>1, <1>2, <1>4, <2>2 DEF EmptyAhead
<1>6. CASE prev # Len(ends)
  <2>1. prev + 1 \in 1..Len(ends) /\ prev + 1 # 1 /\ (prev + 1) - 1 = prev
    <3> PICK q, m : q = prev /\ m = Len(ends)
      OBVIOUS
    <3>1. q \in 1..m /\ m \in Nat /\ q # m  BY <1>2, <1>3, <1>6
    <3>2. q + 1 \in 1..m /\ q + 1 # 1 /\ (q + 1) - 1 = q  BY ONLY <3>1
    <3> QED  BY <3>2
  <2>2. Before(prev + 1) = done  BY <1>3, <2>1 DEF Before
  <2>3. ends[prev + 1] - done > Limit
    <3>1. ~(SizeOf(first) >= Limit)  BY <1>1, <1>4, <1>2, FlatStreamAssumption
    <3> QED  BY <1>6, <3>1 DEF Inv, Full
  <2>4. ends[prev + 1] > done + Limit  BY <1>2, <2>1, <2>3, FlatStreamAssumption
  <2> QED  BY <1>1, <1>2, <1>4, <2>1, <2>2, <2>4 DEF EmptyAhead
<1> QED  BY <1>5, <1>6

LEMMA StoppedNext == Inv /\ Stopped /\ [Next]_vars => Stopped'
<1> SUFFICES ASSUME Inv, Stopped, [Next]_vars PROVE Stopped'
  OBVIOUS
<1>1. CASE WriteSome \/ Join \/ JoinEnds \/ PassOn
  <2>1. at' \in {"joining", "joined", "writing"}
    BY <1>1 DEF WriteSome, Join, JoinEnds, PassOn
  <2> QED  BY <2>1 DEF Stopped
<1>2. CASE NextLayerWrites
  <2>1. at = "writing" /\ UNCHANGED <<ends, done>> /\ (n' = 0 => size = 0) /\ at' = "written"
    BY <1>2 DEF NextLayerWrites, caller
  <2> QED  BY <2>1, EmptyChunk, EmptyAheadStays DEF Stopped
<1>3. CASE NextLayerFails  BY <1>3 DEF NextLayerFails, Stopped
<1>4. CASE Complete \/ UNCHANGED vars
  <2>1. UNCHANGED <<ends, done, ok, n>> /\ (at' = at \/ (at = "written" /\ at' = "handler"))
    BY <1>4 DEF Complete, vars, caller, result
  <2> QED  BY <2>1, EmptyAheadStays DEF Stopped
<1>5. CASE CallerGoesOn
  <2>1. /\ ends' = ends /\ at = "handler" /\ done' = done + n /\ done \in Nat
        /\ at' \in {"failed", "stopped", "idle"} /\ (at' = "stopped" => ok /\ n = 0)
    BY <1>5 DEF CallerGoesOn, Inv, Types
  <2>2. ASSUME at' = "stopped" PROVE EmptyAhead'
    <3>1. done' = done  BY <2>1, <2>2
    <3> QED  BY <2>1, <2>2, <3>1, EmptyAheadStays DEF Stopped
  <2> QED  BY <2>1, <2>2 DEF Stopped
<1> QED  BY <1>1, <1>2, <1>3, <1>4, <1>5 DEF Next

LEMMA StoppedHolds == Spec => []Stopped
<1>1. Init => Stopped  BY DEF Init, Stopped
<1> QED  BY <1>1, InvHolds, StoppedNext, PTL DEF Spec

\* A caller is stopped by empty buffers only, of which nothing more was to be
\* written or a buffer above the limit (detail/flat_stream.hpp:42-52).
THEOREM OnlyEmptyBuffersStop == Spec => []StoppedByEmptyOnly
<1>1. Stopped => StoppedByEmptyOnly  BY DEF Stopped, StoppedByEmptyOnly
<1> QED  BY <1>1, StoppedHolds, PTL

\* What is said of the function in flat_stream.hpp:277-279 holds of callers
\* whose buffer sequences have no empty buffer in front of one above the limit.
THEOREM NonEmptyBuffersAdvance ==
  ASSUME \A e \in Inputs : \A i, j \in DOMAIN e :
           /\ e[i] = IF i = 1 THEN 0 ELSE e[i - 1]
           /\ e[i] = IF j = 1 THEN 0 ELSE e[j - 1]
           => e[j] <= e[i] + Limit
  PROVE  Spec => []SuccessWritesSomething
<1>1. Inv /\ Stopped => SuccessWritesSomething
  <2> SUFFICES ASSUME Inv, Stopped, at = "handler", ok, done < Whole, n = 0
               PROVE  FALSE
    BY DEF SuccessWritesSomething, Inv, Types
  <2>1. EmptyAhead /\ Types /\ done \in Nat /\ Whole \in Nat  BY EndsFacts DEF Stopped, Inv, Types
  <2>2. PICK i \in DOMAIN ends : Before(i) = done /\ ends[i] = done  BY <2>1 DEF EmptyAhead
  <2>3. PICK j \in DOMAIN ends : Before(j) = done /\ ends[j] > done + Limit
    BY <2>1 DEF EmptyAhead
  <2>4. ends \in Inputs  BY <2>1 DEF Types
  <2>5. ends[j] <= ends[i] + Limit  BY <2>2, <2>3, <2>4 DEF Before
  <2>6. ends[j] \in Nat  BY <2>1, EndsFacts
  <2> QED  BY <2>1, <2>2, <2>3, <2>5, <2>6, FlatStreamAssumption
<1> QED  BY <1>1, InvHolds, StoppedHolds, PTL

\* A sequence without empty buffers is never given up: the loop of the caller has
\* nothing left to write only when all is written, and is stopped by errors alone.
THEOREM NeverStoppedShort ==
  Spec => []((\A i \in DOMAIN ends : ends[i] > Before(i)) =>
               /\ at # "stopped"
               /\ at = "idle" /\ first > Len(ends) => Len(wire) = Whole)
<1>1. ASSUME StoppedByEmptyOnly, Inv, \A i \in DOMAIN ends : ends[i] > Before(i)
      PROVE  at # "stopped"
  <2> SUFFICES ASSUME at = "stopped" PROVE FALSE
    OBVIOUS
  <2>1. PICK i \in DOMAIN ends : Before(i) = done /\ ends[i] = done
    BY <1>1 DEF StoppedByEmptyOnly, EmptyAhead
  <2>2. done > done /\ done \in Nat  BY <1>1, <2>1 DEF Inv, Types
  <2> QED  BY <2>2
<1>2. ASSUME WireInOrder, Inv, at = "idle", first > Len(ends)
      PROVE  Len(wire) = Whole
  <2>1. /\ ends \in Seq(Nat) /\ Len(ends) \in Nat /\ Whole \in Nat /\ done \in Nat
        /\ first \in Ahead(done)
    BY <1>2, EndsFacts DEF Inv, Types
  <2>2. first = Len(ends) + 1 /\ Before(first) <= done  BY <1>2, <2>1 DEF Ahead
  <2>3. Before(first) = Whole
    <3>1. CASE ends = <<>>  BY <2>2, <3>1 DEF Before, Whole
    <3>2. CASE ends # <<>>
      <4>1. Len(ends) # 0  BY <2>1, <3>2
      <4>2. first # 1 /\ first - 1 = Len(ends)  BY <2>1, <2>2, <4>1
      <4> QED  BY <3>2, <4>2 DEF Before, Whole
    <3> QED  BY <3>1, <3>2
  <2>4. Len(wire) <= Whole /\ Len(wire) = done  BY <1>2 DEF WireInOrder
  <2> QED  BY <2>1, <2>2, <2>3, <2>4
<1> QED  BY <1>1, <1>2, OnlyEmptyBuffersStop, UnitsInOrder, InvHolds, PTL
=============================================================================
