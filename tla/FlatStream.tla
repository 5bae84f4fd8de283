----------------------------- MODULE FlatStream -----------------------------
(***************************************************************************)
(* boost::beast::flat_stream as foxy carries it                            *)
(* (include/foxy/experimental/core/flat_stream.hpp): the layer above TLS   *)
(* that joins the small buffers of a write into one before the SSL stream  *)
(* makes a record of each.                                                 *)
(*                                                                         *)
(* The units to be written are numbered from 1, so that the wire shows     *)
(* their order; a buffer sequence is given by the last unit of each of its *)
(* buffers, an empty buffer ending where the one before it does.  A caller *)
(* writes a whole buffer sequence as the composed operations of Asio do:   *)
(* it calls async_write_some on what is left until nothing is left, an     *)
(* error occurs, or a call that reports no error has written nothing.  The *)
(* next layer writes any part of what it is given, or fails.               *)
(***************************************************************************)
EXTENDS Naturals, Sequences

CONSTANTS
  Limit,  \* coalesce_limit
  Inputs  \* the buffer sequences a caller writes

ASSUME FlatStreamAssumption ==
  /\ Limit \in Nat \ {0}
  /\ Inputs \subseteq {e \in Seq(Nat) : \A i, j \in DOMAIN e : i <= j => e[i] <= e[j]}

VARIABLES
  ends,    \* the buffer sequence of the caller: the last unit of each buffer
  first,   \* the first of its buffers that is left
  done,    \* the units the caller was told are written
  at,      \* where the write in progress is
  size,    \* the units coalesce() has counted
  prev,    \* the last buffer it has counted
  memory,  \* the units of memory that p_ refers to
  heap,    \* the units of memory that writes have allocated
  ok, n,   \* what the handler is given: error_code and bytes_transferred
  wire     \* the units the next layer has written

caller == <<ends, first, done>>
chunk  == <<size, prev>>
result == <<ok, n>>
vars   == <<caller, at, chunk, memory, heap, result, wire>>

-----------------------------------------------------------------------------
Before(i) == IF i = 1 THEN 0 ELSE ends[i - 1]

\* The buffer that is first when d units were written: the one they end in, or
\* an empty one there.  Some callers pass over empty buffers, some do not.
Ahead(d) ==
  {i \in 1..Len(ends) + 1 :
     /\ Before(i) <= d
     /\ i <= Len(ends) => d < ends[i] \/ (Before(i) = d /\ ends[i] = d)}

\* buffer_size of a buffer that is left; the first is left in part.
SizeOf(i) == ends[i] - (IF i = first THEN done ELSE Before(i))

Whole == IF ends = <<>> THEN 0 ELSE ends[Len(ends)]

Init ==
  /\ ends \in Inputs
  /\ done = 0 /\ first \in Ahead(0)
  /\ at = "idle"
  /\ size = 0 /\ prev = 1
  /\ memory = 0 /\ heap = 0
  /\ ok = TRUE /\ n = 0
  /\ wire = <<>>

-----------------------------------------------------------------------------
(***************************************************************************)
(* coalesce(): the first buffer and, if it is below the limit, those that  *)
(* follow it for as long as their sum is not above it.                     *)
(***************************************************************************)

\* The bug of counting the first buffer only if it is below the limit.
WriteSomeBelow ==
  /\ at = "idle" /\ first <= Len(ends)
  /\ size' = IF SizeOf(first) < Limit THEN SizeOf(first) ELSE 0
  /\ prev' = first
  /\ at' = IF SizeOf(first) < Limit THEN "joining" ELSE "joined"
  /\ UNCHANGED <<caller, memory, heap, result, wire>>

WriteSome ==
  /\ at = "idle" /\ first <= Len(ends)
  /\ size' = SizeOf(first)
  /\ prev' = first
  /\ at' = IF size' < Limit THEN "joining" ELSE "joined"
  /\ UNCHANGED <<caller, memory, heap, result, wire>>

\* The bug of an off-by-one: what would fill the limit is left out.
FitsBelow == prev < Len(ends) /\ size + SizeOf(prev + 1) < Limit

Fits == prev < Len(ends) /\ size + SizeOf(prev + 1) <= Limit

Join ==
  /\ at = "joining"
  /\ Fits
  /\ size' = size + SizeOf(prev + 1)
  /\ prev' = prev + 1
  /\ UNCHANGED <<caller, at, memory, heap, result, wire>>

JoinEnds ==
  /\ at = "joining"
  /\ ~Fits
  /\ at' = "joined"
  /\ UNCHANGED <<caller, chunk, memory, heap, result, wire>>

-----------------------------------------------------------------------------
\* write_some and write_op: several buffers are copied into memory of the
\* operation, one is passed on as it is.
PassOn ==
  /\ at = "joined"
  /\ memory' = IF prev # first THEN size ELSE 0
  /\ heap' = heap + memory'
  /\ at' = "writing"
  /\ UNCHANGED <<caller, chunk, result, wire>>

\* The next layer writes part of the chunk, all of it if it is empty, or fails.
NextLayerWrites ==
  /\ at = "writing"
  /\ \E k \in 0..size :
       /\ k = 0 => size = 0
       /\ wire' = wire \o [i \in 1..k |-> done + i]
       /\ ok' = TRUE /\ n' = k
  /\ at' = "written"
  /\ UNCHANGED <<caller, chunk, memory, heap>>

NextLayerFails ==
  /\ at = "writing"
  /\ ok' = FALSE /\ n' = 0
  /\ at' = "written"
  /\ UNCHANGED <<caller, chunk, memory, heap, wire>>

\* The bug of calling the handler before the memory is released.
CompleteFirst ==
  /\ at = "written"
  /\ memory' = 0
  /\ at' = "handler"
  /\ UNCHANGED <<caller, chunk, heap, result, wire>>

\* The bug of reporting the size of the joined buffer as what was written.
CompleteWithSize ==
  /\ at = "written"
  /\ memory' = 0 /\ heap' = heap - memory
  /\ n' = IF ok THEN size ELSE 0
  /\ at' = "handler"
  /\ UNCHANGED <<caller, chunk, ok, wire>>

\* The end of write_op: p_.reset(), then the handler, which may write more.
Complete ==
  /\ at = "written"
  /\ memory' = 0 /\ heap' = heap - memory
  /\ at' = "handler"
  /\ UNCHANGED <<caller, chunk, result, wire>>

\* The caller's loop takes what was written off the rest, and goes on or stops.
CallerGoesOn ==
  /\ at = "handler"
  /\ done' = done + n
  /\ first' \in Ahead(done')
  /\ at' = IF ~ok THEN "failed" ELSE IF n = 0 THEN "stopped" ELSE "idle"
  /\ UNCHANGED <<ends, chunk, memory, heap, result, wire>>

Next ==
  \/ WriteSome \/ Join \/ JoinEnds \/ PassOn
  \/ NextLayerWrites \/ NextLayerFails
  \/ Complete \/ CallerGoesOn

\* Operations of the next layer complete.
Spec == Init /\ [][Next]_vars /\ WF_vars(Next)

-----------------------------------------------------------------------------
(***************************************************************************)
(* Joining buffers, and writing a part of the joined ones, neither loses,  *)
(* repeats nor reorders a unit: the wire holds the units in order, and     *)
(* when no write is in progress those are what the caller was told.        *)
(***************************************************************************)
WireInOrder ==
  /\ \A i \in DOMAIN wire : wire[i] = i
  /\ Len(wire) <= Whole
  /\ at \in {"idle", "failed", "stopped"} => Len(wire) = done

(***************************************************************************)
(* However many writes a caller chains, each from the handler of the one   *)
(* before, the memory they hold together is at most the coalesce limit.    *)
(***************************************************************************)
MemoryBounded ==
  /\ heap <= Limit
  /\ at \notin {"writing", "written"} => heap = 0

(***************************************************************************)
(* A write takes as many buffers as fit: the longest prefix within the     *)
(* limit, or the first buffer by itself if that alone reaches the limit.   *)
(***************************************************************************)
ChunkIsMaximal ==
  at = "writing" =>
    \/ SizeOf(first) >= Limit /\ size = SizeOf(first) /\ memory = 0
    \/ /\ SizeOf(first) < Limit
       /\ size <= Limit
       /\ \E k \in first..Len(ends) :
            /\ size = ends[k] - done
            /\ k = Len(ends) \/ ends[k + 1] - done > Limit
            /\ memory = IF k > first THEN size ELSE 0

(***************************************************************************)
(* A buffer sequence without empty buffers is written to its end, unless a *)
(* write fails: the loop of the caller is never stopped short.             *)
(***************************************************************************)
WrittenOrFailed ==
  (\A i \in DOMAIN ends : ends[i] > Before(i)) ~>
    (at = "failed" \/ (at = "idle" /\ Len(wire) = Whole))

(***************************************************************************)
(* A write that reports success and wrote nothing, which stops the caller, *)
(* was one of empty buffers only: there is one where the rest begins, and  *)
(* either nothing is left behind it or a buffer above the limit, which is  *)
(* not joined to it (detail/flat_stream.hpp:42-52).                        *)
(***************************************************************************)
EmptyAhead ==
  /\ \E i \in DOMAIN ends : Before(i) = done /\ ends[i] = done
  /\ done = Whole \/ \E i \in DOMAIN ends : Before(i) = done /\ ends[i] > done + Limit

StoppedByEmptyOnly ==
  (at = "handler" /\ ok /\ n = 0) \/ at = "stopped" => EmptyAhead

(***************************************************************************)
(* "The function call will block until one or more bytes of data has been  *)
(* written successfully, or until an error occurs."                        *)
(* (include/foxy/experimental/core/flat_stream.hpp:277-279), so a caller   *)
(* with something left to write is not told that nothing was written.      *)
(***************************************************************************)
SuccessWritesSomething ==
  at = "handler" /\ ok /\ done < Whole => n > 0
=============================================================================
