------------------------------ MODULE Partition ------------------------------
(***************************************************************************)
(* foxy::partition_connection_options (include/foxy/partition.hpp): split  *)
(* the fields of a message an intermediary relays into those that travel   *)
(* on (in_fields) and the hop-by-hop ones (out_fields).                    *)
(*                                                                         *)
(* http::fields is a multimap, so a set of fields is a function from names *)
(* to the sequence of values that name carries.  Only the values of the    *)
(* Connection field are looked into: such a value is the sequence of its   *)
(* comma-separated elements, an option being the name of a field and Blank *)
(* an element with nothing in it ("a,,b" is <<"a", Blank, "b">>).  Spaces, *)
(* which the skipper removes, and the case of names are abstracted away.   *)
(***************************************************************************)
EXTENDS Naturals, Sequences, FiniteSets

CONSTANTS
  Names,       \* the names of fields, Connection among them
  Connection,  \* http::field::connection
  Blank,       \* an empty element of a Connection value
  Values       \* the values of every other field

ASSUME PartitionAssumption == /\ Connection \in Names
                              /\ Blank \notin Names

Fields ==
  {fields \in [Names -> Seq(Values \cup Seq(Names \cup {Blank}))] :
     \A k \in DOMAIN fields[Connection] :
       fields[Connection][k] \in Seq(Names \cup {Blank})}

\* A default-constructed http::fields.
NoFields == [n \in Names |-> <<>>]

\* field.value() == "": no element at all, or one that is blank.
IsEmptyValue(list) == list \in {<<>>, <<Blank>>}

-----------------------------------------------------------------------------
(***************************************************************************)
(* What x3::phrase_parse makes of one Connection value with the rule       *)
(*   *lit(',') >> option_rule >> *(',' >> option_rule).                    *)
(* The leading blanks are skipped; the options are then read up to the     *)
(* first blank that follows one, where the last repetition fails and the   *)
(* parse ends.  The result is given as the positions of the options read.  *)
(***************************************************************************)

\* The bug of leaving out *lit(','): nothing is read past a leading blank.
ParsedWithoutSkip(list) ==
  {i \in DOMAIN list : \A j \in 1..i : list[j] # Blank}

ParsedAt(list) ==
  {i \in DOMAIN list :
     /\ list[i] # Blank
     /\ ~\E j, k \in 1..i : j < k /\ list[j] # Blank /\ list[k] = Blank}

\* The occurrences of `name` in the vector `options`, as pairs of a Connection
\* field and a position in its value.
Occurrences(fields, name) ==
  LET lists == fields[Connection]
  IN  UNION {{<<k, i>> : i \in {j \in ParsedAt(lists[k]) : lists[k][j] = name}} :
               k \in {l \in DOMAIN lists : ~IsEmptyValue(lists[l])}}

\* The names in `options`.
Options(fields) == {n \in Names : Occurrences(fields, n) # {}}

\* What remains in in_fields.
InFields(fields) ==
  [n \in Names |-> IF n = Connection \/ n \in Options(fields)
                   THEN <<>> ELSE fields[n]]

\* What a Connection value adds to out_fields: itself, unless it is empty.
Kept(lists) ==
  [k \in DOMAIN lists |-> IF IsEmptyValue(lists[k]) THEN <<>> ELSE <<lists[k]>>]

\* What the field n of out_fields receives, one sequence of values at a time:
\* the Connection values, then the field of in_fields for every entry of
\* `options` that names it.
Pieces(fields, n) ==
  (IF n = Connection THEN Kept(fields[Connection]) ELSE <<>>) \o
    [m \in 1..Cardinality(Occurrences(fields, n)) |-> fields[n]]

\* The pieces in one sequence: up to each of them.
Joined(pieces) ==
  LET joined[m \in 0..Len(pieces)] ==
        IF m = 0 THEN <<>> ELSE joined[m - 1] \o pieces[m]
  IN  joined

\* What out_fields, empty at first, holds at the end.
OutFields(fields) ==
  [n \in Names |-> Joined(Pieces(fields, n))[Len(Pieces(fields, n))]]

-----------------------------------------------------------------------------
(***************************************************************************)
(* Reading the same values by the grammar of RFC 7230, which lets blanks   *)
(* stand anywhere.                                                         *)
(***************************************************************************)

\* No Connection value holds a blank between two options.
WellFormed(fields) ==
  \A k \in DOMAIN fields[Connection] :
    LET list == fields[Connection][k]
    IN  \A h, i, j \in DOMAIN list :
          h < i /\ i < j /\ list[h] # Blank /\ list[j] # Blank => list[i] # Blank

\* The fields that concern one hop only.
HopByHop(fields) ==
  {Connection} \cup {n \in Names :
     \E k \in DOMAIN fields[Connection] :
       \E i \in DOMAIN fields[Connection][k] : fields[Connection][k][i] = n}
=============================================================================
