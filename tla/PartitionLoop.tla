--------------------------- MODULE PartitionLoop ---------------------------
(***************************************************************************)
(* The loops of partition_connection_options (include/foxy/partition.hpp): *)
(* the scan of the Connection fields, an action for each element the parse *)
(* of a value takes, the copy of the fields they name and their removal.   *)
(* Both field sets change as the loops run; Partition says what they hold  *)
(* at the end.                                                             *)
(***************************************************************************)
EXTENDS Partition

CONSTANT Inputs  \* the field sets the function is called with

ASSUME InputsAssumption == Inputs \subseteq Fields

VARIABLES
  given,       \* in_fields at the call
  in_fields,
  out_fields,
  options,     \* the vector of option names
  phase,       \* the loop that runs: "scan", with "parse" inside, "copy",
               \* "erase", or "returned"
  at,          \* the next element of the range it runs over
  pos,         \* the next element of the value that is parsed
  begun        \* whether an option of that value was read

parser == <<pos, begun>>
vars   == <<given, in_fields, out_fields, options, phase, at, parser>>

Init ==
  /\ given \in Inputs
  /\ in_fields = given
  /\ out_fields = NoFields
  /\ options = <<>>
  /\ phase = "scan"
  /\ at = 1
  /\ pos = 1 /\ begun = FALSE

val == in_fields[Connection][at]

ScanField ==
  /\ phase = "scan"
  /\ at <= Len(in_fields[Connection])
  /\ IF IsEmptyValue(val)
     THEN at' = at + 1 /\ UNCHANGED <<phase, parser>>
     ELSE phase' = "parse" /\ pos' = 1 /\ begun' = FALSE /\ UNCHANGED at
  /\ UNCHANGED <<given, in_fields, out_fields, options>>

(***************************************************************************)
(* phrase_parse takes a value from left to right: the leading blanks, then *)
(* options for as long as none is blank.  Whether or not that was all of   *)
(* it, the value is copied out.                                            *)
(***************************************************************************)
\* The bug of leaving out *lit(','): a leading blank ends the parse.
TakesNoBlank == pos <= Len(val) /\ val[pos] # Blank

\* The rule takes one more element of the value.
Takes == pos <= Len(val) /\ (val[pos] = Blank => ~begun)

SkipBlank ==
  /\ phase = "parse"
  /\ Takes /\ val[pos] = Blank
  /\ pos' = pos + 1
  /\ UNCHANGED <<given, in_fields, out_fields, options, phase, at, begun>>

ReadOption ==
  /\ phase = "parse"
  /\ Takes /\ val[pos] # Blank
  /\ options' = Append(options, val[pos])
  /\ pos' = pos + 1 /\ begun' = TRUE
  /\ UNCHANGED <<given, in_fields, out_fields, phase, at>>

ParseEnds ==
  /\ phase = "parse"
  /\ ~Takes
  /\ out_fields' = [out_fields EXCEPT ![Connection] = Append(@, val)]
  /\ phase' = "scan" /\ at' = at + 1
  /\ UNCHANGED <<given, in_fields, options, parser>>

ScanEnds ==
  /\ phase = "scan"
  /\ at > Len(in_fields[Connection])
  /\ phase' = "copy"
  /\ at' = 1
  /\ UNCHANGED <<given, in_fields, out_fields, options, parser>>

\* The bug of removing the fields in the loop that copies them.
CopyAndErase ==
  /\ phase = "copy"
  /\ at <= Len(options)
  /\ out_fields' = [out_fields EXCEPT ![options[at]] = @ \o in_fields[options[at]]]
  /\ in_fields' = [in_fields EXCEPT ![options[at]] = <<>>]
  /\ at' = at + 1
  /\ UNCHANGED <<given, options, phase, parser>>

CopyFields ==
  /\ phase = "copy"
  /\ at <= Len(options)
  /\ out_fields' = [out_fields EXCEPT ![options[at]] = @ \o in_fields[options[at]]]
  /\ at' = at + 1
  /\ UNCHANGED <<given, in_fields, options, phase, parser>>

\* The bug of an off-by-one: the last option named is not copied.
CopyStopsShort ==
  /\ phase = "copy"
  /\ at >= Len(options)
  /\ phase' = "erase"
  /\ at' = 1
  /\ UNCHANGED <<given, in_fields, out_fields, options, parser>>

CopyEnds ==
  /\ phase = "copy"
  /\ at > Len(options)
  /\ phase' = "erase"
  /\ at' = 1
  /\ UNCHANGED <<given, in_fields, out_fields, options, parser>>

EraseFields ==
  /\ phase = "erase"
  /\ at <= Len(options)
  /\ in_fields' = [in_fields EXCEPT ![options[at]] = <<>>]
  /\ at' = at + 1
  /\ UNCHANGED <<given, out_fields, options, phase, parser>>

\* The bug of forgetting the Connection field itself.
KeepConnection ==
  /\ phase = "erase"
  /\ at > Len(options)
  /\ phase' = "returned"
  /\ UNCHANGED <<given, in_fields, out_fields, options, at, parser>>

EraseConnection ==
  /\ phase = "erase"
  /\ at > Len(options)
  /\ in_fields' = [in_fields EXCEPT ![Connection] = <<>>]
  /\ phase' = "returned"
  /\ UNCHANGED <<given, out_fields, options, at, parser>>

Next ==
  \/ ScanField \/ SkipBlank \/ ReadOption \/ ParseEnds \/ ScanEnds
  \/ CopyFields \/ CopyEnds
  \/ EraseFields \/ EraseConnection

Spec == Init /\ [][Next]_vars

-----------------------------------------------------------------------------
(***************************************************************************)
(* The loops compute what Partition defines from the fields of the call    *)
(* alone: no loop undoes, or depends on, what another has changed.         *)
(***************************************************************************)
InComputed  == phase = "returned" => in_fields = InFields(given)
OutComputed == phase = "returned" => out_fields = OutFields(given)

(***************************************************************************)
(* At no point is a field in neither set: until it is erased it is in      *)
(* in_fields as it was, and it is erased only when every value it has is   *)
(* in out_fields.  Blank Connection values are the exception.              *)
(***************************************************************************)
NothingLost ==
  \A n \in Names :
    \/ in_fields[n] = given[n]
    \/ /\ in_fields[n] = <<>>
       /\ \A i \in DOMAIN given[n] :
            \/ given[n][i] \in {out_fields[n][j] : j \in DOMAIN out_fields[n]}
            \/ n = Connection /\ IsEmptyValue(given[n][i])

(***************************************************************************)
(* A second intermediary that partitions what the first one relays finds   *)
(* nothing to take out, and everything end-to-end arrives there.           *)
(***************************************************************************)
RelayedIsEndToEnd ==
  phase = "returned" =>
    /\ InFields(in_fields) = in_fields
    /\ OutFields(in_fields) = NoFields
    /\ \A n \in Names \ HopByHop(given) : in_fields[n] = given[n]
    /\ WellFormed(given) => \A n \in HopByHop(given) : in_fields[n] = <<>>

(***************************************************************************)
(* "this then gives us our parsed list of connection options from every    *)
(* Connection header field", by "the ABNF grammar listed in rfc 7230"      *)
(* (include/foxy/partition.hpp:39-46), whose *( OWS "," [ OWS              *)
(* connection-option ] ) lets elements be empty.                           *)
(***************************************************************************)
OptionsFollowGrammar ==
  phase \in {"copy", "erase", "returned"} =>
    {options[i] : i \in DOMAIN options} \cup {Connection} =
      HopByHop(given)
=============================================================================
