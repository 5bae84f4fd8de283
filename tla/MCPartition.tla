---------------------------- MODULE MCPartition ----------------------------
(***************************************************************************)
(* PartitionLoop over every field set with up to two Connection values, of *)
(* up to three and one elements, and up to two values of a named field.    *)
(***************************************************************************)
EXTENDS PartitionLoop

CONSTANTS v, w  \* the values of fields

MCNames == {"connection", "upgrade", "host"}
Elements == MCNames \cup {""}

Lists(n) == UNION {[1..k -> Elements] : k \in 0..n}

MCConnections ==
  {<<>>} \cup {<<l>> : l \in Lists(3)} \cup {<<l, m>> : l \in Lists(3), m \in Lists(1)}

MCInputs ==
  {[n \in MCNames |-> CASE n = "connection" -> c
                        [] n = "upgrade" -> u
                        [] n = "host" -> <<v>>] :
     c \in MCConnections, u \in {<<>>, <<v>>, <<v, w>>}}
=============================================================================
