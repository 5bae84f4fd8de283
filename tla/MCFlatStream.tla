---------------------------- MODULE MCFlatStream ----------------------------
(***************************************************************************)
(* FlatStream over every sequence of up to four buffers, each empty, small *)
(* or up to one above the limit.                                           *)
(***************************************************************************)
EXTENDS FlatStream

Sizes == 0..Limit + 1

MCInputs ==
  {<<a>> : a \in Sizes} \cup {<<a, a + b>> : a, b \in Sizes}
    \cup {<<a, a + b, a + b + c>> : a, b, c \in Sizes}
    \cup {<<a, a + b, a + b + c, a + b + c + d>> : a, b, c, d \in Sizes}
=============================================================================
