------------------------------ MODULE AsyncOp ------------------------------
(***************************************************************************)
(* What a caller of an asynchronous operation of a session relies on, and  *)
(* what ForwardProxy takes for granted at each co_await: an operation that *)
(* was initiated completes, later and once, with one outcome.              *)
(***************************************************************************)
CONSTANTS
  Ops,      \* the calls made on a session
  Outcomes  \* what a completion handler may be called with

VARIABLES phase, outcome

vars == <<phase, outcome>>

Init ==
  /\ phase = [o \in Ops |-> "idle"]
  /\ outcome = [o \in Ops |-> <<>>]

Initiate(o) ==
  /\ phase[o] = "idle"
  /\ phase' = [phase EXCEPT ![o] = "pending"]
  /\ UNCHANGED outcome

Complete(o) ==
  /\ phase[o] = "pending"
  /\ phase' = [phase EXCEPT ![o] = "completed"]
  /\ \E r \in Outcomes : outcome' = [outcome EXCEPT ![o] = <<r>>]

Next == \E o \in Ops : Initiate(o) \/ Complete(o)

Safety == Init /\ [][Next]_vars

Spec == Safety /\ \A o \in Ops : WF_vars(Complete(o))
=============================================================================
