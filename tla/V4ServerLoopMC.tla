--------------------------- MODULE V4ServerLoopMC ---------------------------
(***************************************************************************)
(* Instances of V4ServerLoop for TLC.                                      *)
(***************************************************************************)
EXTENDS V4ServerLoop, TLC

(* The generic glue code takes the larger count.                           *)
Larger(a, b) == IF a < b THEN b ELSE a

(* Calls that use fewer buffer registers than the server, or more.         *)
NestedCalls == {[buffers |-> 1, window |-> FALSE], [buffers |-> 3, window |-> TRUE]}

AnsweringOrNot == {"reply", "no_response"}
=============================================================================
