----------------------------- MODULE RemoteCall -----------------------------
(* What the generated stubs promise of one call.  The function is invoked at *)
(* most once, with the values the caller gave; a call that returns normally  *)
(* has changed exactly the outputs, to what the function left in them; a     *)
(* call that fails, by an error of the IPC or an exception of the function,  *)
(* has changed nothing.  A one-way call returns without an answer.           *)

VARIABLES
  params,        \* the parameters
  ins, outs,     \* those the function gets, and what it leaves a value in;
                 \*   the return value is one of outs and not of params
  waits,         \* whether the caller waits for an answer
  arg,           \* the caller's values, of params and of the return value
  taken,         \* what the function was invoked with
  left,          \* what it left
  caller, server

vars == <<params, ins, outs, waits, arg, taken, left, caller, server>>

Init ==
  /\ ins \subseteq params
  /\ ins \cup outs \cup params = DOMAIN arg
  /\ caller = "calling" /\ server = "idle"

Execute ==
  /\ server = "idle" /\ server' = "executing"
  /\ taken' = [p \in ins |-> arg[p]]
  /\ UNCHANGED <<arg, left, caller>>

Answer ==
  /\ server = "executing"
  /\ \/ server' = "answered" /\ DOMAIN left' = outs
     \/ server' = "refused" /\ left' = left
  /\ UNCHANGED <<arg, taken, caller>>

Return ==
  /\ caller = "calling" /\ caller' = "returned"
  /\ waits => server = "answered"
  /\ arg' = [p \in DOMAIN arg |-> IF p \in outs THEN left[p] ELSE arg[p]]
  /\ UNCHANGED <<taken, left, server>>

Fail ==
  /\ caller = "calling" /\ caller' = "failed"
  /\ DOMAIN arg' = DOMAIN arg
  /\ \A p \in params : arg'[p] = arg[p]
  /\ UNCHANGED <<taken, left, server>>

Next ==
  /\ Execute \/ Answer \/ Return \/ Fail
  /\ UNCHANGED <<params, ins, outs, waits>>

Spec == Init /\ [][Next]_vars

=============================================================================
