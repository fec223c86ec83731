---------------------------- MODULE IDAllocation ----------------------------
(***************************************************************************)
(* What the assignment of numbers promises, whatever its algorithm: each   *)
(* scope gets a range of numbers once, scopes that have to be kept apart   *)
(* get disjoint ranges, and a scope's range is behind those of the scopes  *)
(* it inherits from ("the lower FIDs to bossScope", be/source.cc:22).      *)
(***************************************************************************)
EXTENDS Integers

VARIABLES
  wanted,               \* the size of the range each scope needs
  apart,                \* pairs of scopes that must not share numbers
  below,                \* pairs <<boss, scope>>
  first, next           \* the ranges, UNKNOWN before they are assigned

UNKNOWN == -1

ranges == <<first, next>>

Assigned(s) == first[s] # UNKNOWN

Init ==
  /\ first = [s \in DOMAIN wanted |-> UNKNOWN]
  /\ next = first

Assign(s) ==
  /\ ~Assigned(s)
  /\ first'[s] \in Nat
  /\ next'[s] = first'[s] + wanted[s]
  /\ \A t \in DOMAIN wanted : <<t, s>> \in below => Assigned(t) /\ next[t] <= first'[s]
  /\ \A t \in DOMAIN wanted :
       <<t, s>> \in apart /\ Assigned(t) => next[t] <= first'[s] \/ next'[s] <= first[t]
  /\ first' = [first EXCEPT ![s] = first'[s]]
  /\ next' = [next EXCEPT ![s] = next'[s]]
  /\ UNCHANGED <<wanted, apart, below>>

Next == \E s \in DOMAIN wanted : Assign(s)

Spec == Init /\ [][Next]_ranges
=============================================================================
