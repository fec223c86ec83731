------------------------------ MODULE IDSource ------------------------------
(***************************************************************************)
(* The assignment of function and exception numbers (be/source.cc,         *)
(* be/scope.cc, be/interface.cc): every scope of a program claims numbers  *)
(* for its operations and exceptions, and CBEIDSource::commit gives scopes *)
(* that are related by inheritance ranges that do not overlap.             *)
(*                                                                         *)
(* A scope is its place in the order in which claimIDs visits the tree.    *)
(***************************************************************************)
EXTENDS Integers, Sequences, FiniteSets, FiniteSetsExt

CONSTANT Programs       \* the interface definitions considered

UNKNOWN == -1

(* An operation has the number its uuid or kernelmsg attribute gives it,   *)
(* or UNKNOWN.                                                             *)
Operation == [fid : Nat \cup {UNKNOWN}, kernel : BOOLEAN]

(* An interface, a module or the root.  Superclasses are scopes, too.      *)
Declaration == [interface : BOOLEAN, iid : Nat, supers : SUBSET Nat,
                ops : Seq(Operation), excs : Nat]

(* The interfaces an interface inherits from, directly or not: what the    *)
(* recursion of avoidConflicts and getFunctionForID reaches.               *)
Ancestors(p, s) ==
  LET up[k \in 0 .. Len(p)] ==
        IF k = 0 THEN p[s].supers
        ELSE LET reached == up[k - 1]
             IN  reached \cup UNION {p[b].supers : b \in reached}
  IN  up[Len(p)]

(* Only interfaces inherit, and none from itself, however indirectly.      *)
Program ==
  {p \in Seq(Declaration) : \A s \in DOMAIN p :
     /\ Ancestors(p, s) \subseteq DOMAIN p
     /\ \A a \in Ancestors(p, s) : s \notin Ancestors(p, a)
     /\ p[s].supers # {} => p[s].interface
     /\ \A b \in p[s].supers : p[b].interface}

ASSUME ProgramAssumption == \A p \in Programs : p \in Program

UNRELATED == "unrelated"
MASTER == "master"
SLAVE == "slave"
CROSS == "cross"
Relation == {UNRELATED, MASTER, SLAVE, CROSS}

VARIABLES
  phase,
  prog,               \* the program
  claimed,            \* the scopes that have claimed numbers: 1 .. claimed
  constraints,        \* pairs <<master, slave>>
  related,            \* char **related
  at, stable,         \* the triple of scopes a closure loop reached
  depends,            \* int *depends
  pos, progress, done,  \* the sorting loop
  firstfid, firsteid, \* what assignIDs was called with
  nextfid, nexteid    \* int *nextfid, *nexteid

claims == <<prog, claimed, constraints>>
closure == <<related, at, stable>>
sorting == <<depends, pos, progress, done>>
numbers == <<firstfid, firsteid, nextfid, nexteid>>
vars == <<phase, claims, closure, sorting, numbers>>

Scope == DOMAIN prog

(* requestAt: claims are stacked, the scope that claimed last comes first. *)
RequestAt(i) == Len(prog) + 1 - i

Start == <<0, 0, 0>>

(* The three nested for loops visit triple u after triple t.               *)
Later(u, t) ==
  \/ u[1] > t[1]
  \/ u[1] = t[1] /\ u[2] > t[2]
  \/ u[1] = t[1] /\ u[2] = t[2] /\ u[3] > t[3]

Init ==
  /\ phase = "claim"
  /\ prog \in Programs
  /\ claimed = 0
  /\ constraints = {}
  /\ related = [i \in Scope |-> [j \in Scope |-> IF i = j THEN MASTER ELSE UNRELATED]]
  /\ at = Start
  /\ stable = TRUE
  /\ depends = [i \in Scope |-> 0]
  /\ pos = 1
  /\ progress = FALSE
  /\ done = TRUE
  /\ firstfid = [i \in Scope |-> UNKNOWN]
  /\ firsteid = [i \in Scope |-> UNKNOWN]
  /\ nextfid = [i \in Scope |-> UNKNOWN]
  /\ nexteid = [i \in Scope |-> UNKNOWN]

-----------------------------------------------------------------------------
(* claimIDs                                                                *)

(* avoidConflicts: a scope must not conflict with the interfaces above it  *)
(* that have the same number.  Neither the root nor a module is one.       *)
Bosses(s) == {b \in Ancestors(prog, s) : prog[b].iid = prog[s].iid}

ClaimIDs ==
  /\ phase = "claim"
  /\ claimed < Len(prog)
  /\ claimed' = claimed + 1
  /\ constraints' = constraints \cup (Bosses(claimed + 1) \X {claimed + 1})
  /\ UNCHANGED <<phase, prog, closure, sorting, numbers>>

-----------------------------------------------------------------------------
(* commit                                                                  *)

(* The matrix after the explicit constraints.                              *)
MasterOnly(i, j) ==                     \* related[j][i] = SLAVE forgotten
  IF <<i, j>> \in constraints THEN MASTER ELSE related[i][j]

Explicit(i, j) ==
  IF <<i, j>> \in constraints THEN MASTER
  ELSE IF <<j, i>> \in constraints THEN SLAVE
  ELSE related[i][j]

EstablishConstraints ==
  /\ phase = "claim"
  /\ claimed = Len(prog)
  /\ related' = [i \in Scope |-> [j \in Scope |-> Explicit(i, j)]]
  /\ phase' = "masters"
  /\ UNCHANGED <<claims, at, stable, sorting, numbers>>

(* The scopes a triple stands for.                                         *)
Related(t, m, n) == related[RequestAt(t[m])][RequestAt(t[n])]

Triples == (1 .. Len(prog)) \X (1 .. Len(prog)) \X (1 .. Len(prog))

Chained ==                              \* entries set over and over again
  {t \in Triples : Later(t, at) /\ Related(t, 1, 2) = MASTER /\ Related(t, 2, 3) = MASTER}

(* The triples behind the one reached for which the first loop has         *)
(* something to add.                                                       *)
Inheriting ==
  {t \in Triples : /\ Later(t, at)
                   /\ Related(t, 1, 2) = MASTER
                   /\ Related(t, 2, 3) = MASTER
                   /\ Related(t, 1, 3) = UNRELATED}

(* The same for the second loop.                                           *)
Connecting ==
  {t \in Triples : /\ Later(t, at)
                   /\ Related(t, 1, 2) # UNRELATED
                   /\ Related(t, 2, 3) # UNRELATED
                   /\ Related(t, 1, 3) = UNRELATED}

(* The loops go on to the next such triple.  When a pass is over another   *)
(* one follows, unless it found nothing.                                   *)
Extend(found, r, opposite) ==
  \E t \in found :
    /\ \A u \in found : ~Later(t, u)
    /\ related' = [related EXCEPT ![RequestAt(t[1])][RequestAt(t[3])] = r,
                                  ![RequestAt(t[3])][RequestAt(t[1])] = opposite]
    /\ at' = t
    /\ stable' = FALSE
    /\ UNCHANGED phase

EndPass(next) ==
  /\ phase' = IF stable THEN next ELSE phase
  /\ at' = Start
  /\ stable' = TRUE
  /\ UNCHANGED related

(* The constraints name every interface above a scope, so this closure     *)
(* finds nothing to add.                                                   *)
InheritMasters ==
  /\ phase = "masters"
  /\ IF Inheriting # {} THEN Extend(Inheriting, MASTER, SLAVE) ELSE EndPass("cross")
  /\ UNCHANGED <<claims, sorting, numbers>>

MarkCross ==
  /\ phase = "cross"
  /\ IF Connecting # {} THEN Extend(Connecting, CROSS, CROSS) ELSE EndPass("count")
  /\ UNCHANGED <<claims, sorting, numbers>>

(* The number of scopes that have to come first.                           *)
Masters(s) == {m \in Scope : related[s][m] = SLAVE}

CountDependencies ==
  /\ phase = "count"
  /\ depends' = [i \in Scope |-> Cardinality(Masters(i))]
  /\ phase' = "sort"
  /\ UNCHANGED <<claims, closure, pos, progress, done, numbers>>

(* The first number behind all those the scope must not conflict with.     *)
BehindMasters(s, start, next) ==        \* the CROSS relation forgotten
  Max({start} \cup {next[i] : i \in Masters(s)})

Behind(s, start, next) ==
  Max({start} \cup
      {next[i] : i \in {i \in Scope \ {s} : related[s][i] \in {SLAVE, CROSS}}})

(* Nothing has to come before the scope, and it has no numbers yet.        *)
Independent(s) == depends[s] = 0        \* perhaps for a second time

Ready(s) == depends[s] = 0 /\ nextfid[s] = UNKNOWN

(* assert(related[pos][i]!=SLAVE): the masters have their numbers.         *)
MastersDone(s) ==
  \A i \in Scope \ {s} : related[s][i] = SLAVE => nextfid[i] # UNKNOWN

AssignIDs ==
  /\ phase = "sort"
  /\ pos <= Len(prog)
  /\ LET s == RequestAt(pos)
     IN  /\ Ready(s)
         /\ firstfid' = [firstfid EXCEPT ![s] = Behind(s, 0, nextfid)]
         /\ firsteid' = [firsteid EXCEPT ![s] = Behind(s, 1, nexteid)]
         /\ nextfid' = [nextfid EXCEPT ![s] = firstfid'[s] + Len(prog[s].ops)]
         /\ nexteid' = [nexteid EXCEPT ![s] = firsteid'[s] + prog[s].excs]
         /\ depends' = [i \in Scope |->
              IF i # s /\ related[s][i] = MASTER THEN depends[i] - 1 ELSE depends[i]]
         /\ phase' = IF MastersDone(s) THEN phase ELSE "assertion"
  /\ progress' = TRUE
  /\ pos' = pos + 1
  /\ UNCHANGED <<claims, closure, done>>

(* The scope has its numbers, or has to wait.                              *)
SkipScope ==
  /\ phase = "sort"
  /\ pos <= Len(prog)
  /\ ~Ready(RequestAt(pos))
  /\ done' = (done /\ depends[RequestAt(pos)] = 0)
  /\ pos' = pos + 1
  /\ UNCHANGED <<phase, claims, closure, depends, progress, numbers>>

(* assert(progress || done)                                                *)
EndSortingPass ==
  /\ phase = "sort"
  /\ pos > Len(prog)
  /\ phase' = IF done THEN "done" ELSE IF progress THEN phase ELSE "assertion"
  /\ pos' = 1
  /\ progress' = FALSE
  /\ done' = TRUE
  /\ UNCHANGED <<claims, closure, depends, numbers>>

Finished == phase \in {"done", "assertion"} /\ UNCHANGED vars

Close == InheritMasters \/ MarkCross
Sort == AssignIDs \/ SkipScope \/ EndSortingPass
Step == ClaimIDs \/ EstablishConstraints \/ Close \/ CountDependencies \/ Sort

Next == Step \/ Finished

Spec == Init /\ [][Next]_vars

(* One sequential program.                                                 *)
FairSpec == Spec /\ WF_vars(Step)
=============================================================================
