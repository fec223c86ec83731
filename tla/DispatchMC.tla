----------------------------- MODULE DispatchMC -----------------------------
(* Small programs for TLC. *)
EXTENDS Dispatch

Auto(n) == [k \in 1 .. n |-> [fid |-> UNKNOWN, kernel |-> FALSE]]
Method(fid) == <<[fid |-> fid, kernel |-> FALSE]>>
KernelMethod(fid) == <<[fid |-> fid, kernel |-> TRUE]>>

Scopes(supers, iids, ops) ==
  [s \in DOMAIN supers |->
     [interface |-> TRUE, iid |-> iids[s], supers |-> supers[s], ops |-> ops[s],
      excs |-> (s + 1) \div 2]]

Root == [interface |-> FALSE, iid |-> 0, supers |-> {}, ops |-> <<>>, excs |-> 1]

(* Inheritance among the interfaces 1 .. n, which may be declared in any   *)
(* order.                                                                  *)
Orders(n) == {f \in [1 .. n -> 1 .. n] : \A i, j \in 1 .. n : i # j => f[i] # f[j]}
Graphs(n) ==
  {[i \in 1 .. n |-> {j \in 1 .. n : j # i /\ <<i, j>> \in e}] :
     e \in UNION {SUBSET {<<i, j>> \in (1 .. n) \X (1 .. n) : f[i] > f[j]} : f \in Orders(n)}}

(* Every acyclic inheritance of four interfaces, up to superclasses that   *)
(* are inherited through another one anyway, and two numbers.              *)
Inheritance ==
  {g \in Graphs(4) : \A i \in 1 .. 4 : \A j, k \in g[i] :
     \A l \in g[j] : k # l /\ k \notin g[l]}

Diamonds ==
  {Scopes(g, iids, <<Auto(1), Auto(2), Auto(0), Auto(1)>>) :
     g \in Inheritance, iids \in {f \in [1 .. 4 -> {0, 5}] : f[1] = 0}}

(* A root scope and two or three interfaces that one server implements,    *)
(* with numbers at the borders of the tables and of the message format.    *)
Methods == {Auto(0), Auto(1), Auto(3), Auto(63), Method(2), Method(63),
            KernelMethod(1), KernelMethod(2), KernelMethod(16),
            Auto(1) \o KernelMethod(1)}
Numbers == {0, 1, 2, 1000}

Servers ==
  {<<Root>> \o Scopes(<<{}, {2}>>, iids, ops) :
     iids \in [1 .. 2 -> Numbers], ops \in [1 .. 2 -> Methods]}
    \cup
  {Scopes(<<{}, {}, {1, 2}>>, iids, <<Auto(1), Auto(2), Auto(1)>>) :
     iids \in [1 .. 3 -> Numbers]}

Inherited == Diamonds \cup Servers
=============================================================================
