------------------------------- MODULE StubsMC -------------------------------
(* Instances of Stubs: operations of one and two parameters of every kind,   *)
(* with and without a return value, one-way operations, arrays with their    *)
(* lengths in every order, and declarations whose length_is attributes refer *)
(* to anything.  Left out are three cases in which the generated code does   *)
(* not do what it promises (README): an INOUT map item, a preallocated INOUT *)
(* array, and a returned string that is sent as a string item.               *)
EXTENDS Stubs

P(kind, direction, length, prealloc) ==
  [kind |-> kind, direction |-> direction, length |-> length,
   prealloc |-> prealloc, noxfer |-> FALSE]
O(params, ret, oneway, inline) ==
  [params |-> params, ret |-> ret, oneway |-> oneway, inline |-> inline]

(* A parameter of every kind and direction, preallocated or not. *)
Plain == {P(k, d, 0, FALSE) : k \in {"word", "thread", "string", "sequence"}, d \in Directions}
         \cup {P("map", d, 0, FALSE) : d \in {"in", "out"}}
         \cup {P("sequence", d, 0, TRUE) : d \in {"out", "inout"}}
         \cup {P("string", d, ConstLength, FALSE) : d \in Directions}
         \cup {P("string", "out", ConstLength, TRUE)}
         \cup {[P(k, "in", 0, FALSE) EXCEPT !.noxfer = TRUE] : k \in {"word", "string"}}

(* The layout may put any string of unknown size into the message. *)
Carried(params) ==
  {i \in (DOMAIN params) \X {"in", "out"} :
     LET p == params[i[1]] IN
       p.kind = "string" /\ p.length = 0 /\ p.direction \in {i[2], "inout"}}
Inlines(params, ret) ==
  SUBSET (Carried(params)
          \cup (IF ret = "string" THEN {<<Len(params) + 1, "out">>} ELSE {}))

(* Operations with these parameters and return values. *)
Calls(lists, rets) ==
  UNION {{O(l, r, FALSE, i) : i \in Inlines(l, r)} : l \in lists, r \in rets}

Single == Calls({<<p>> : p \in Plain}, {"void", "word"})
Pairs == Calls({<<p, q>> : p, q \in Plain}, {"void"})
OneWay == {[o EXCEPT !.oneway = TRUE] :
             o \in {x \in Single : x.ret = "void" /\ x.params[1].direction = "in"}}
Returned == {o \in Calls({<<p>> : p \in Plain}, {"string"}) : <<2, "out">> \in o.inline}

(* An array, its length in front of or behind it, and another parameter. *)
WithLength(d, pre, other) ==
  {<<P("word", d, 0, FALSE), P("string", d, 1, pre), other>>,
   <<P("string", d, 2, pre), P("word", d, 0, FALSE), other>>,
   <<other, P("string", d, 3, pre), P("word", d, 0, FALSE)>>}
Arrays ==
  Calls(UNION {WithLength(d, FALSE, q) : d \in Directions, q \in Plain}, {"void"})
  \cup Calls(UNION {WithLength("out", TRUE, q) : q \in Plain}, {"void"})

(* Declarations that are wrong, or look so. *)
Any == {P(k, "in", n, FALSE) : k \in {"word", "string"}, n \in 0..4}
       \cup {P("struct", "in", 0, FALSE)}
       \cup {[P("string", "in", n, FALSE) EXCEPT !.noxfer = TRUE] : n \in 0..3}
Declarations == {O(<<p, q, r>>, "void", FALSE, {}) : p, q, r \in Any}

AllOperations ==
  Single \cup Pairs \cup OneWay \cup Returned \cup Arrays \cup Declarations
(* All are operations that the code supports (Stubs): what this checks is    *)
(* what the theorems of StubsProofs say of every such operation.             *)
ASSUME AllSupported == \A o \in AllOperations : Supported(o)
=============================================================================
