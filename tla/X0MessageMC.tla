---------------------------- MODULE X0MessageMC ----------------------------
(***************************************************************************)
(* Operations for TLC to lay out, with the code's own three registers.     *)
(***************************************************************************)
EXTENDS X0Message

Param(kind, size, align, chans) ==
  [kind |-> kind, size |-> size, align |-> align, chans |-> chans]

IN_ == {CHANNEL_IN}
OUT_ == {CHANNEL_OUT}
INOUT_ == {CHANNEL_IN, CHANNEL_OUT}
Directions == {IN_, OUT_, INOUT_}

TwoWay(params) == [oneway |-> FALSE, params |-> params]
OneWay(params) == [oneway |-> TRUE, params |-> params]

SeqsUpTo(S, n) == UNION {[1 .. k -> S] : k \in 0 .. n}

(* A char, a short, a long, a struct of two longs, a bounded string in the *)
(* buffer and a long one, a map item, in every direction.                  *)
Shapes == {<<"fixed", 1, 1>>, <<"fixed", 2, 2>>, <<"fixed", 4, 4>>, <<"fixed", 8, 4>>,
           <<"variable", 10, 1>>, <<"variable", UNKNOWN, 1>>, <<"fpage", 8, 8>>}
Params == {Param(s[1], s[2], s[3], d) : s \in Shapes, d \in Directions}

(* Operations that use all registers and still have words left.            *)
Long(d) == Param("fixed", 4, 4, d)
Struct(d) == Param("fixed", 8, 4, d)
Char(d) == Param("fixed", 1, 1, d)
String(d) == Param("variable", UNKNOWN, 1, d)
Full(first) ==
  {TwoWay(first \o p) :
     p \in SeqsUpTo({Long(IN_), Char(IN_), Struct(INOUT_), Struct(OUT_), String(INOUT_),
                     String(OUT_), Param("variable", 10, 1, IN_)}, 4)}

AllSignatures ==
  {TwoWay(p) : p \in SeqsUpTo(Params, 3)}
    \cup {OneWay(p) : p \in SeqsUpTo({q \in Params : q.chans = IN_}, 3)}
    \cup Full(<<Long(IN_), Long(INOUT_)>>)

(* Operations of two parameters.                                           *)
PairSignatures == {TwoWay(p) : p \in SeqsUpTo(Params, 2)}
=============================================================================
