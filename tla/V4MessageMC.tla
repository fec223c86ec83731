---------------------------- MODULE V4MessageMC ----------------------------
(***************************************************************************)
(* Operations for TLC to marshal.  All runs use the code's own numbers: 4  *)
(* byte words, 63 registers, 400 bytes as the limit of direct transfer.    *)
(***************************************************************************)
EXTENDS V4Message

Param(kind, size, align, chans) ==
  [kind |-> kind, size |-> size, align |-> align, chans |-> chans]

In == {CHANNEL_IN}
Out == {CHANNEL_OUT}
InOut == {CHANNEL_IN, CHANNEL_OUT}
Directions == {In, Out, InOut}

TwoWay(params) == [oneway |-> FALSE, kernelmsg |-> FALSE, params |-> params]
OneWay(params) == [oneway |-> TRUE, kernelmsg |-> FALSE, params |-> params]

SeqsUpTo(S, n) == UNION {[1 .. k -> S] : k \in 0 .. n}

(* Request values around every boundary of the packing: a char, a short, a *)
(* word, structs that fill a message almost or exactly, one with an odd    *)
(* size, and one that is sent as a string.                                 *)
FixedShapes == {<<1, 1>>, <<2, 2>>, <<4, 4>>, <<3, 1>>, <<8, 4>>, <<5, 1>>,
                <<228, 4>>, <<236, 4>>, <<300, 4>>, <<400, 4>>}
FixedParams == {Param("fixed", s[1], s[2], In) : s \in FixedShapes}

(* All pairs of them; and up to three, or two small ones, any and a large  *)
(* one, of those which one word more or less makes fit or not.             *)
BoundaryParams == {p \in FixedParams : p.size \in {1, 4, 5, 8, 228, 236}}
SmallParams == {p \in BoundaryParams : p.size < 10}
PackingSignatures ==
  {TwoWay(p) : p \in SeqsUpTo(FixedParams, 2) \cup SeqsUpTo(BoundaryParams, 3)
                     \cup {<<p, q, r, t>> : p, q \in SmallParams, r \in BoundaryParams,
                                            t \in BoundaryParams \ SmallParams}}

(* Bounded strings with fixed values.                                      *)
BoundedParams == {Param("bounded", n, 1, In) : n \in {3, 10, 120, 250}}
VariableSignatures ==
  {TwoWay(p) : p \in SeqsUpTo(BoundedParams \cup
     {Param("fixed", s[1], s[2], In) : s \in {<<1, 1>>, <<100, 4>>}}, 3)}

(* Everything that is numbered, in every direction, with and without a     *)
(* reply.                                                                  *)
NumberedParams ==
  UNION {{Param("string", 0, 1, d), Param("bounded", 10, 1, d),
          Param("fpage", 1, 1, d), Param("fixed", 300, 4, d),
          Param("fixed", 400, 4, d)} : d \in Directions}
NumberedSignatures ==
  {TwoWay(p) : p \in SeqsUpTo(NumberedParams, 3)}
    \cup {OneWay(p) : p \in SeqsUpTo({q \in NumberedParams : q.chans = In}, 3)}

(* A few operations that take every path of the packing loops.             *)
LoopSignatures ==
  {TwoWay(p) : p \in SeqsUpTo({Param("fixed", 5, 1, In), Param("fixed", 4, 4, In),
                              Param("fixed", 240, 4, In), Param("bounded", 10, 1, In),
                              Param("bounded", 250, 1, In)}, 3)}

(* The operations of the last two kinds, for which termination is checked, *)
(* too.                                                                    *)
SmallSignatures == NumberedSignatures \cup LoopSignatures

(* Operations with so many string and map items that hardly a register or  *)
(* none is left for the rest.                                              *)
Repeat(p, n) == [i \in 1 .. n |-> p]
CrowdedSignatures ==
  {TwoWay(Repeat(Param("string", 0, 1, In), 29) \o Repeat(Param("fpage", 1, 1, In), m) \o rest) :
     m \in {1, 2, 3},
     rest \in SeqsUpTo({Param("fixed", 4, 4, In), Param("bounded", 3, 1, In)}, 1)}

(* Requests without a reply.                                               *)
SendSignatures == {OneWay(p) : p \in SeqsUpTo(FixedParams \cup BoundedParams, 2)}

(* All of these, for the packing of one channel.                           *)
RequestSignatures ==
  PackingSignatures \cup VariableSignatures \cup CrowdedSignatures \cup SendSignatures

(* A request and a reply too large for the registers.                      *)
LargeSignatures ==
  {TwoWay(p) : p \in SeqsUpTo({Param("fixed", 300, 4, InOut), Param("fixed", 300, 4, Out),
                              Param("bounded", 250, 1, In), Param("bounded", 250, 1, InOut)}, 3)}
=============================================================================
