----------------------------- MODULE V4KernelMC -----------------------------
(***************************************************************************)
(* Kernel messages for TLC, beside the operations of V4MessageMC.          *)
(***************************************************************************)
EXTENDS V4MessageMC, V4Kernel

(* Words, values that need less alignment or space, mappings, exception    *)
(* frames that fit the registers and that do not, and what is refused.     *)
WordParam == Param("fixed", 4, 4, In)
Narrow == {Param("fixed", 2, 2, In), Param("fixed", 1, 1, In), Param("fixed", 4, 1, In)}
Mapping == Param("fpage", 1, 1, Out)
Frames == {Param("fixed", n, 4, InOut) : n \in {4, 48, 244, 248, 300}}
Misfits == {Param("fixed", 8, 4, In), Param("fixed", 300, 4, In), Param("fixed", 4, 4, Out),
            Param("fpage", 1, 1, In), Param("fpage", 1, 1, InOut),
            Param("string", 0, 1, In), Param("bounded", 10, 1, Out)}

Arguments ==
  SeqsUpTo({WordParam} \cup Narrow, 3)
    \cup {p \o <<q>> : p \in SeqsUpTo({WordParam}, 3), q \in Misfits}
KernelSignatures ==
  {TwoWay(p) : p \in Arguments \cup SeqsUpTo(Frames, 2)}
    \cup {TwoWay(p \o <<Mapping>>) : p \in Arguments}
    \cup {TwoWay(<<WordParam, WordParam, Mapping, q>>) : q \in {WordParam, Mapping}}
    \cup {OneWay(p) : p \in SeqsUpTo({WordParam} \cup Narrow, 3)}

(* These, and the operations that are packed and numbered.                 *)
MixedSignatures ==
  RequestSignatures \cup SmallSignatures \cup {[s EXCEPT !.kernelmsg = TRUE] : s \in KernelSignatures}
=============================================================================
