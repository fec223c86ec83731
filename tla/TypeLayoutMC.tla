---------------------------- MODULE TypeLayoutMC ----------------------------
(***************************************************************************)
(* Instances of TypeLayout for TLC.                                        *)
(***************************************************************************)
EXTENDS TypeLayout

(* #s32 alone: members and bit-fields of one type.                         *)
LongOnly == <<4>>
=============================================================================
