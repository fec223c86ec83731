----------------------------- MODULE TypeLayout -----------------------------
(***************************************************************************)
(* The sizes and alignments the generator assumes of the types of an       *)
(* interface (be/types), beside those a C compiler gives the same          *)
(* declarations.                                                           *)
(*                                                                         *)
(* Types are declared one after the other, and each may be made of those   *)
(* before it. getFlatSize and getAlignment go through the members of a     *)
(* struct or union in one loop each; an action is a round of both. The     *)
(* position at which the C compiler places the same member is kept beside  *)
(* them.                                                                   *)
(*                                                                         *)
(* A union is declared to C either as it is or, if the interface gives it  *)
(* a discriminator (union U switch (T) { ... }), inside a struct behind    *)
(* that (types/union.cc 21-54). The loops pass over the members of the     *)
(* union in either case.                                                   *)
(*                                                                         *)
(* Every type is the number of its declaration, which stands for its name  *)
(* as well: types of one name in different scopes are left out. So are     *)
(* references, and arrays in unions, which the code warns are not          *)
(* implemented. Sequences and strings in a struct stop the generator       *)
(* (struct.cc 10-13).                                                      *)
(***************************************************************************)
EXTENDS Naturals, Sequences

CONSTANTS
  WordSize,      \* globals.word_size
  IntegerSizes,     \* the sizes of the integer types, in bytes
  Counts,        \* the numbers of elements of members and typedefs, 1: no array
  Widths,        \* the widths of bit-fields
  MaxMembers,    \* bound: members of a struct or union
  MaxTypes       \* bound: types, integers included

(* What the code assumes of its platforms (base/main.cc 245-256) and of    *)
(* integers (aoi.cc 549-559); elements and widths are not zero.            *)
LayoutAssumption ==
  /\ WordSize \in {4, 8}
  /\ IntegerSizes \in Seq({1, 2, 4, 8})
  /\ Counts \subseteq Nat \ {0}
  /\ Widths \subseteq Nat \ {0}

VARIABLES
  types,                 \* the types declared so far
  kind,                  \* of the type being declared
  switchType,            \* aoi->switchType, the discriminator of the union
  members,               \* how many of its members the loops have seen
  flatSize, strictest, currentBitfieldType, bitfieldBitsRemaining,
  cBits, cAlign,         \* the C compiler: bits used, strictest alignment
  tagged,                \* history: a discriminator is part of it
  regular                \* history: a layout whose sizes ought to agree

bitfield == <<currentBitfieldType, bitfieldBitsRemaining>>
history == <<tagged, regular>>
vars == <<types, kind, switchType, members, flatSize, strictest, bitfield, cBits, cAlign, history>>

None == 0                \* NULL for currentBitfieldType and switchType

-----------------------------------------------------------------------------
(* Arithmetic                                                              *)

(* while (size % align) size++;                                            *)
AlignUp(size, align) == ((size + align - 1) \div align) * align

Larger(a, b) == IF a < b THEN b ELSE a

Bytes(bits) == (bits + 7) \div 8

(* Integers are aligned to their size, but to no more than a word. On the  *)
(* platforms in question the C compiler does the same in structs.          *)
Integer(size) ==
  LET align == IF size > WordSize THEN WordSize ELSE size
  IN  [size |-> size, align |-> align, cSize |-> size, cAlign |-> align,
       integral |-> TRUE, tagged |-> FALSE, regular |-> TRUE]

-----------------------------------------------------------------------------
(* The C compiler                                                          *)

CMember(t, count) ==
  /\ cBits' = 8 * (AlignUp(Bytes(cBits), types[t].cAlign) + types[t].cSize * count)
  /\ cAlign' = Larger(cAlign, types[t].cAlign)

(* A bit-field begins behind the bits used so far, whatever they are used  *)
(* for, unless it would span more units than its type has.                 *)
CBitfield(t, width) ==
  LET unit == 8 * types[t].cAlign
      spans == ((cBits % unit) + width + unit - 1) \div unit > types[t].cSize \div types[t].cAlign
  IN  /\ cBits' = (IF spans THEN AlignUp(cBits, unit) ELSE cBits) + width
      /\ cAlign' = Larger(cAlign, types[t].cAlign)

(* The elements of a union lie on each other: those of the union itself or *)
(* of its member _u.                                                       *)
CElement(t) ==
  /\ cBits' = Larger(cBits, 8 * types[t].cSize)
  /\ cAlign' = Larger(cAlign, types[t].cAlign)

(* The size and alignment of what is declared: a struct or union of the    *)
(* members alone, or struct { T _d; union { ... } _u; }.                   *)
CShape ==
  LET inner == AlignUp(Bytes(cBits), cAlign)
      d == types[switchType]
      outer == Larger(d.cAlign, cAlign)
  IN  IF switchType = None
      THEN [size |-> inner, align |-> cAlign]
      ELSE [size |-> AlignUp(AlignUp(d.cSize, cAlign) + inner, outer), align |-> outer]

-----------------------------------------------------------------------------
(* Declarations                                                            *)

Init ==
  /\ types = [i \in DOMAIN IntegerSizes |-> Integer(IntegerSizes[i])]
  /\ kind = "none" /\ switchType = None
  /\ members = 0
  /\ flatSize = 0 /\ strictest = 1
  /\ currentBitfieldType = None /\ bitfieldBitsRemaining = 0
  /\ cBits = 0 /\ cAlign = 1
  /\ tagged = FALSE /\ regular = TRUE

(* A typedef, perhaps of an array.                                         *)
Alias(t, count) ==
  /\ kind = "none" /\ Len(types) < MaxTypes
  /\ types' = Append(types,
       [types[t] EXCEPT !.size = @ * count, !.cSize = @ * count,
                        !.integral = @ /\ count = 1])
  /\ UNCHANGED <<kind, switchType, members, flatSize, strictest, bitfield, cBits, cAlign, history>>

Begin(k, discriminator) ==
  /\ kind = "none" /\ Len(types) < MaxTypes
  /\ kind' = k /\ switchType' = discriminator
  /\ members' = 0
  /\ flatSize' = 0 /\ strictest' = 1
  /\ currentBitfieldType' = None /\ bitfieldBitsRemaining' = 0
  /\ cBits' = 0 /\ cAlign' = 1
  /\ tagged' = (discriminator # None)
  /\ regular' = (discriminator = None)
  /\ UNCHANGED types

BeginStruct == Begin("struct", None)

(* Not CORBA compatible: union { ... }.                                    *)
BeginUnion == Begin("union", None)

(* switch_type_spec admits integers, characters, booleans and enums, and   *)
(* names of types.                                                         *)
BeginSwitch(t) == types[t].integral /\ Begin("union", t)

MemberOf(k) ==
  /\ kind = k /\ members < MaxMembers
  /\ members' = members + 1
  /\ UNCHANGED <<types, kind, switchType>>

(* The member is padded before and behind it.                              *)
Place(t, count) ==
  /\ flatSize' =
       AlignUp(AlignUp(flatSize, types[t].align) + types[t].size * count, types[t].align)
  /\ strictest' = Larger(strictest, types[t].align)

(* A member that is not a bit-field: the unit of the bit-fields before it  *)
(* remains open.                                                           *)
Member(t, count) ==
  /\ MemberOf("struct")
  /\ Place(t, count)
  /\ CMember(t, count)
  /\ tagged' = (tagged \/ types[t].tagged)
  /\ regular' = (regular /\ types[t].regular /\ currentBitfieldType = None)
  /\ UNCHANGED bitfield

(* A C compiler accepts bit-fields of integers that have so many bits.     *)
Declarable(t, width) == types[t].integral /\ width <= 8 * types[t].size

FitsUnit(t, width) == t = currentBitfieldType /\ width <= bitfieldBitsRemaining

(* Bit-fields of one type, which fits its alignment, and nothing else.     *)
RegularBitfield(t) ==
  /\ regular
  /\ types[t].size = types[t].align
  /\ members = 0 \/ t = currentBitfieldType

NextInUnit(t, width) ==
  /\ MemberOf("struct") /\ Declarable(t, width) /\ FitsUnit(t, width)
  /\ bitfieldBitsRemaining' = bitfieldBitsRemaining - width
  /\ strictest' = Larger(strictest, types[t].align)
  /\ CBitfield(t, width)
  /\ regular' = RegularBitfield(t)
  /\ UNCHANGED <<flatSize, currentBitfieldType, tagged>>

NewUnit(t, width) ==
  /\ MemberOf("struct") /\ Declarable(t, width) /\ ~FitsUnit(t, width)
  /\ Place(t, 1)
  /\ currentBitfieldType' = t
  /\ bitfieldBitsRemaining' = types[t].size * 8 - width
  /\ CBitfield(t, width)
  /\ regular' = RegularBitfield(t)
  /\ UNCHANGED tagged

(* An element of a union is padded to its own alignment. The discriminator *)
(* is not considered.                                                      *)
Element(t) ==
  /\ MemberOf("union")
  /\ flatSize' = Larger(flatSize, AlignUp(types[t].size, types[t].align))
  /\ strictest' = Larger(strictest, types[t].align)
  /\ CElement(t)
  /\ tagged' = (tagged \/ types[t].tagged)
  /\ regular' = (regular /\ types[t].regular)
  /\ UNCHANGED bitfield

(* getAlignment: no more than a word.                                      *)
Alignment == IF strictest > WordSize THEN WordSize ELSE strictest

(* Only structs are padded to their alignment at the end.                  *)
Complete(size) ==
  /\ members > 0
  /\ types' = Append(types,
       [size |-> size, align |-> Alignment,
        cSize |-> CShape.size, cAlign |-> CShape.align,
        integral |-> FALSE, tagged |-> tagged,
        regular |-> regular /\ (kind = "union" => size % Alignment = 0)])
  /\ kind' = "none"
  /\ UNCHANGED <<switchType, members, flatSize, strictest, bitfield, cBits, cAlign, history>>

EndStruct == kind = "struct" /\ Complete(AlignUp(flatSize, Alignment))

EndUnion == kind = "union" /\ Complete(flatSize)

Next ==
  \/ \E t \in DOMAIN types :
       \/ \E count \in Counts : Alias(t, count) \/ Member(t, count)
       \/ \E width \in Widths : NextInUnit(t, width) \/ NewUnit(t, width)
       \/ Element(t)
       \/ BeginSwitch(t)
  \/ BeginStruct
  \/ BeginUnion
  \/ EndStruct
  \/ EndUnion

Spec == Init /\ [][Next]_vars

-----------------------------------------------------------------------------
(* Properties                                                              *)

(* The size the stubs copy and the message has room for is the size of the *)
(* type, without a discriminator. Generated test clients stop otherwise,   *)
(* with "Size of %s is %d (assumed %d)" (struct.cc 101-113).               *)
SizesAgree ==
  \A t \in DOMAIN types : ~types[t].tagged => types[t].size = types[t].cSize

(* The alignments agree for all types without a discriminator: the order   *)
(* of the members and the padding between them in a message is that of the *)
(* C compiler. For no type the code assumes too strict an alignment.       *)
AlignmentsAgree ==
  \A t \in DOMAIN types :
    /\ ~types[t].tagged => types[t].align = types[t].cAlign
    /\ types[t].align <= types[t].cAlign

(* The sizes agree for all that is made of integers, arrays, structs,      *)
(* unions without a discriminator whose largest element leaves no gap at   *)
(* the end, and structs of bit-fields of one type.                         *)
RegularSizesAgree ==
  \A t \in DOMAIN types : types[t].regular => types[t].size = types[t].cSize
=============================================================================
