-------------------------- MODULE TypeLayoutProofs --------------------------
(***************************************************************************)
(* The generator and the C compiler agree on the alignment of every type   *)
(* without a discriminator, and on the size of every regular one.          *)
(***************************************************************************)
EXTENDS TypeLayout, TLAPS

(* Whatever is declared: WordSize is 4 or 8, so this is all there is.      *)
PowersOfTwo == {1, 2, 4, 8}

Type ==
  [size : Nat, align : PowersOfTwo, cSize : Nat, cAlign : PowersOfTwo,
   integral : BOOLEAN, tagged : BOOLEAN, regular : BOOLEAN]

TypeOK ==
  /\ types \in Seq(Type)
  /\ kind \in {"none", "struct", "union"} /\ switchType \in Nat
  /\ members \in Nat
  /\ flatSize \in Nat /\ strictest \in PowersOfTwo
  /\ currentBitfieldType \in Nat /\ bitfieldBitsRemaining \in Nat
  /\ cBits \in Nat /\ cAlign \in PowersOfTwo
  /\ tagged \in BOOLEAN /\ regular \in BOOLEAN

(* A type that is declared has one alignment, no more than a word, unless  *)
(* a discriminator makes that of the C compiler the stricter one; if it is *)
(* regular, it has one size, which leaves no gap between elements.         *)
Agreed(type) ==
  /\ type.align <= type.cAlign /\ type.cAlign <= WordSize
  /\ ~type.tagged => type.align = type.cAlign
  /\ type.integral => type.regular
  /\ type.regular => /\ ~type.tagged
                     /\ type.size = type.cSize /\ type.size % type.align = 0

(* The same of the type being declared.                                    *)
AlignmentInv ==
  /\ strictest <= cAlign /\ cAlign <= WordSize
  /\ ~tagged => strictest = cAlign

(* Only unions have a discriminator, a type declared before; and then the  *)
(* type is not regular.                                                    *)
SwitchInv ==
  /\ kind # "none" /\ switchType # None =>
       kind = "union" /\ tagged /\ switchType \in DOMAIN types
  /\ regular => ~tagged

(* The bits used end where the unit of the last bit-fields has them left.  *)
(* The unit is as long as its alignment and stands at the end.             *)
UnitInv ==
  IF currentBitfieldType = None
  THEN cBits = 8 * flatSize
  ELSE /\ currentBitfieldType \in DOMAIN types
       /\ LET type == types[currentBitfieldType]
          IN  /\ type.size = type.align /\ type.cSize = type.size
              /\ strictest = type.size
              /\ bitfieldBitsRemaining < 8 * type.size
              /\ flatSize % type.size = 0
       /\ cBits = 8 * flatSize - bitfieldBitsRemaining

LayoutInv ==
  /\ TypeOK
  /\ \A t \in DOMAIN types : Agreed(types[t])
  /\ AlignmentInv
  /\ SwitchInv
  /\ kind = "struct" /\ regular => UnitInv
  /\ kind = "struct" /\ members = 0 =>
       currentBitfieldType = None /\ flatSize = 0 /\ strictest = 1
  /\ kind = "union" /\ regular => cBits = 8 * flatSize

-----------------------------------------------------------------------------
(* Arithmetic                                                              *)

LEMMA AlignUpNat ==
  ASSUME NEW size \in Nat, NEW align \in PowersOfTwo
  PROVE  /\ AlignUp(size, align) \in Nat
         /\ AlignUp(size, align) % align = 0
         /\ size % align = 0 => AlignUp(size, align) = size
<1>1. CASE align = 1
  BY <1>1 DEF AlignUp
<1>2. CASE align = 2
  BY <1>2 DEF AlignUp
<1>3. CASE align = 4
  BY <1>3 DEF AlignUp
<1>4. CASE align = 8
  BY <1>4 DEF AlignUp
<1> QED BY <1>1, <1>2, <1>3, <1>4 DEF PowersOfTwo

(* Elements without gaps leave none.                                       *)
LEMMA ProductAligned ==
  ASSUME NEW size \in Nat, NEW count \in Nat, NEW align \in PowersOfTwo, size % align = 0
  PROVE  size * count \in Nat /\ (size * count) % align = 0
<1>1. PICK k \in Nat : size = align * k
  BY DEF PowersOfTwo
<1> DEFINE n == k * count
<1>2. n \in Nat /\ size * count = align * n
  BY <1>1 DEF PowersOfTwo
<1> HIDE DEF n
<1> QED BY <1>2 DEF PowersOfTwo

LEMMA SumAligned ==
  ASSUME NEW a \in Nat, NEW b \in Nat, NEW align \in PowersOfTwo, a % align = 0, b % align = 0
  PROVE  a + b \in Nat /\ (a + b) % align = 0
BY DEF PowersOfTwo

LEMMA WholeBytes == \A n \in Nat : Bytes(8 * n) = n
BY DEF Bytes

(* The bits that are left in the last unit are part of the type.           *)
LEMMA LastUnit ==
  ASSUME NEW s \in PowersOfTwo, NEW size \in Nat, size % s = 0,
         NEW left \in Nat, left < 8 * s, NEW used \in Nat, used = 8 * size - left
  PROVE  AlignUp(Bytes(used), s) = size
<1>1. CASE s = 1
  BY <1>1 DEF AlignUp, Bytes
<1>2. CASE s = 2
  BY <1>2 DEF AlignUp, Bytes
<1>3. CASE s = 4
  BY <1>3 DEF AlignUp, Bytes
<1>4. CASE s = 8
  BY <1>4 DEF AlignUp, Bytes
<1> QED BY <1>1, <1>2, <1>3, <1>4 DEF PowersOfTwo

(* Where a bit-field begins that follows others of its type: behind them   *)
(* if it fits, in a new unit otherwise.                                    *)
LEMMA NextField ==
  ASSUME NEW s \in PowersOfTwo, NEW size \in Nat, size % s = 0,
         NEW left \in Nat, left < 8 * s, NEW used \in Nat, used = 8 * size - left,
         NEW width \in Nat \ {0}, width <= 8 * s
  PROVE  /\ width <= left =>
              ~(((used % (8 * s)) + width + 8 * s - 1) \div (8 * s) > 1)
         /\ left = 0 =>
              ~(((used % (8 * s)) + width + 8 * s - 1) \div (8 * s) > 1)
         /\ left > 0 /\ width > left =>
              /\ ((used % (8 * s)) + width + 8 * s - 1) \div (8 * s) > 1
              /\ AlignUp(used, 8 * s) = 8 * size
<1>1. CASE s = 1
  BY <1>1 DEF AlignUp
<1>2. CASE s = 2
  BY <1>2 DEF AlignUp
<1>3. CASE s = 4
  BY <1>3 DEF AlignUp
<1>4. CASE s = 8
  BY <1>4 DEF AlignUp
<1> QED BY <1>1, <1>2, <1>3, <1>4 DEF PowersOfTwo

-----------------------------------------------------------------------------
(* The steps                                                               *)

LEMMA LayoutInit == LayoutAssumption /\ Init => LayoutInv
<1> SUFFICES ASSUME LayoutAssumption, Init  PROVE LayoutInv
  OBVIOUS
<1>1. ASSUME NEW i \in DOMAIN types  PROVE types[i] \in Type /\ Agreed(types[i])
  <2> DEFINE size == IntegerSizes[i]
  <2>1. size \in {1, 2, 4, 8} /\ types[i] = Integer(size)
    BY DEF Init, LayoutAssumption
  <2> HIDE DEF size
  <2>2. CASE size > WordSize
    BY <2>1, <2>2 DEF Integer, Type, Agreed, PowersOfTwo, LayoutAssumption
  <2>3. CASE ~(size > WordSize)
    BY <2>1, <2>3 DEF Integer, Type, Agreed, PowersOfTwo, LayoutAssumption
  <2> QED BY <2>2, <2>3
<1>2. Len(IntegerSizes) \in Nat /\ types = [i \in 1 .. Len(IntegerSizes) |-> types[i]]
  BY DEF Init, LayoutAssumption
<1>3. types \in Seq(Type)
  BY <1>1, <1>2
<1>4. TypeOK
  BY <1>3 DEF Init, TypeOK, None, PowersOfTwo
<1>5. AlignmentInv
  BY DEF Init, AlignmentInv, LayoutAssumption
<1>6. SwitchInv
  BY DEF Init, SwitchInv
<1> QED BY <1>1, <1>4, <1>5, <1>6 DEF Init, LayoutInv

(* What is known of a type that is referred to.                            *)
LEMMA Known ==
  ASSUME LayoutInv, NEW t \in DOMAIN types
  PROVE  /\ types[t] \in Type /\ Agreed(types[t]) /\ t \in Nat \ {0}
         /\ types[t].integral => ~types[t].tagged
BY DEF LayoutInv, TypeOK, Agreed

LEMMA Declared ==
  ASSUME LayoutInv, NEW type \in Type, Agreed(type), types' = Append(types, type)
  PROVE  types' \in Seq(Type) /\ \A t \in DOMAIN types' : Agreed(types'[t])
<1>1. types \in Seq(Type) /\ \A t \in DOMAIN types : Agreed(types[t])
  BY DEF LayoutInv, TypeOK
<1>2. types' \in Seq(Type) /\ DOMAIN types' = 1 .. Len(types) + 1
  BY <1>1
<1>3. ASSUME NEW t \in DOMAIN types'  PROVE Agreed(types'[t])
  <2>1. CASE t = Len(types) + 1
    BY <1>1, <2>1
  <2>2. CASE t # Len(types) + 1
    BY <1>1, <1>2, <2>2
  <2> QED BY <2>1, <2>2
<1> QED BY <1>2, <1>3

LEMMA LayoutAlias ==
  ASSUME LayoutAssumption, LayoutInv, NEW t \in DOMAIN types, NEW count \in Counts, Alias(t, count)
  PROVE  LayoutInv'
<1> DEFINE type == [types[t] EXCEPT !.size = @ * count, !.cSize = @ * count,
                                    !.integral = @ /\ count = 1]
<1>1. types[t] \in Type /\ Agreed(types[t]) /\ count \in Nat
  BY Known DEF LayoutAssumption
<1>2. type.size = types[t].size * count /\ type.cSize = types[t].cSize * count
      /\ type.align = types[t].align /\ type.cAlign = types[t].cAlign
      /\ type.regular = types[t].regular /\ (type.integral => types[t].integral)
      /\ type.tagged = types[t].tagged
  BY <1>1 DEF Type
<1>3. type \in Type
  <2>1. \A a, b \in Nat : a * b \in Nat
    OBVIOUS
  <2> QED BY <1>1, <2>1 DEF Type
<1>4. Agreed(type)
  <2>1. type.regular => type.size % type.align = 0
    BY <1>1, <1>2, ProductAligned DEF Type, Agreed
  <2> QED BY <1>1, <1>2, <2>1 DEF Type, Agreed
<1>5. types' = Append(types, type)
  BY DEF Alias
<1> HIDE DEF type
<1>6. types' \in Seq(Type) /\ \A u \in DOMAIN types' : Agreed(types'[u])
  BY <1>3, <1>4, <1>5, Declared
<1> QED BY <1>6 DEF Alias, LayoutInv, TypeOK, AlignmentInv, SwitchInv, bitfield, history

LEMMA LayoutBegin ==
  ASSUME LayoutAssumption, LayoutInv, NEW k \in {"struct", "union"},
         NEW d \in Nat, d # None => k = "union" /\ d \in DOMAIN types, Begin(k, d)
  PROVE  LayoutInv'
<1>1. TypeOK'
  BY DEF Begin, LayoutInv, TypeOK, None, PowersOfTwo
<1>2. AlignmentInv'
  BY DEF Begin, LayoutAssumption, AlignmentInv
<1>3. SwitchInv'
  BY DEF Begin, SwitchInv
<1>4. UnitInv' /\ cBits' = 8 * flatSize'
  BY DEF Begin, UnitInv
<1> QED BY <1>1, <1>2, <1>3, <1>4 DEF Begin, LayoutInv

(* The alignments of the type being declared stay together.                *)
LEMMA StrictestKept ==
  ASSUME LayoutInv, NEW t \in DOMAIN types,
         strictest' = Larger(strictest, types[t].align),
         cAlign' = Larger(cAlign, types[t].cAlign),
         tagged' = (tagged \/ types[t].tagged)
  PROVE  strictest' \in PowersOfTwo /\ cAlign' \in PowersOfTwo /\ AlignmentInv'
<1>1. types[t] \in Type /\ Agreed(types[t])
  BY Known
<1>2. types[t].align \in PowersOfTwo /\ types[t].cAlign \in PowersOfTwo
  BY <1>1 DEF Type
<1>3. strictest \in PowersOfTwo /\ cAlign \in PowersOfTwo /\ AlignmentInv
  BY DEF LayoutInv, TypeOK
<1>4. strictest' \in PowersOfTwo /\ cAlign' \in PowersOfTwo
  BY <1>2, <1>3 DEF Larger
<1>5. strictest' <= cAlign' /\ cAlign' <= WordSize
  BY <1>1, <1>2, <1>3 DEF Larger, PowersOfTwo, Agreed, AlignmentInv
<1>6. ~tagged' => strictest' = cAlign'
  BY <1>1, <1>3 DEF Agreed, AlignmentInv
<1> QED BY <1>4, <1>5, <1>6 DEF AlignmentInv

LEMMA LayoutMember ==
  ASSUME LayoutAssumption, LayoutInv, NEW t \in DOMAIN types, NEW count \in Counts,
         Member(t, count)
  PROVE  LayoutInv'
<1> DEFINE type == types[t]
           a == AlignUp(flatSize, type.align)
           s == type.size * count
<1>1. type \in Type /\ Agreed(type) /\ count \in Nat
  BY Known DEF LayoutAssumption
<1>2. strictest' \in PowersOfTwo /\ cAlign' \in PowersOfTwo /\ AlignmentInv'
  BY StrictestKept DEF Member, Place, CMember
<1>3. a \in Nat /\ a % type.align = 0
  BY <1>1, AlignUpNat DEF LayoutInv, TypeOK, Type
<1>4. s \in Nat /\ type.cSize * count \in Nat
  <2>1. \A x, y \in Nat : x * y \in Nat
    OBVIOUS
  <2> QED BY <1>1, <2>1 DEF Type
<1>5. flatSize' = AlignUp(a + s, type.align) /\ flatSize' \in Nat
  <2>1. flatSize' = AlignUp(a + s, type.align)
    BY DEF Member, Place
  <2>2. a + s \in Nat
    BY <1>3, <1>4
  <2> HIDE DEF a, s
  <2> QED BY <1>1, <2>1, <2>2, AlignUpNat DEF Type
<1>6. cBits' = 8 * (AlignUp(Bytes(cBits), type.cAlign) + type.cSize * count) /\ cBits' \in Nat
  <2>1. Bytes(cBits) \in Nat
    BY DEF Bytes, LayoutInv, TypeOK
  <2>2. AlignUp(Bytes(cBits), type.cAlign) \in Nat
    BY <1>1, <2>1, AlignUpNat DEF Type
  <2> QED BY <1>4, <2>2 DEF Member, CMember
<1>7. TypeOK'
  <2>1. tagged' \in BOOLEAN /\ regular' \in BOOLEAN
    BY <1>1 DEF Member, LayoutInv, TypeOK, Type
  <2> QED BY <1>2, <1>5, <1>6, <2>1 DEF Member, MemberOf, LayoutInv, TypeOK, bitfield
<1>8. ASSUME regular'  PROVE UnitInv'
  <2>1. regular /\ type.regular /\ currentBitfieldType = None /\ kind = "struct"
    BY <1>1, <1>8 DEF Member, MemberOf, LayoutInv, TypeOK, Type
  <2>2. cBits = 8 * flatSize
    BY <2>1 DEF LayoutInv, UnitInv
  <2>3. Bytes(cBits) = flatSize
    BY <2>2, WholeBytes DEF LayoutInv, TypeOK
  <2>4. type.size = type.cSize /\ type.align = type.cAlign /\ s % type.align = 0
    BY <1>1, <2>1, ProductAligned DEF Agreed, Type
  <2>5. (a + s) % type.align = 0 /\ a + s \in Nat
    BY <1>1, <1>3, <1>4, <2>4, SumAligned DEF Type
  <2>6. flatSize' = a + s
    BY <1>1, <1>5, <2>5, AlignUpNat DEF Type
  <2>7. cBits' = 8 * flatSize'
    BY <1>6, <2>3, <2>4, <2>6
  <2> QED BY <2>1, <2>7 DEF UnitInv, Member, bitfield
<1>9. SwitchInv'
  BY <1>1 DEF Member, MemberOf, LayoutInv, SwitchInv, Agreed
<1>10. ~(kind' = "struct" /\ members' = 0) /\ kind' # "union"
  BY DEF Member, MemberOf, LayoutInv, TypeOK
<1> QED BY <1>2, <1>7, <1>8, <1>9, <1>10 DEF LayoutInv, Member, MemberOf

LEMMA BitsNat ==
  ASSUME LayoutAssumption, LayoutInv, NEW t \in DOMAIN types, NEW width \in Widths,
         CBitfield(t, width)
  PROVE  cBits' \in Nat
<1>1. \A a \in PowersOfTwo, p \in Nat : AlignUp(p, 8 * a) \in Nat
  BY DEF PowersOfTwo, AlignUp
<1>2. types[t].cAlign \in PowersOfTwo /\ cBits \in Nat /\ width \in Nat
  BY Known DEF LayoutInv, TypeOK, Type, LayoutAssumption
<1>3. AlignUp(cBits, 8 * types[t].cAlign) \in Nat
  BY <1>1, <1>2
<1>4. cBits' = cBits + width \/ cBits' = AlignUp(cBits, 8 * types[t].cAlign) + width
  BY DEF CBitfield
<1> QED BY <1>2, <1>3, <1>4

(* What the two rules do with a bit-field of a regular struct.             *)
LEMMA RegularField ==
  ASSUME LayoutAssumption, LayoutInv, NEW t \in DOMAIN types, NEW width \in Widths,
         kind = "struct", RegularBitfield(t), Declarable(t, width), CBitfield(t, width)
  PROVE  /\ types[t].size \in PowersOfTwo /\ types[t].align = types[t].size
         /\ types[t].cSize = types[t].size
         /\ flatSize % types[t].size = 0 /\ t # None
         /\ strictest \in {1, types[t].size}
         /\ FitsUnit(t, width) => cBits' = 8 * flatSize - (bitfieldBitsRemaining - width)
         /\ ~FitsUnit(t, width) => cBits' = 8 * flatSize + width
<1> DEFINE s == types[t].size
           left == IF currentBitfieldType = None THEN 0 ELSE bitfieldBitsRemaining
<1>1. types[t] \in Type /\ Agreed(types[t]) /\ t # None /\ width \in Nat \ {0}
  BY Known DEF None, LayoutAssumption
<1>2. s \in PowersOfTwo /\ types[t].align = s /\ types[t].cAlign = s /\ types[t].cSize = s
      /\ width <= 8 * s
  BY <1>1 DEF RegularBitfield, Declarable, Agreed, Type
<1>3. UnitInv /\ flatSize \in Nat /\ cBits \in Nat /\ bitfieldBitsRemaining \in Nat
  BY DEF RegularBitfield, LayoutInv, TypeOK
<1>4. currentBitfieldType = None \/ currentBitfieldType = t
  BY DEF RegularBitfield, LayoutInv
<1>5. /\ flatSize % s = 0 /\ left < 8 * s /\ left \in Nat /\ cBits = 8 * flatSize - left
      /\ strictest \in {1, s}
  <2>1. CASE currentBitfieldType = None
    <3>1. flatSize = 0 /\ strictest = 1
      BY <1>1, <2>1 DEF RegularBitfield, LayoutInv
    <3> QED BY <1>2, <1>3, <2>1, <3>1 DEF UnitInv, PowersOfTwo
  <2>2. CASE currentBitfieldType = t
    BY <1>1, <1>3, <2>2 DEF UnitInv
  <2> QED BY <1>4, <2>1, <2>2
<1>6. FitsUnit(t, width) <=> width <= left
  BY <1>1, <1>3, <1>4 DEF FitsUnit
<1>7. FitsUnit(t, width) => left = bitfieldBitsRemaining
  BY <1>1 DEF FitsUnit
<1> DEFINE Spans == ((cBits % (8 * s)) + width + 8 * s - 1) \div (8 * s) > 1
<1>8. cBits' = (IF Spans THEN AlignUp(cBits, 8 * s) ELSE cBits) + width
  <2>1. s \div s = 1
    BY <1>2 DEF PowersOfTwo
  <2> QED BY <1>2, <2>1 DEF CBitfield
<1> HIDE DEF s, left
<1>9. /\ width <= left => ~Spans
      /\ left = 0 => ~Spans
      /\ left > 0 /\ width > left => Spans /\ AlignUp(cBits, 8 * s) = 8 * flatSize
  BY <1>1, <1>2, <1>3, <1>5, NextField
<1> HIDE DEF Spans
<1>10. width <= left => cBits' = 8 * flatSize - (left - width)
  BY <1>1, <1>3, <1>5, <1>8, <1>9
<1>11. width > left => cBits' = 8 * flatSize + width
  <2>1. CASE left = 0
    BY <1>1, <1>3, <1>5, <1>8, <1>9, <2>1
  <2>2. CASE left > 0
    BY <1>1, <1>3, <1>5, <1>8, <1>9, <2>2
  <2> QED BY <1>5, <2>1, <2>2
<1>12. flatSize % types[t].size = 0 /\ strictest \in {1, types[t].size}
  BY <1>5 DEF s
<1>13. width > left \/ width <= left
  BY <1>1, <1>5
<1> QED BY <1>1, <1>2, <1>6, <1>7, <1>10, <1>11, <1>12, <1>13 DEF s

LEMMA LayoutNextInUnit ==
  ASSUME LayoutAssumption, LayoutInv, NEW t \in DOMAIN types, NEW width \in Widths,
         NextInUnit(t, width)
  PROVE  LayoutInv'
<1>1. strictest' \in PowersOfTwo /\ cAlign' \in PowersOfTwo /\ AlignmentInv'
  <2>1. tagged' = (tagged \/ types[t].tagged)
    BY Known DEF NextInUnit, Declarable, LayoutInv, TypeOK
  <2> QED BY <2>1, StrictestKept DEF NextInUnit, CBitfield
<1>2. cBits' \in Nat
  BY BitsNat DEF NextInUnit
<1>3. width \in Nat /\ t = currentBitfieldType /\ width <= bitfieldBitsRemaining
  BY DEF NextInUnit, FitsUnit, LayoutAssumption
<1>4. bitfieldBitsRemaining' = bitfieldBitsRemaining - width /\ bitfieldBitsRemaining' \in Nat
  BY <1>3 DEF NextInUnit, LayoutInv, TypeOK
<1>5. regular' \in BOOLEAN
  BY DEF NextInUnit, RegularBitfield, LayoutInv, TypeOK
<1>6. TypeOK'
  BY <1>1, <1>2, <1>4, <1>5 DEF NextInUnit, MemberOf, LayoutInv, TypeOK
<1>7. ASSUME regular'  PROVE UnitInv'
  <2>1. RegularBitfield(t) /\ kind = "struct"
    BY <1>7 DEF NextInUnit, MemberOf
  <2>2. t # None /\ cBits' = 8 * flatSize - bitfieldBitsRemaining'
    BY <1>4, <2>1, RegularField DEF NextInUnit
  <2>3. UnitInv
    BY <2>1 DEF RegularBitfield, LayoutInv
  <2>4. bitfieldBitsRemaining \in Nat /\ types[t] \in Type
    BY Known DEF LayoutInv, TypeOK
  <2>5. strictest' = strictest
    BY <1>3, <2>2, <2>3, <2>4 DEF UnitInv, NextInUnit, Larger, Type
  <2> QED
    BY <1>3, <1>4, <2>2, <2>3, <2>4, <2>5 DEF UnitInv, NextInUnit, MemberOf, Type
<1>8. SwitchInv'
  BY DEF NextInUnit, MemberOf, LayoutInv, SwitchInv, RegularBitfield
<1>9. ~(kind' = "struct" /\ members' = 0) /\ kind' # "union"
  BY DEF NextInUnit, MemberOf, LayoutInv, TypeOK
<1> QED BY <1>1, <1>6, <1>7, <1>8, <1>9 DEF LayoutInv, NextInUnit, MemberOf

LEMMA LayoutNewUnit ==
  ASSUME LayoutAssumption, LayoutInv, NEW t \in DOMAIN types, NEW width \in Widths,
         NewUnit(t, width)
  PROVE  LayoutInv'
<1> DEFINE type == types[t]
<1>1. type \in Type /\ Agreed(type) /\ t \in Nat \ {0} /\ width \in Nat \ {0}
  BY Known DEF LayoutAssumption
<1>2. strictest' \in PowersOfTwo /\ cAlign' \in PowersOfTwo /\ AlignmentInv'
  <2>1. tagged' = (tagged \/ types[t].tagged)
    BY Known DEF NewUnit, Declarable, LayoutInv, TypeOK
  <2> QED BY <2>1, StrictestKept DEF NewUnit, Place, CBitfield
<1>3. cBits' \in Nat
  BY BitsNat DEF NewUnit
<1>4. flatSize' = AlignUp(AlignUp(flatSize, type.align) + type.size, type.align)
      /\ flatSize' \in Nat
  <2>1. AlignUp(flatSize, type.align) \in Nat
    BY <1>1, AlignUpNat DEF LayoutInv, TypeOK, Type
  <2>2. AlignUp(flatSize, type.align) + type.size \in Nat
    BY <1>1, <2>1 DEF Type
  <2>3. type.size * 1 = type.size
    BY <1>1 DEF Type
  <2>4. flatSize' = AlignUp(AlignUp(flatSize, type.align) + type.size, type.align)
    BY <2>3 DEF NewUnit, Place
  <2> QED BY <1>1, <2>2, <2>4, AlignUpNat DEF Type
<1>5. bitfieldBitsRemaining' = 8 * type.size - width /\ bitfieldBitsRemaining' \in Nat
  BY <1>1 DEF NewUnit, Declarable, Type
<1>6. regular' \in BOOLEAN
  BY DEF NewUnit, RegularBitfield, LayoutInv, TypeOK
<1>7. TypeOK'
  BY <1>1, <1>2, <1>3, <1>4, <1>5, <1>6 DEF NewUnit, MemberOf, LayoutInv, TypeOK
<1>8. ASSUME regular'  PROVE UnitInv'
  <2>1. RegularBitfield(t) /\ kind = "struct" /\ ~FitsUnit(t, width)
    BY <1>8 DEF NewUnit, MemberOf
  <2>2. /\ type.size \in PowersOfTwo /\ type.align = type.size /\ type.cSize = type.size
        /\ flatSize % type.size = 0 /\ cBits' = 8 * flatSize + width
    BY <2>1, RegularField DEF NewUnit
  <2>3. flatSize' = flatSize + type.size /\ flatSize' % type.size = 0
    <3>1. flatSize \in Nat /\ AlignUp(flatSize, type.align) = flatSize
      BY <2>2, AlignUpNat DEF LayoutInv, TypeOK
    <3>2. type.size % type.size = 0 /\ type.size \in Nat
      BY <2>2 DEF PowersOfTwo
    <3>3. flatSize + type.size \in Nat /\ (flatSize + type.size) % type.size = 0
      BY <2>2, <3>1, <3>2, SumAligned
    <3>4. flatSize' = AlignUp(flatSize + type.size, type.size)
      BY <1>4, <2>2, <3>1
    <3>5. AlignUp(flatSize + type.size, type.size) = flatSize + type.size
      BY <2>2, <3>3, AlignUpNat
    <3> QED BY <3>3, <3>4, <3>5
  <2>4. cBits' = 8 * flatSize' - bitfieldBitsRemaining'
    <3>1. flatSize \in Nat /\ type.size \in Nat /\ width \in Nat
      BY <1>1 DEF LayoutInv, TypeOK, Type
    <3> HIDE DEF type
    <3> QED BY <1>5, <2>2, <2>3, <3>1
  <2>5. currentBitfieldType' = t /\ types' = types /\ t # None
    BY <1>1 DEF NewUnit, MemberOf, None
  <2>6. bitfieldBitsRemaining' < 8 * type.size
    BY <1>1, <1>5 DEF Type
  <2>7. strictest' = type.size
    <3>1. strictest \in {1, type.size}
      BY <2>1, RegularField DEF NewUnit
    <3> QED BY <2>2, <3>1 DEF NewUnit, Place, Larger, PowersOfTwo
  <2> QED BY <2>2, <2>3, <2>4, <2>5, <2>6, <2>7 DEF UnitInv, NewUnit
<1>9. SwitchInv'
  BY DEF NewUnit, MemberOf, LayoutInv, SwitchInv, RegularBitfield
<1>10. ~(kind' = "struct" /\ members' = 0) /\ kind' # "union"
  BY DEF NewUnit, MemberOf, LayoutInv, TypeOK
<1> QED BY <1>2, <1>7, <1>8, <1>9, <1>10 DEF LayoutInv, NewUnit, MemberOf

LEMMA LayoutElement ==
  ASSUME LayoutAssumption, LayoutInv, NEW t \in DOMAIN types, Element(t)
  PROVE  LayoutInv'
<1> DEFINE type == types[t]
           a == AlignUp(type.size, type.align)
<1>1. type \in Type /\ Agreed(type)
  BY Known
<1>2. strictest' \in PowersOfTwo /\ cAlign' \in PowersOfTwo /\ AlignmentInv'
  BY StrictestKept DEF Element, CElement
<1>3. a \in Nat /\ (type.regular => a = type.cSize)
  BY <1>1, AlignUpNat DEF Agreed, Type
<1> HIDE DEF a
<1>4. flatSize' = Larger(flatSize, a) /\ cBits' = Larger(cBits, 8 * type.cSize)
  BY DEF Element, CElement, a
<1>5. flatSize' \in Nat /\ cBits' \in Nat
  BY <1>1, <1>3, <1>4 DEF Larger, LayoutInv, TypeOK, Type
<1>6. TypeOK'
  <2>1. tagged' \in BOOLEAN /\ regular' \in BOOLEAN
    BY <1>1 DEF Element, LayoutInv, TypeOK, Type
  <2> QED BY <1>2, <1>5, <2>1 DEF Element, MemberOf, LayoutInv, TypeOK, bitfield
<1>7. ASSUME regular'  PROVE cBits' = 8 * flatSize'
  <2>1. regular /\ type.regular /\ kind = "union"
    BY <1>1, <1>7 DEF Element, MemberOf, LayoutInv, TypeOK, Type
  <2>2. cBits = 8 * flatSize /\ a = type.cSize
    BY <1>3, <2>1 DEF LayoutInv
  <2> QED BY <1>3, <1>4, <2>2 DEF Larger, LayoutInv, TypeOK
<1>8. SwitchInv'
  BY <1>1 DEF Element, MemberOf, LayoutInv, SwitchInv, Agreed
<1> QED BY <1>2, <1>6, <1>7, <1>8 DEF LayoutInv, TypeOK, Element, MemberOf, bitfield

(* What is declared to C is aligned like its members, or more strictly if  *)
(* there is a discriminator, and has no gap at its end.                    *)
LEMMA CShapeAligned ==
  ASSUME LayoutInv, kind # "none"
  PROVE  /\ CShape.size \in Nat /\ CShape.align \in PowersOfTwo
         /\ cAlign <= CShape.align /\ CShape.align <= WordSize
         /\ ~tagged => /\ CShape.align = cAlign
                       /\ CShape.size = AlignUp(Bytes(cBits), cAlign)
<1> DEFINE inner == AlignUp(Bytes(cBits), cAlign)
           d == types[switchType]
           outer == Larger(d.cAlign, cAlign)
<1>1. cAlign \in PowersOfTwo /\ cAlign <= WordSize
  BY DEF LayoutInv, TypeOK, AlignmentInv
<1>2. inner \in Nat
  <2>1. Bytes(cBits) \in Nat
    BY DEF Bytes, LayoutInv, TypeOK
  <2> QED BY <1>1, <2>1, AlignUpNat
<1> HIDE DEF inner
<1>3. CASE switchType = None
  <2>1. CShape = [size |-> inner, align |-> cAlign]
    BY <1>3 DEF CShape, inner
  <2> QED BY <1>1, <1>2, <2>1 DEF inner, PowersOfTwo
<1>4. CASE switchType # None
  <2>1. switchType \in DOMAIN types /\ tagged
    BY <1>4 DEF LayoutInv, SwitchInv
  <2>2. d.cSize \in Nat /\ d.cAlign \in PowersOfTwo /\ d.cAlign <= WordSize
    BY <2>1, Known DEF Type, Agreed
  <2>3. outer \in PowersOfTwo /\ cAlign <= outer /\ outer <= WordSize
    BY <1>1, <2>2 DEF Larger, PowersOfTwo
  <2>4. CShape = [size |-> AlignUp(AlignUp(d.cSize, cAlign) + inner, outer), align |-> outer]
    BY <1>4 DEF CShape, inner
  <2>5. AlignUp(d.cSize, cAlign) + inner \in Nat
    BY <1>1, <1>2, <2>2, AlignUpNat
  <2> HIDE DEF d, outer
  <2>6. AlignUp(AlignUp(d.cSize, cAlign) + inner, outer) \in Nat
    BY <2>3, <2>5, AlignUpNat
  <2> QED BY <2>1, <2>3, <2>4, <2>6
<1> QED BY <1>3, <1>4

(* Alignment is that of the members.                                       *)
LEMMA AlignmentOfMembers ==
  ASSUME LayoutAssumption, LayoutInv
  PROVE  /\ Alignment = strictest /\ strictest <= cAlign
         /\ strictest \in PowersOfTwo /\ cAlign \in PowersOfTwo
         /\ regular => strictest = cAlign /\ ~tagged
<1>1. strictest \in PowersOfTwo /\ cAlign \in PowersOfTwo
  BY DEF LayoutInv, TypeOK
<1>2. strictest <= cAlign /\ cAlign <= WordSize /\ (regular => strictest = cAlign /\ ~tagged)
  BY DEF LayoutInv, AlignmentInv, SwitchInv
<1>3. ~(strictest > WordSize)
  BY <1>1, <1>2 DEF LayoutAssumption, PowersOfTwo
<1> QED BY <1>1, <1>2, <1>3 DEF Alignment

(* The type that is complete agrees if its size does.                      *)
LEMMA LayoutComplete ==
  ASSUME LayoutAssumption, LayoutInv, kind # "none", NEW size \in Nat, Complete(size),
         regular /\ (kind = "union" => size % Alignment = 0) =>
           size = AlignUp(Bytes(cBits), cAlign)
  PROVE  LayoutInv'
<1> DEFINE type == [size |-> size, align |-> Alignment,
                    cSize |-> CShape.size, cAlign |-> CShape.align,
                    integral |-> FALSE, tagged |-> tagged,
                    regular |-> regular /\ (kind = "union" => size % Alignment = 0)]
<1>1. /\ Alignment \in PowersOfTwo /\ cAlign \in PowersOfTwo /\ Alignment <= cAlign
      /\ regular => Alignment = cAlign /\ ~tagged
      /\ ~tagged => Alignment = cAlign
  BY AlignmentOfMembers DEF LayoutInv, AlignmentInv
<1>2. /\ CShape.size \in Nat /\ CShape.align \in PowersOfTwo
      /\ cAlign <= CShape.align /\ CShape.align <= WordSize
      /\ ~tagged => CShape.align = cAlign /\ CShape.size = AlignUp(Bytes(cBits), cAlign)
  BY CShapeAligned
<1>3. types' = Append(types, type)
  BY DEF Complete
<1>4. type \in Type
  <2>1. type.regular \in BOOLEAN /\ tagged \in BOOLEAN
    BY DEF LayoutInv, TypeOK
  <2> QED BY <1>1, <1>2, <2>1 DEF Type
<1>5. Agreed(type)
  <2>1. type.align <= type.cAlign /\ type.cAlign <= WordSize
    BY <1>1, <1>2 DEF PowersOfTwo, LayoutAssumption
  <2>2. ~type.tagged => type.align = type.cAlign
    BY <1>1, <1>2
  <2>3. ASSUME type.regular
        PROVE  ~type.tagged /\ type.size = type.cSize /\ type.size % type.align = 0
    <3>1. ~tagged /\ size = AlignUp(Bytes(cBits), cAlign) /\ Alignment = cAlign
      BY <1>1, <2>3
    <3>2. Bytes(cBits) \in Nat
      BY DEF Bytes, LayoutInv, TypeOK
    <3>3. AlignUp(Bytes(cBits), cAlign) % cAlign = 0
      BY <1>1, <3>2, AlignUpNat
    <3> QED BY <1>2, <3>1, <3>3
  <2> QED BY <2>1, <2>2, <2>3 DEF Agreed
<1> HIDE DEF type
<1>6. types' \in Seq(Type) /\ \A t \in DOMAIN types' : Agreed(types'[t])
  BY <1>3, <1>4, <1>5, Declared
<1> QED BY <1>6 DEF Complete, LayoutInv, TypeOK, AlignmentInv, SwitchInv, bitfield, history

LEMMA LayoutEndStruct ==
  ASSUME LayoutAssumption, LayoutInv, EndStruct
  PROVE  LayoutInv'
<1> DEFINE size == AlignUp(flatSize, Alignment)
<1>1. /\ Alignment \in PowersOfTwo /\ cAlign \in PowersOfTwo /\ flatSize \in Nat
      /\ regular => Alignment = cAlign /\ strictest = cAlign
  BY AlignmentOfMembers DEF LayoutInv, TypeOK
<1>2. size \in Nat
  BY <1>1, AlignUpNat
<1>3. ASSUME regular  PROVE size = AlignUp(Bytes(cBits), cAlign)
  <2>1. UnitInv /\ cBits \in Nat /\ bitfieldBitsRemaining \in Nat /\ Alignment = cAlign
        /\ strictest = cAlign
    BY <1>1, <1>3 DEF EndStruct, LayoutInv, TypeOK
  <2>2. CASE currentBitfieldType = None
    BY <1>1, <2>1, <2>2, WholeBytes DEF UnitInv
  <2>3. CASE currentBitfieldType # None
    <3>1. /\ flatSize % cAlign = 0 /\ bitfieldBitsRemaining < 8 * cAlign
          /\ cBits = 8 * flatSize - bitfieldBitsRemaining
      BY <2>1, <2>3 DEF UnitInv
    <3>2. AlignUp(Bytes(cBits), cAlign) = flatSize
      BY <1>1, <2>1, <3>1, LastUnit
    <3> QED BY <1>1, <2>1, <3>1, <3>2, AlignUpNat
  <2> QED BY <2>2, <2>3
<1> HIDE DEF size
<1>4. Complete(size) /\ kind # "none"
  BY DEF EndStruct, size
<1> QED BY <1>2, <1>3, <1>4, LayoutComplete

LEMMA LayoutEndUnion ==
  ASSUME LayoutAssumption, LayoutInv, EndUnion
  PROVE  LayoutInv'
<1>1. cAlign \in PowersOfTwo /\ flatSize \in Nat /\ (regular => Alignment = cAlign)
  BY AlignmentOfMembers DEF LayoutInv, TypeOK
<1>2. ASSUME regular, kind = "union" => flatSize % Alignment = 0
      PROVE  flatSize = AlignUp(Bytes(cBits), cAlign)
  <2>1. cBits = 8 * flatSize /\ flatSize % cAlign = 0
    BY <1>1, <1>2 DEF EndUnion, LayoutInv
  <2> QED BY <1>1, <2>1, WholeBytes, AlignUpNat
<1>3. Complete(flatSize) /\ kind # "none"
  BY DEF EndUnion
<1> QED BY <1>1, <1>2, <1>3, LayoutComplete

LEMMA LayoutNext == LayoutAssumption /\ LayoutInv /\ [Next]_vars => LayoutInv'
<1> SUFFICES ASSUME LayoutAssumption, LayoutInv, [Next]_vars  PROVE LayoutInv'
  OBVIOUS
<1>1. ASSUME NEW t \in DOMAIN types, NEW count \in Counts, Alias(t, count) \/ Member(t, count)
      PROVE  LayoutInv'
  BY <1>1, LayoutAlias, LayoutMember
<1>2. ASSUME NEW t \in DOMAIN types, NEW width \in Widths,
             NextInUnit(t, width) \/ NewUnit(t, width)
      PROVE  LayoutInv'
  BY <1>2, LayoutNextInUnit, LayoutNewUnit
<1>3. ASSUME NEW t \in DOMAIN types, Element(t)  PROVE LayoutInv'
  BY <1>3, LayoutElement
<1>4. CASE BeginStruct \/ BeginUnion
  BY <1>4, LayoutBegin DEF BeginStruct, BeginUnion, None
<1>5. ASSUME NEW t \in DOMAIN types, BeginSwitch(t)  PROVE LayoutInv'
  BY <1>5, Known, LayoutBegin DEF BeginSwitch
<1>6. CASE EndStruct
  BY <1>6, LayoutEndStruct
<1>7. CASE EndUnion
  BY <1>7, LayoutEndUnion
<1>8. CASE UNCHANGED vars
  BY <1>8 DEF vars, bitfield, history, LayoutInv, TypeOK, UnitInv, AlignmentInv, SwitchInv
<1> QED BY <1>1, <1>2, <1>3, <1>4, <1>5, <1>6, <1>7, <1>8 DEF Next

LEMMA LayoutInvariant == LayoutAssumption => (Spec => []LayoutInv)
<1> SUFFICES ASSUME LayoutAssumption  PROVE Spec => []LayoutInv
  OBVIOUS
<1>1. Init => LayoutInv
  BY LayoutInit
<1>2. LayoutInv /\ [Next]_vars => LayoutInv'
  BY LayoutNext
<1> QED BY <1>1, <1>2, PTL DEF Spec

-----------------------------------------------------------------------------
(* Theorems                                                                *)

(* getAlignment is right for every type without a discriminator, whatever  *)
(* it is made of: the order of the members of a message, which goes by     *)
(* alignment, and the padding between them are what the C compiler makes   *)
(* of the same members. With discriminators it is never too strict.        *)
THEOREM AlignmentsRight == LayoutAssumption => (Spec => []AlignmentsAgree)
<1>1. LayoutInv => AlignmentsAgree
  BY DEF LayoutInv, Agreed, AlignmentsAgree
<1> QED BY <1>1, LayoutInvariant, PTL

(* getFlatSize is right for structs and unions of integers, of arrays and  *)
(* of each other, as long as there is no discriminator, bit-fields are     *)
(* alone in a struct, of one type no larger than a word, and a union's     *)
(* largest element fills it.                                               *)
THEOREM RegularSizesRight == LayoutAssumption => (Spec => []RegularSizesAgree)
<1>1. LayoutInv => RegularSizesAgree
  BY DEF LayoutInv, Agreed, RegularSizesAgree
<1> QED BY <1>1, LayoutInvariant, PTL
=============================================================================
