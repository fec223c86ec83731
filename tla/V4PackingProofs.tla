--------------------------- MODULE V4PackingProofs --------------------------
(***************************************************************************)
(* Proofs about the packing of V4 messages, for any word size, any number  *)
(* of exceptions and any set of operations: the packing never hands out    *)
(* more message registers than there are, what it announces covers what it *)
(* placed, and the shared buffers hold the variable chunks.                *)
(***************************************************************************)
EXTENDS V4Kernel, CollectionProofs

-----------------------------------------------------------------------------
(* Arithmetic and layout                                                   *)

(* Rounding up yields a number, and not a smaller one.                     *)
LEMMA AlignUpType ==
  ASSUME NEW offset \in Nat, NEW align \in Nat \ {0}
  PROVE  AlignUp(offset, align) \in Nat /\ AlignUp(offset, align) >= offset
  BY DEF AlignUp

(* Rounding down yields a number.                                          *)
LEMMA AlignDownType ==
  ASSUME NEW bytes \in Nat, NEW align \in Nat \ {0}
  PROVE  AlignDown(bytes, align) \in Nat
  BY DEF AlignDown

(* What Ends is applied to.                                                *)
Piece == [size : Nat, align : Nat \ {0}]

(* Ends is what its definition says: the recursion is well founded.        *)
LEMMA EndsEquation ==
  ASSUME NEW shape \in Seq(Piece)
  PROVE  /\ Ends(shape) \in [0 .. Len(shape) -> Nat]
         /\ Ends(shape)[0] = 0
         /\ \A i \in 1 .. Len(shape) :
              Ends(shape)[i] = AlignUp(Ends(shape)[i - 1], shape[i].align) + shape[i].size
<1> DEFINE n == Len(shape)
           Then(e, i) == AlignUp(e, shape[i].align) + shape[i].size
           Rule(f, k) == f[0] = 0 /\ \A i \in 1 .. k : f[i] = Then(f[i - 1], i)
           G == {k \in Nat : k <= n => \E f \in [0 .. k -> Nat] : Rule(f, k)}
           Def(f) == [i \in 0 .. n |-> IF i = 0 THEN 0 ELSE Then(f[i - 1], i)]
<1>1. n \in Nat /\ \A i \in 1 .. n : shape[i] \in Piece
  OBVIOUS
<1>2. \A e \in Nat, i \in 1 .. n : Then(e, i) \in Nat
  <2> TAKE e \in Nat, i \in 1 .. n
  <2>1. shape[i].align \in Nat \ {0} /\ shape[i].size \in Nat
    BY <1>1 DEF Piece
  <2>2. AlignUp(e, shape[i].align) \in Nat
    BY <2>1, AlignUpType
  <2> QED BY <2>1, <2>2
<1>3. 0 \in G
  <2>1. [i \in 0 .. 0 |-> 0] \in [0 .. 0 -> Nat] /\ Rule([i \in 0 .. 0 |-> 0], 0)
    OBVIOUS
  <2> QED BY <2>1
<1>4. ASSUME NEW k \in Nat, k \in G  PROVE k + 1 \in G
  <2> SUFFICES ASSUME k + 1 <= n  PROVE \E f \in [0 .. k + 1 -> Nat] : Rule(f, k + 1)
    <3> HIDE DEF Rule
    <3> QED OBVIOUS
  <2>1. PICK f \in [0 .. k -> Nat] : Rule(f, k)
    <3> HIDE DEF Rule
    <3> QED BY <1>4, <1>1
  <2> DEFINE g == [i \in 0 .. k + 1 |-> IF i <= k THEN f[i] ELSE Then(f[k], k + 1)]
  <2>2. k + 1 \in 1 .. n /\ f[k] \in Nat
    BY <1>1
  <2>3. Then(f[k], k + 1) \in Nat
    BY <1>2, <2>2
  <2>4. g \in [0 .. k + 1 -> Nat]
    <3> HIDE DEF Then
    <3> QED BY <2>3
  <2>5. Rule(g, k + 1)
    <3> HIDE DEF Then
    <3> QED BY <2>1
  <2> HIDE DEF Rule, g
  <2> QED BY <2>4, <2>5
<1>5. PICK f \in [0 .. n -> Nat] : Rule(f, n)
  <2> HIDE DEF G
  <2>1. n \in G  BY <1>1, <1>3, <1>4, NatSetInduction
  <2> USE DEF G
  <2> HIDE DEF Rule
  <2> QED BY <2>1, <1>1
<1>6. f = Def(f)
  <2> HIDE DEF Then
  <2> QED BY <1>5, <1>1
<1>7. Ends(shape) = Def(Ends(shape))
  <2>1. Ends(shape) = CHOOSE h : h = Def(h)
    BY DEF Ends
  <2> HIDE DEF Def
  <2> QED BY <2>1, <1>6
<1> DEFINE e == Ends(shape)
           H == {k \in Nat : k <= n => e[k] \in Nat}
<1>8. 0 \in H
  BY <1>7, <1>1
<1>9. ASSUME NEW k \in Nat, k \in H  PROVE k + 1 \in H
  <2> SUFFICES ASSUME k + 1 <= n  PROVE e[k + 1] \in Nat
    OBVIOUS
  <2>1. e[k] \in Nat /\ k + 1 \in 1 .. n
    BY <1>9, <1>1
  <2>2. Then(e[k], k + 1) \in Nat
    BY <1>2, <2>1
  <2>3. e[k + 1] = Then(e[k], k + 1)
    <3> HIDE DEF Then
    <3> QED BY <1>7, <1>1, <2>1
  <2> QED BY <2>2, <2>3
<1>10. \A k \in 0 .. n : e[k] \in Nat
  <2> HIDE DEF H
  <2>1. Nat \subseteq H  BY <1>8, <1>9, NatSetInduction
  <2> USE DEF H
  <2> QED BY <2>1
<1>11. e \in [0 .. n -> Nat]
  <2>1. DOMAIN e = 0 .. n /\ e = [i \in DOMAIN e |-> e[i]]
    BY <1>7
  <2> QED BY <2>1, <1>10
<1>12. e[0] = 0 /\ \A i \in 1 .. n : e[i] = Then(e[i - 1], i)
  <2> HIDE DEF Then
  <2> QED BY <1>7, <1>1
<1> QED
  BY <1>11, <1>12

(* A chunk stays one when it gets an offset, a priority or a buffer.        *)
LEMMA ChunkUpdate ==
  ASSUME NEW Sizes, NEW chunk \in ChunkOf(Sizes), NEW value \in Int
  PROVE  /\ [chunk EXCEPT !.offset = value] \in ChunkOf(Sizes)
         /\ [chunk EXCEPT !.offset = value].size = chunk.size
         /\ [chunk EXCEPT !.offset = value].align = chunk.align
         /\ [chunk EXCEPT !.buf = value] \in ChunkOf(Sizes)
         /\ value \in Nat =>
              /\ [chunk EXCEPT !.prio = value] \in ChunkOf(Sizes)
              /\ [chunk EXCEPT !.prio = value].size = chunk.size
              /\ [chunk EXCEPT !.prio = value].align = chunk.align
  BY DEF ChunkOf

(* The two fields of a chunk the layout looks at.                          *)
LEMMA ChunkFields ==
  ASSUME NEW Sizes, NEW chunk \in ChunkOf(Sizes)
  PROVE  /\ chunk.size \in Sizes
         /\ chunk.align \in Nat \ {0}
  BY DEF ChunkOf

(* The shape of a list has its length, its sizes and its alignments.       *)
LEMMA ShapeType ==
  ASSUME NEW list \in Seq(SizedChunk)
  PROVE  /\ Shape(list) \in Seq(Piece)
         /\ Len(Shape(list)) = Len(list)
         /\ \A i \in 1 .. Len(list) :
              /\ Shape(list)[i].size = list[i].size
              /\ Shape(list)[i].align = list[i].align
<1>1. Len(list) \in Nat /\ DOMAIN list = 1 .. Len(list)
  OBVIOUS
<1>2. ASSUME NEW i \in 1 .. Len(list)
      PROVE  [size |-> list[i].size, align |-> list[i].align] \in Piece
  <2>1. list[i] \in ChunkOf(Nat)
    BY DEF SizedChunk
  <2>2. list[i].size \in Nat /\ list[i].align \in Nat \ {0}
    BY <2>1, ChunkFields
  <2> QED BY <2>2 DEF Piece
<1> QED BY <1>1, <1>2 DEF Shape

(* A layout ends at some number of bytes.                                  *)
LEMMA LayoutEndType ==
  ASSUME NEW list \in Seq(SizedChunk)
  PROVE  LayoutEnd(list) \in Nat
<1>1. Shape(list) \in Seq(Piece) /\ Len(Shape(list)) = Len(list) /\ Len(list) \in Nat
  BY ShapeType
<1> QED BY <1>1, EndsEquation DEF LayoutEnd

(* The layout changes offsets only.                                        *)
LEMMA LaidOutType ==
  ASSUME NEW list \in Seq(SizedChunk)
  PROVE  /\ LaidOut(list) \in Seq(SizedChunk)
         /\ Len(LaidOut(list)) = Len(list)
         /\ \A i \in 1 .. Len(list) :
              /\ LaidOut(list)[i].size = list[i].size
              /\ LaidOut(list)[i].align = list[i].align
<1> DEFINE ends == Ends(Shape(list))
           placed(i) == [list[i] EXCEPT !.offset = ends[i] - list[i].size]
<1>1. Len(list) \in Nat /\ DOMAIN list = 1 .. Len(list)
  OBVIOUS
<1>2. ASSUME NEW i \in 1 .. Len(list)
      PROVE  /\ placed(i) \in SizedChunk
             /\ placed(i).size = list[i].size
             /\ placed(i).align = list[i].align
  <2>1. list[i] \in ChunkOf(Nat)
    BY DEF SizedChunk
  <2>2. ends[i] \in Nat
    <3>1. Shape(list) \in Seq(Piece) /\ Len(Shape(list)) = Len(list)
      BY ShapeType
    <3>2. ends \in [0 .. Len(list) -> Nat] /\ i \in 0 .. Len(list)
      BY <1>1, <3>1, EndsEquation
    <3> HIDE DEF ends
    <3> QED BY <3>2
  <2> HIDE DEF ends
  <2>3. ends[i] - list[i].size \in Int
    BY <2>1, <2>2, ChunkFields
  <2> QED BY <2>1, <2>3, ChunkUpdate, ZenonT(60) DEF SizedChunk
<1>3. LaidOut(list) = [i \in 1 .. Len(list) |-> placed(i)]
  BY <1>1, Zenon DEF LaidOut
<1> HIDE DEF placed
<1> QED BY <1>1, <1>2, <1>3

(* Numbering gives the elements their positions and nothing else.          *)
LEMMA NumberedType ==
  ASSUME NEW Sizes, NEW list \in Seq(ChunkOf(Sizes))
  PROVE  /\ Numbered(list) \in Seq(ChunkOf(Sizes))
         /\ Len(Numbered(list)) = Len(list)
<1> DEFINE numbered(i) == [list[i] EXCEPT !.offset = i - 1]
<1>1. Len(list) \in Nat /\ DOMAIN list = 1 .. Len(list)
  OBVIOUS
<1>2. ASSUME NEW i \in 1 .. Len(list)
      PROVE  numbered(i) \in ChunkOf(Sizes)
  <2>1. list[i] \in ChunkOf(Sizes) /\ i - 1 \in Int
    OBVIOUS
  <2> QED BY <2>1, ChunkUpdate, Zenon
<1>3. Numbered(list) = [i \in 1 .. Len(list) |-> numbered(i)]
  BY <1>1, Zenon DEF Numbered
<1> HIDE DEF numbered
<1> QED BY <1>1, <1>2, <1>3

(* Variable chunks need some number of bytes.                              *)
LEMMA VarBytesType ==
  ASSUME NEW list \in Seq(SizedChunk)
  PROVE  VarBytes(list) \in Nat
<1> DEFINE piece(i) == [size |-> AlignUp(list[i].size, W), align |-> 1]
           shape == [i \in DOMAIN list |-> piece(i)]
<1>1. Len(list) \in Nat /\ DOMAIN list = 1 .. Len(list)
  OBVIOUS
<1>2. ASSUME NEW i \in 1 .. Len(list)
      PROVE  piece(i) \in Piece
  <2>1. list[i] \in ChunkOf(Nat)
    BY DEF SizedChunk
  <2>2. AlignUp(list[i].size, W) \in Nat
    BY <2>1, ChunkFields, AlignUpType, ConnectionAssumption
  <2> QED BY <2>2 DEF Piece
<1>3. shape \in Seq(Piece) /\ Len(shape) = Len(list)
  <2> HIDE DEF piece
  <2> QED BY <1>1, <1>2
<1>4. VarBytes(list) = Ends(shape)[Len(list)]
  BY DEF VarBytes
<1> HIDE DEF shape
<1> QED BY <1>1, <1>3, <1>4, EndsEquation

(* Every alignment has a priority.                                         *)
LEMMA AlignmentPrioType ==
  ASSUME NEW size \in Nat
  PROVE  AlignmentPrio(size) \in Nat
<1>1. CASE size = 1
  BY <1>1 DEF AlignmentPrio
<1>2. CASE size = 2
  BY <1>2 DEF AlignmentPrio
<1>3. CASE size \notin {1, 2}
  BY <1>3 DEF AlignmentPrio
<1> QED BY <1>1, <1>2, <1>3

-----------------------------------------------------------------------------
(* Type correctness                                                        *)

(* The channels the code names are channels of every operation.            *)
LEMMA ChannelType ==
  /\ CHANNEL_IN \in Channel
  /\ CHANNEL_OUT \in Channel
  /\ AllOut \in SUBSET Channel
  /\ NumExceptions + 1 \in Channel
  /\ Channel \subseteq Nat
  BY ConnectionAssumption DEF Channel, CHANNEL_IN, CHANNEL_OUT, AllOut

(* A new chunk is a chunk.                                                 *)
LEMMA NewChunkType ==
  ASSUME NEW Sizes, NEW id \in Nat, NEW part \in Parts, NEW size \in Sizes,
         NEW align \in Nat \ {0}, NEW chans \in SUBSET Channel,
         NEW xfer \in BOOLEAN
  PROVE  NewChunk(id, part, size, align, chans, xfer) \in ChunkOf(Sizes)
  BY DEF NewChunk, ChunkOf, UNKNOWN

(* A registers or memory chunk may enter a list of strings.                *)
LEMMA SizedIsAny == ChunkOf(Nat) \subseteq AnyChunk
  BY DEF AnyChunk, ChunkOf

(* A chunk enters a list by priority.                                      *)
LEMMA AddChunkType ==
  ASSUME NEW Sizes, NEW list \in Seq(ChunkOf(Sizes)),
         NEW chunk \in ChunkOf(Sizes), NEW prio \in Nat
  PROVE  /\ AddWithPrio(list, chunk, prio) \in Seq(ChunkOf(Sizes))
         /\ Len(AddWithPrio(list, chunk, prio)) = Len(list) + 1
         /\ PrioPosition(list, prio) \in 1 .. Len(list) + 1
<1>1. prio \in Int
  OBVIOUS
<1>2. [chunk EXCEPT !.prio = prio] \in ChunkOf(Sizes)
  BY <1>1, ChunkUpdate, Zenon
<1> QED BY <1>2, AddWithPrioType, Zenon

(* The parameter that Marshalling is about.                                *)
LEMMA NextParameter ==
  ASSUME TypeOK, NEW kind, Marshalling(kind)
  PROVE  /\ sig.params[pos + 1] \in Parameter
         /\ sig.params[pos + 1].kind = kind
         /\ sig.params[pos + 1].size \in Nat
         /\ sig.params[pos + 1].align \in Nat \ {0}
         /\ sig.params[pos + 1].chans \in SUBSET Channel
         /\ pos' \in 0 .. Len(sig.params)
<1>1. sig.params \in Seq(Parameter) /\ pos \in 0 .. Len(sig.params)
  BY DEF TypeOK, Signature
<1>2. pos < Len(sig.params) /\ pos' = pos + 1 /\ sig.params[pos + 1].kind = kind
  BY DEF Marshalling
<1>3. sig.params[pos + 1] \in Parameter /\ pos' \in 0 .. Len(sig.params)
  BY <1>1, <1>2
<1> QED BY <1>2, <1>3, ChannelType DEF Parameter

(* getFixedCopyChunk adds one chunk to a list that may hold it.            *)
LEMMA FixedCopyChunkType ==
  ASSUME TypeOK, NEW chans \in SUBSET Channel, NEW size \in Nat,
         NEW align \in Nat \ {0}, FixedCopyChunk(chans, size, align)
  PROVE  /\ chunkID' \in Nat
         /\ initialized' \in SUBSET Channel
         /\ memFixed' \in [Channel -> Seq(SizedChunk)]
         /\ strings' \in [Channel -> Seq(AnyChunk)]
         /\ UNCHANGED <<regFixed, regVar, memVar, fpages>>
<1> DEFINE chunk == NewChunk(chunkID + 1, "value", size, align, chans, TRUE)
           prio == AlignmentPrio(align)
           stored == chans \cap initialized
           direct == size < DirectLimit
<1>1. chunk \in ChunkOf(Nat)
  <2>1. chunkID + 1 \in Nat /\ "value" \in Parts /\ TRUE \in BOOLEAN
    BY DEF TypeOK, Parts
  <2> QED BY <2>1, NewChunkType, Zenon
<1>2. prio \in Nat
  BY AlignmentPrioType
<1>3. /\ memFixed' = [c \in Channel |-> IF c \in stored /\ direct
                                        THEN AddWithPrio(memFixed[c], chunk, prio)
                                        ELSE memFixed[c]]
      /\ strings' = [c \in Channel |-> IF c \in stored /\ ~direct
                                       THEN AddLast(strings[c], chunk)
                                       ELSE strings[c]]
  BY DEF FixedCopyChunk
<1> HIDE DEF chunk, prio, stored, direct
<1>4. ASSUME NEW c \in Channel  PROVE AddWithPrio(memFixed[c], chunk, prio) \in Seq(SizedChunk)
  BY <1>1, <1>2, AddChunkType DEF TypeOK, SizedChunk
<1>5. memFixed' \in [Channel -> Seq(SizedChunk)]
  BY <1>3, <1>4 DEF TypeOK
<1>6. ASSUME NEW c \in Channel  PROVE AddLast(strings[c], chunk) \in Seq(AnyChunk)
  BY <1>1, SizedIsAny DEF TypeOK, AddLast
<1>7. strings' \in [Channel -> Seq(AnyChunk)]
  BY <1>3, <1>6 DEF TypeOK
<1>8. /\ chunkID' \in Nat /\ initialized' \in SUBSET Channel
      /\ UNCHANGED <<regFixed, regVar, memVar, fpages>>
  BY DEF FixedCopyChunk, TypeOK
<1> QED BY <1>5, <1>7, <1>8

(* The steps of marshalling keep the types.                                *)
LEMMA MarshalType == TypeOK /\ Marshal => TypeOK'
<1> SUFFICES ASSUME TypeOK, Marshal  PROVE TypeOK'
  OBVIOUS
<1> USE DEF request, lists, budget, loop, numbering
<1>1. CASE SetOption
  BY <1>1, ChannelType DEF SetOption, TypeOK
<1>2. CASE MarshalExceptionCode
  <2>1. FixedCopyChunk(AllOut, 4, W)
    BY <1>2 DEF MarshalExceptionCode
  <2>2. 4 \in Nat /\ W \in Nat \ {0} /\ AllOut \in SUBSET Channel
    BY ConnectionAssumption, ChannelType
  <2>3. /\ chunkID' \in Nat
        /\ initialized' \in SUBSET Channel
        /\ memFixed' \in [Channel -> Seq(SizedChunk)]
        /\ strings' \in [Channel -> Seq(AnyChunk)]
        /\ UNCHANGED <<regFixed, regVar, memVar, fpages>>
    BY <2>1, <2>2, FixedCopyChunkType
  <2> QED BY <1>2, <2>3 DEF MarshalExceptionCode, TypeOK
<1>3. CASE GetFixedCopyChunk
  <2> DEFINE p == sig.params[pos + 1]
  <2>1. Marshalling("fixed") /\ FixedCopyChunk(p.chans, p.size, p.align)
    BY <1>3 DEF GetFixedCopyChunk
  <2>2. /\ p.size \in Nat /\ p.align \in Nat \ {0} /\ p.chans \in SUBSET Channel
        /\ pos' \in 0 .. Len(sig.params)
    BY <2>1, NextParameter
  <2> HIDE DEF p
  <2>3. /\ chunkID' \in Nat
        /\ initialized' \in SUBSET Channel
        /\ memFixed' \in [Channel -> Seq(SizedChunk)]
        /\ strings' \in [Channel -> Seq(AnyChunk)]
        /\ UNCHANGED <<regFixed, regVar, memVar, fpages>>
    BY <2>1, <2>2, FixedCopyChunkType
  <2> QED BY <2>1, <2>2, <2>3 DEF Marshalling, TypeOK
<1>4. CASE GetUnboundedCopyChunk
  <2> DEFINE p == sig.params[pos + 1]
             chunk == NewChunk(chunkID + 1, "string", UNKNOWN, 1, p.chans, TRUE)
  <2>1. Marshalling("string")
    BY <1>4 DEF GetUnboundedCopyChunk
  <2>2. p.chans \in SUBSET Channel /\ pos' \in 0 .. Len(sig.params)
    BY <2>1, NextParameter
  <2>3. chunk \in AnyChunk
    <3>1. chunkID + 1 \in Nat /\ "string" \in Parts /\ UNKNOWN \in Nat \cup {UNKNOWN}
          /\ 1 \in Nat \ {0} /\ TRUE \in BOOLEAN
      BY DEF TypeOK, Parts
    <3> QED BY <3>1, <2>2, NewChunkType, Zenon DEF AnyChunk
  <2>4. /\ chunkID' = chunkID + 1
        /\ strings' = [c \in Channel |-> IF c \in p.chans THEN AddLast(strings[c], chunk)
                                                          ELSE strings[c]]
        /\ UNCHANGED <<initialized, regFixed, regVar, memFixed, memVar, fpages>>
    BY <1>4 DEF GetUnboundedCopyChunk
  <2> HIDE DEF p, chunk
  <2>5. strings' \in [Channel -> Seq(AnyChunk)]
    <3>1. \A c \in Channel : AddLast(strings[c], chunk) \in Seq(AnyChunk)
      BY <2>3 DEF TypeOK, AddLast
    <3> QED BY <2>4, <3>1 DEF TypeOK
  <2> QED BY <2>1, <2>2, <2>4, <2>5, SMTT(60) DEF Marshalling, TypeOK
<1>5. CASE GetBoundedCopyChunk
  <2> DEFINE p == sig.params[pos + 1]
             data == NewChunk(chunkID + 1, "data", p.size, 1, p.chans, TRUE)
             count == NewChunk(chunkID + 1, "count", W, W, p.chans, TRUE)
             temp == NewChunk(chunkID + 1, "temp", p.size, 1, p.chans, FALSE)
  <2>1. Marshalling("bounded")
    BY <1>5 DEF GetBoundedCopyChunk
  <2>2. p.size \in Nat /\ p.chans \in SUBSET Channel /\ pos' \in 0 .. Len(sig.params)
    BY <2>1, NextParameter
  <2>3. data \in SizedChunk /\ count \in SizedChunk /\ temp \in AnyChunk
    <3> HIDE DEF p
    <3>1. chunkID + 1 \in Nat /\ W \in Nat \ {0} /\ W \in Nat /\ 1 \in Nat \ {0}
      BY ConnectionAssumption DEF TypeOK
    <3>2. "data" \in Parts /\ "count" \in Parts /\ "temp" \in Parts
      BY DEF Parts
    <3>3. TRUE \in BOOLEAN /\ FALSE \in BOOLEAN /\ p.size \in Nat \cup {UNKNOWN}
      BY <2>2
    <3> QED BY <3>1, <3>2, <3>3, <2>2, NewChunkType, Zenon DEF AnyChunk, SizedChunk
  <2>4. /\ chunkID' = chunkID + 1
        /\ memVar' = [c \in Channel |-> IF c \in p.chans THEN AddLast(memVar[c], data)
                                                         ELSE memVar[c]]
        /\ memFixed' = [c \in Channel |-> IF c \in p.chans THEN AddLast(memFixed[c], count)
                                                           ELSE memFixed[c]]
        /\ strings' = [c \in Channel |-> IF c \in p.chans THEN AddLast(strings[c], temp)
                                                          ELSE strings[c]]
        /\ UNCHANGED <<initialized, regFixed, regVar, fpages>>
    BY <1>5 DEF GetBoundedCopyChunk
  <2> HIDE DEF p, data, count, temp
  <2>5. /\ \A c \in Channel : AddLast(memVar[c], data) \in Seq(SizedChunk)
        /\ \A c \in Channel : AddLast(memFixed[c], count) \in Seq(SizedChunk)
        /\ \A c \in Channel : AddLast(strings[c], temp) \in Seq(AnyChunk)
    BY <2>3 DEF TypeOK, AddLast
  <2>6. memVar' \in [Channel -> Seq(SizedChunk)]
    BY <2>4, <2>5 DEF TypeOK
  <2>7. memFixed' \in [Channel -> Seq(SizedChunk)]
    BY <2>4, <2>5 DEF TypeOK
  <2>8. strings' \in [Channel -> Seq(AnyChunk)]
    BY <2>4, <2>5 DEF TypeOK
  <2>9. chunkID' \in Nat
    BY <2>4 DEF TypeOK
  <2>10. UNCHANGED <<initialized, regFixed, regVar, fpages>>
    BY <2>4
  <2> QED BY <2>1, <2>2, <2>6, <2>7, <2>8, <2>9, <2>10 DEF Marshalling, TypeOK
<1>6. CASE GetMapChunk
  <2> DEFINE p == sig.params[pos + 1]
             chunk == NewChunk(chunkID + 1, "fpage", 1, 1, p.chans, TRUE)
  <2>1. Marshalling("fpage")
    BY <1>6 DEF GetMapChunk
  <2>2. p.chans \in SUBSET Channel /\ pos' \in 0 .. Len(sig.params)
    BY <2>1, NextParameter
  <2>3. chunk \in SizedChunk
    <3>1. chunkID + 1 \in Nat /\ "fpage" \in Parts /\ 1 \in Nat
          /\ 1 \in Nat \ {0} /\ TRUE \in BOOLEAN
      BY DEF TypeOK, Parts
    <3> QED BY <3>1, <2>2, NewChunkType, Zenon DEF SizedChunk
  <2>4. /\ chunkID' = chunkID + 1
        /\ fpages' = [c \in Channel |-> IF c \in p.chans THEN AddLast(fpages[c], chunk)
                                                         ELSE fpages[c]]
        /\ UNCHANGED <<initialized, regFixed, regVar, memFixed, memVar, strings>>
    BY <1>6 DEF GetMapChunk
  <2> HIDE DEF p, chunk
  <2>5. fpages' \in [Channel -> Seq(SizedChunk)]
    <3>1. \A c \in Channel : AddLast(fpages[c], chunk) \in Seq(SizedChunk)
      BY <2>3 DEF TypeOK, AddLast
    <3> QED BY <2>4, <3>1 DEF TypeOK
  <2>6. chunkID' \in Nat
    BY <2>4 DEF TypeOK
  <2>7. UNCHANGED <<initialized, regFixed, regVar, memFixed, memVar, strings>>
    BY <2>4
  <2> QED BY <2>1, <2>2, <2>5, <2>6, <2>7 DEF Marshalling, TypeOK
<1> QED BY <1>1, <1>2, <1>3, <1>4, <1>5, <1>6 DEF Marshal

(* The chunk a round of the inner loop tries, and the list with it in.     *)
LEMMA TriedType ==
  ASSUME TypeOK, memFixed[chan] # <<>>
  PROVE  /\ Candidate \in SizedChunk
         /\ CandidatePrio \in Nat
         /\ Tail(memFixed[chan]) \in Seq(SizedChunk)
         /\ Tried \in Seq(SizedChunk)
         /\ Len(Tried) = Len(regFixed[chan]) + 1
         /\ PrioPosition(regFixed[chan], CandidatePrio) \in 1 .. Len(Tried)
<1>1. memFixed[chan] \in Seq(SizedChunk) /\ regFixed[chan] \in Seq(SizedChunk)
  BY DEF TypeOK
<1>2. Candidate \in SizedChunk /\ Tail(memFixed[chan]) \in Seq(SizedChunk)
  BY <1>1 DEF Candidate
<1>3. CandidatePrio \in Nat
  <2>1. Candidate \in ChunkOf(Nat)
    BY <1>2 DEF SizedChunk
  <2> QED BY <2>1, ChunkFields, AlignmentPrioType DEF CandidatePrio
<1> DEFINE added == AddWithPrio(regFixed[chan], Candidate, CandidatePrio)
<1>4. /\ added \in Seq(SizedChunk)
      /\ Len(added) = Len(regFixed[chan]) + 1
      /\ PrioPosition(regFixed[chan], CandidatePrio) \in 1 .. Len(regFixed[chan]) + 1
  BY <1>1, <1>2, <1>3, AddChunkType, Zenon DEF SizedChunk
<1> HIDE DEF added
<1>5. LaidOut(added) \in Seq(SizedChunk) /\ Len(LaidOut(added)) = Len(added)
  BY <1>4, LaidOutType
<1>6. Tried = LaidOut(added)
  BY DEF Tried, added
<1> QED BY <1>2, <1>3, <1>4, <1>5, <1>6

(* The next channel is a channel.                                          *)
LEMMA AdvanceType ==
  ASSUME TypeOK, NEW again, NEW next, Advance(again, next)
  PROVE  chan' \in Channel /\ phase' \in {again, next}
<1>1. chan \in 0 .. NumExceptions + 1 /\ NumExceptions \in Nat
  BY ConnectionAssumption DEF TypeOK, Channel
<1> QED BY <1>1 DEF Advance, Channel, CHANNEL_IN

(* The message tags are chunks like others.                                *)
LEMMA AddTagsType == TypeOK /\ AddTags => TypeOK'
<1> SUFFICES ASSUME TypeOK, AddTags  PROVE TypeOK'
  OBVIOUS
<1> DEFINE used == IF sig.oneway THEN Channel \ {CHANNEL_OUT} ELSE Channel
           rank(c) == IF sig.oneway /\ c > CHANNEL_OUT THEN c ELSE c + 1
           tag(c) == NewChunk(chunkID + rank(c), "tag", W, W, {c}, FALSE)
<1>1. /\ regFixed' = [c \in Channel |-> IF c \in used THEN AddLast(regFixed[c], tag(c))
                                                      ELSE regFixed[c]]
      /\ chunkID' = chunkID + Cardinality(used)
      /\ phase' = "budget"
      /\ UNCHANGED <<request, regVar, memFixed, memVar, strings, fpages, chan,
                     budget, loop, cursor, numbering>>
  BY DEF AddTags
<1>2. ASSUME NEW c \in Channel  PROVE tag(c) \in SizedChunk
  <2>1. c \in Nat /\ chunkID \in Nat
    BY ChannelType DEF TypeOK
  <2>2. chunkID + rank(c) \in Nat
    BY <2>1
  <2>3. W \in Nat /\ W \in Nat \ {0} /\ {c} \in SUBSET Channel /\ FALSE \in BOOLEAN
    BY ConnectionAssumption
  <2>4. "tag" \in Parts
    BY DEF Parts
  <2> HIDE DEF rank
  <2> QED BY <2>2, <2>3, <2>4, NewChunkType, Zenon DEF SizedChunk
<1>3. Cardinality(used) \in Nat
  <2>1. IsFiniteSet(Channel)
    BY ConnectionAssumption, FS_Interval DEF Channel
  <2>2. used \subseteq Channel
    OBVIOUS
  <2> HIDE DEF used
  <2> QED BY <2>1, <2>2, FS_Subset, FS_CardinalityType
<1> HIDE DEF used, tag
<1>4. \A c \in Channel : AddLast(regFixed[c], tag(c)) \in Seq(SizedChunk)
  BY <1>2 DEF TypeOK, AddLast
<1>5. regFixed' \in [Channel -> Seq(SizedChunk)]
  BY <1>1, <1>4 DEF TypeOK
<1>6. chunkID' \in Nat
  BY <1>1, <1>3 DEF TypeOK
<1> QED BY <1>1, <1>5, <1>6 DEF TypeOK, request, lists, budget, loop, numbering

(* The bytes left for a channel, as a natural number of words.             *)
LEMMA BudgetType ==
  ASSUME TypeOK, NEW c \in Channel, RegistersLeft(c) >= 0
  PROVE  RegistersLeft(c) \in Nat /\ RegistersLeft(c) * W \in Nat
<1>1. Len(strings[c]) \in Nat /\ Len(fpages[c]) \in Nat
  <2>1. strings[c] \in Seq(AnyChunk) /\ fpages[c] \in Seq(SizedChunk)
    BY DEF TypeOK
  <2> QED BY <2>1, LenProperties
<1>2. RegistersLeft(c) \in Int
  BY <1>1, ConnectionAssumption DEF RegistersLeft
<1> HIDE DEF RegistersLeft
<1>3. \A a, b \in Nat : a * b \in Nat
  OBVIOUS
<1> QED BY <1>2, <1>3, ConnectionAssumption

(* The steps of the packing keep the types.                                *)
LEMMA PackChannelType == TypeOK /\ PackChannel => TypeOK'
<1> SUFFICES ASSUME TypeOK, PackChannel  PROVE TypeOK'
  OBVIOUS
<1> USE DEF request, lists, budget, loop, numbering
<1>0. chan \in Channel /\ W \in Nat \ {0}
  BY ConnectionAssumption DEF TypeOK
<1>1. CASE BeginChannel
  <2>1. RegistersLeft(chan) * W \in Nat
    BY <1>0, <1>1, BudgetType DEF BeginChannel
  <2>2. NeedsMem(chan) \in BOOLEAN
    BY DEF NeedsMem
  <2>3. needMem' \in [Channel -> BOOLEAN] /\ maxBytes' \in [Channel -> Nat]
    BY <1>0, <1>1, <2>1, <2>2 DEF BeginChannel, TypeOK
  <2>4. remaining' \in Nat /\ progress' \in BOOLEAN /\ processed' = <<>> /\ phase' = "fixed"
    BY <1>1, <2>1 DEF BeginChannel, StartPass
  <2>5. UNCHANGED <<request, chunkID, lists, chan, oldRemaining, cursor, numbering>>
    BY <1>1 DEF BeginChannel
  <2> QED BY <2>3, <2>4, <2>5 DEF TypeOK
<1>2. CASE TooManyItems
  BY <1>2 DEF TooManyItems, TypeOK, Final
<1>3. CASE TakeFixed
  <2>1. TryingFixed /\ memFixed[chan] # <<>>
    BY <1>3 DEF TakeFixed, TryingFixed
  <2>2. Tried \in Seq(SizedChunk) /\ Tail(memFixed[chan]) \in Seq(SizedChunk)
    BY <2>1, TriedType
  <2>3. LayoutEnd(Tried) \in Nat
    BY <2>2, LayoutEndType
  <2> DEFINE release == needMem[chan] /\ Len(memFixed[chan]) = 1 /\ memVar[chan] = <<>>
  <2>4. /\ needMem' = [needMem EXCEPT ![chan] = @ /\ ~release]
        /\ maxBytes' = [maxBytes EXCEPT ![chan] = IF release THEN @ + 2 * W ELSE @]
        /\ remaining' = maxBytes'[chan] - LayoutEnd(Tried)
        /\ LayoutEnd(Tried) <= maxBytes[chan]
        /\ regFixed' = [regFixed EXCEPT ![chan] = Tried]
        /\ progress' = TRUE
        /\ UNCHANGED processed
    BY <1>3 DEF TakeFixed, Fits
  <2> HIDE DEF release
  <2>5. maxBytes' \in [Channel -> Nat] /\ maxBytes'[chan] >= maxBytes[chan]
    BY <1>0, <2>4 DEF TypeOK
  <2>6. remaining' \in Nat
    <3>1. maxBytes[chan] \in Nat /\ maxBytes'[chan] \in Nat
      BY <1>0, <2>5 DEF TypeOK
    <3> QED BY <2>3, <2>4, <2>5, <3>1
  <2>7. needMem' \in [Channel -> BOOLEAN]
    <3>1. (needMem[chan] /\ ~release) \in BOOLEAN
      OBVIOUS
    <3> QED BY <1>0, <2>4, <3>1 DEF TypeOK
  <2>8. memFixed' \in [Channel -> Seq(SizedChunk)] /\ regFixed' \in [Channel -> Seq(SizedChunk)]
    BY <1>0, <2>1, <2>2, <2>4 DEF TryingFixed, TypeOK
  <2>9. progress' \in BOOLEAN /\ processed' \in Seq(SizedChunk)
    BY <2>4 DEF TypeOK
  <2> QED BY <2>1, <2>5, <2>6, <2>7, <2>8, <2>9 DEF TryingFixed, TypeOK
<1>4. CASE PutBackFixed
  <2> DEFINE at == PrioPosition(regFixed[chan], CandidatePrio)
  <2>1. TryingFixed /\ memFixed[chan] # <<>>
    BY <1>4 DEF PutBackFixed, TryingFixed
  <2>2. /\ Tried \in Seq(SizedChunk) /\ Tail(memFixed[chan]) \in Seq(SizedChunk)
        /\ at \in 1 .. Len(Tried)
    BY <2>1, TriedType
  <2>3. /\ regFixed' = [regFixed EXCEPT ![chan] = RemoveElement(Tried, at)]
        /\ processed' = AddLast(processed, Tried[at])
        /\ UNCHANGED <<budget, remaining, progress>>
    BY <1>4 DEF PutBackFixed
  <2> HIDE DEF at
  <2>4. RemoveElement(Tried, at) \in Seq(SizedChunk)
    BY <2>2, RemoveAtElements DEF RemoveElement
  <2>5. processed' \in Seq(SizedChunk)
    BY <2>2, <2>3 DEF AddLast, TypeOK
  <2>6. memFixed' \in [Channel -> Seq(SizedChunk)] /\ regFixed' \in [Channel -> Seq(SizedChunk)]
    BY <1>0, <2>1, <2>2, <2>3, <2>4 DEF TryingFixed, TypeOK
  <2> QED BY <2>1, <2>3, <2>5, <2>6 DEF TryingFixed, TypeOK
<1>5. CASE SkipFixed
  <2>1. TryingFixed /\ memFixed[chan] # <<>>
    BY <1>5 DEF SkipFixed, TryingFixed
  <2>2. Candidate \in SizedChunk /\ Tail(memFixed[chan]) \in Seq(SizedChunk)
    BY <2>1, TriedType
  <2>3. processed' = AddLast(processed, Candidate) /\ UNCHANGED <<regFixed, budget, remaining, progress>>
    BY <1>5 DEF SkipFixed
  <2>4. processed' \in Seq(SizedChunk)
    BY <2>2, <2>3 DEF AddLast, TypeOK
  <2>5. memFixed' \in [Channel -> Seq(SizedChunk)]
    BY <1>0, <2>1, <2>2 DEF TryingFixed, TypeOK
  <2> QED BY <2>1, <2>3, <2>4, <2>5 DEF TryingFixed, TypeOK
<1>6. CASE EndFixedPass
  <2>1. memFixed' = [memFixed EXCEPT ![chan] = Merge(memFixed[chan], processed)]
    BY <1>6 DEF EndFixedPass
  <2>2. Merge(memFixed[chan], processed) \in Seq(SizedChunk)
    BY <1>0 DEF Merge, TypeOK
  <2>3. memFixed' \in [Channel -> Seq(SizedChunk)]
    BY <1>0, <2>1, <2>2 DEF TypeOK
  <2>4. phase' \in {"fixed", "variable"} /\ remaining' \in Nat /\ oldRemaining' \in Nat
    BY <1>0, <1>6, AlignDownType DEF EndFixedPass, TypeOK
  <2>5. processed' = <<>> /\ progress' \in BOOLEAN /\ cursor' = 1
    BY <1>6 DEF EndFixedPass, StartPass
  <2> QED BY <1>6, <2>3, <2>4, <2>5 DEF EndFixedPass, TypeOK
<1>7. CASE MoveVariable
  <2> DEFINE chunk == memVar[chan][cursor]
  <2>0. memVar[chan] \in Seq(SizedChunk) /\ regVar[chan] \in Seq(SizedChunk)
    BY <1>0 DEF TypeOK
  <2>1. cursor \in 1 .. Len(memVar[chan])
    BY <1>7, <2>0 DEF MoveVariable, TypeOK
  <2>2. /\ chunk.size <= remaining
        /\ memVar' = [memVar EXCEPT ![chan] = RemoveElement(@, cursor)]
        /\ regVar' = [regVar EXCEPT ![chan] = AddLast(@, chunk)]
        /\ remaining' = AlignDown(remaining - chunk.size, W)
    BY <1>7 DEF MoveVariable, MayFit
  <2>3. chunk \in SizedChunk /\ RemoveElement(memVar[chan], cursor) \in Seq(SizedChunk)
    BY <2>0, <2>1, RemoveAtElements DEF RemoveElement
  <2>4. chunk.size \in Nat
    BY <2>3, ChunkFields DEF SizedChunk
  <2> HIDE DEF chunk
  <2>5. remaining' \in Nat
    <3>1. remaining - chunk.size \in Nat
      BY <2>2, <2>4, SMTT(60) DEF TypeOK
    <3> QED BY <1>0, <2>2, <3>1, AlignDownType
  <2>6. AddLast(regVar[chan], chunk) \in Seq(SizedChunk)
    BY <2>0, <2>3 DEF AddLast
  <2>7. memVar' \in [Channel -> Seq(SizedChunk)] /\ regVar' \in [Channel -> Seq(SizedChunk)]
    BY <1>0, <2>2, <2>3, <2>6 DEF TypeOK
  <2>8. /\ phase' = phase /\ cursor' = 2 /\ progress' = TRUE
        /\ UNCHANGED <<request, chunkID, regFixed, memFixed, strings, fpages,
                       chan, budget, oldRemaining, processed, numbering>>
    BY <1>7 DEF MoveVariable
  <2> QED BY <2>5, <2>7, <2>8, SMTT(60) DEF TypeOK
<1>8. CASE PassVariable
  BY <1>8, SMTT(60) DEF PassVariable, TypeOK
<1>9. CASE EndVariablePass
  <2>1. phase' \in {phase, "layout"} /\ progress' = FALSE /\ cursor' = 1
    BY <1>9 DEF EndVariablePass, StartPass
  <2>2. UNCHANGED <<request, chunkID, lists, chan, budget, remaining,
                    oldRemaining, processed, numbering>>
    BY <1>9 DEF EndVariablePass
  <2>3. cursor' \in Nat \ {0}
    BY <2>1
  <2>4. progress' \in BOOLEAN
    BY <2>1, Zenon
  <2>5. CASE phase' = phase
    BY <2>2, <2>3, <2>4, <2>5 DEF TypeOK
  <2>6. CASE phase' = "layout"
    BY <2>2, <2>3, <2>4, <2>6 DEF TypeOK
  <2> QED BY <2>1, <2>5, <2>6
<1>10. CASE AddRegisterBuffer
  <2> DEFINE varbuf == NewChunk(chunkID + 1, "varbuf", oldRemaining - remaining, W,
                                {chan}, TRUE)
             laid == LaidOut(AddWithPrio(regFixed[chan], varbuf, 99))
  <2>1. varbuf \in ChunkOf(Nat)
    <3>1. chunkID + 1 \in Nat /\ oldRemaining - remaining \in Nat
      BY <1>10 DEF AddRegisterBuffer, TypeOK
    <3>2. "varbuf" \in Parts /\ {chan} \in SUBSET Channel /\ TRUE \in BOOLEAN
      BY <1>0 DEF Parts
    <3> QED BY <1>0, <3>1, <3>2, NewChunkType, Zenon
  <2>2. /\ regFixed' = [regFixed EXCEPT ![chan] = laid]
        /\ phase' \in {"memory", "varbuf_overflow"}
        /\ chunkID' = chunkID + 1
    BY <1>10 DEF AddRegisterBuffer
  <2> HIDE DEF varbuf
  <2>3. laid \in Seq(SizedChunk)
    <3>1. regFixed[chan] \in Seq(ChunkOf(Nat)) /\ 99 \in Nat
      BY <1>0 DEF TypeOK, SizedChunk
    <3>2. AddWithPrio(regFixed[chan], varbuf, 99) \in Seq(SizedChunk)
      BY <2>1, <3>1, AddChunkType, Zenon DEF SizedChunk
    <3> QED BY <3>2, LaidOutType
  <2> HIDE DEF laid
  <2>4. regFixed' \in [Channel -> Seq(SizedChunk)]
    BY <1>0, <2>2, <2>3 DEF TypeOK
  <2>5. UNCHANGED <<request, regVar, memFixed, memVar, strings, fpages, chan,
                    budget, loop, cursor, numbering>>
    BY <1>10 DEF AddRegisterBuffer
  <2>6. chunkID' \in Nat
    BY <2>2 DEF TypeOK
  <2> QED BY <2>2, <2>4, <2>5, <2>6 DEF TypeOK, Final
<1>11. CASE NoRegisterBuffer
  BY <1>11 DEF NoRegisterBuffer, TypeOK
<1>12. CASE LayoutMemory
  <2> DEFINE bytes == VarBytes(memVar[chan])
             varbuf == NewChunk(chunkID + 1, "varbuf", bytes, W, {chan}, FALSE)
             filled == IF bytes > 0 THEN AddWithPrio(memFixed[chan], varbuf, 99)
                       ELSE memFixed[chan]
  <2>1. memVar[chan] \in Seq(SizedChunk) /\ memFixed[chan] \in Seq(SizedChunk)
        /\ fpages[chan] \in Seq(SizedChunk)
    BY <1>0 DEF TypeOK
  <2>2. bytes \in Nat
    BY <2>1, VarBytesType
  <2>3. varbuf \in ChunkOf(Nat)
    <3>1. chunkID + 1 \in Nat
      BY DEF TypeOK
    <3>2. "varbuf" \in Parts /\ {chan} \in SUBSET Channel /\ FALSE \in BOOLEAN
      BY <1>0 DEF Parts
    <3> HIDE DEF bytes
    <3> QED BY <1>0, <2>2, <3>1, <3>2, NewChunkType, Zenon
  <2>4. /\ memFixed' = [memFixed EXCEPT ![chan] = LaidOut(filled)]
        /\ chunkID' \in {chunkID, chunkID + 1}
        /\ fpages' = [fpages EXCEPT ![chan] = Numbered(@)]
        /\ Advance("budget", "collect")
        /\ UNCHANGED <<request, regFixed, regVar, memVar, strings, budget, loop,
                       cursor, numbering>>
    BY <1>12 DEF LayoutMemory
  <2> HIDE DEF varbuf, bytes
  <2>5. LaidOut(filled) \in Seq(SizedChunk)
    <3>1. AddWithPrio(memFixed[chan], varbuf, 99) \in Seq(SizedChunk)
      <4>1. 99 \in Nat
        OBVIOUS
      <4> QED BY <2>1, <2>3, <4>1, AddChunkType, Zenon DEF SizedChunk
    <3>2. filled \in Seq(SizedChunk)
      BY <2>1, <3>1
    <3> HIDE DEF filled
    <3> QED BY <3>2, LaidOutType
  <2> HIDE DEF filled
  <2>6. Numbered(fpages[chan]) \in Seq(SizedChunk)
    BY <2>1, NumberedType, Zenon DEF SizedChunk
  <2>7. memFixed' \in [Channel -> Seq(SizedChunk)] /\ fpages' \in [Channel -> Seq(SizedChunk)]
    BY <1>0, <2>4, <2>5, <2>6 DEF TypeOK
  <2>8. chan' \in Channel /\ phase' \in {"budget", "collect"}
    BY <2>4, AdvanceType
  <2>9. chunkID' \in Nat
    BY <2>4 DEF TypeOK
  <2>10. UNCHANGED <<request, regFixed, regVar, memVar, strings, budget, loop,
                     cursor, numbering>>
    BY <2>4
  <2> QED BY <2>7, <2>8, <2>9, <2>10 DEF TypeOK
<1> QED BY <1>1, <1>2, <1>3, <1>4, <1>5, <1>6, <1>7, <1>8, <1>9, <1>10, <1>11, <1>12
        DEF PackChannel

(* A step of the numbering to another channel.                             *)
LEMMA NextChannelType ==
  ASSUME TypeOK,
         chan' \in Channel, phase' \in {"collect", "number", "done"},
         strings' \in [Channel -> Seq(AnyChunk)], newList' \in Seq(AnyChunk),
         cursor' \in Nat \ {0},
         UNCHANGED <<request, chunkID, regFixed, regVar, memFixed, memVar, fpages,
                     budget, loop, buffers>>
  PROVE  TypeOK'
<1> USE DEF request, budget, loop
<1>1. /\ regFixed' \in [Channel -> Seq(SizedChunk)] /\ regVar' \in [Channel -> Seq(SizedChunk)]
      /\ memFixed' \in [Channel -> Seq(SizedChunk)] /\ memVar' \in [Channel -> Seq(SizedChunk)]
      /\ fpages' \in [Channel -> Seq(SizedChunk)]
  BY DEF TypeOK
<1>2. /\ sig' \in Signature /\ pos' \in 0 .. Len(sig'.params)
      /\ chunkID' \in Nat /\ initialized' \in SUBSET Channel
  BY DEF TypeOK
<1>3. /\ needMem' \in [Channel -> BOOLEAN] /\ maxBytes' \in [Channel -> Nat]
      /\ remaining' \in Nat /\ oldRemaining' \in Nat /\ progress' \in BOOLEAN
      /\ processed' \in Seq(SizedChunk) /\ buffers' \in Seq(SizedChunk)
  BY DEF TypeOK
<1> QED BY <1>1, <1>2, <1>3 DEF TypeOK, Final

(* The steps of the numbering keep the types.                              *)
LEMMA NumberBuffersType == TypeOK /\ NumberBuffers => TypeOK'
<1> SUFFICES ASSUME TypeOK, NumberBuffers  PROVE TypeOK'
  OBVIOUS
<1> USE DEF request, lists, budget, loop, numbering
<1>0. chan \in Channel /\ strings[chan] \in Seq(AnyChunk)
  BY DEF TypeOK
<1>1. CASE CollectBuffer
  <2> DEFINE chunk == strings[chan][cursor]
             buffer == NewChunk(chunk.id, chunk.part, 1, 1, chunk.chans, FALSE)
             prio == BufferPrio(chunk, chan)
  <2>1. chunk \in AnyChunk
    BY <1>0, <1>1 DEF CollectBuffer, TypeOK
  <2>2. chunk.id \in Nat /\ chunk.part \in Parts /\ chunk.chans \in SUBSET Channel
    BY <2>1 DEF AnyChunk, ChunkOf
  <2>3. buffer \in ChunkOf(Nat)
    <3>1. 1 \in Nat /\ 1 \in Nat \ {0} /\ FALSE \in BOOLEAN
      OBVIOUS
    <3> HIDE DEF chunk
    <3> QED BY <2>2, <3>1, NewChunkType, Zenon
  <2>4. prio \in Nat
    <3> HIDE DEF chunk
    <3> QED BY DEF BufferPrio
  <2>5. buffers' \in {buffers, AddWithPrio(buffers, buffer, prio)}
    BY <1>1 DEF CollectBuffer
  <2>6. AddWithPrio(buffers, buffer, prio) \in Seq(SizedChunk)
    <3>1. buffers \in Seq(ChunkOf(Nat))
      BY DEF TypeOK, SizedChunk
    <3> HIDE DEF buffer, prio
    <3> QED BY <2>3, <2>4, <3>1, AddChunkType, Zenon DEF SizedChunk
  <2> HIDE DEF buffer, prio
  <2>7. buffers' \in Seq(SizedChunk)
    BY <2>5, <2>6 DEF TypeOK
  <2>8. /\ cursor' = cursor + 1
        /\ UNCHANGED <<phase, request, chunkID, lists, chan, budget, loop, newList>>
    BY <1>1 DEF CollectBuffer
  <2> QED BY <2>7, <2>8, SMTT(60) DEF TypeOK
<1>2. CASE CollectNextChannel
  <2>1. chan' \in Channel /\ phase' \in {"collect", "number"}
    BY <1>2, AdvanceType DEF CollectNextChannel
  <2>2. /\ cursor' = 1
        /\ UNCHANGED <<request, chunkID, lists, budget, loop, buffers, newList>>
    BY <1>2 DEF CollectNextChannel
  <2>3. strings' \in [Channel -> Seq(AnyChunk)] /\ newList' \in Seq(AnyChunk)
    BY <2>2 DEF TypeOK
  <2> QED BY <2>1, <2>2, <2>3, NextChannelType
<1>3. CASE NumberString
  <2> DEFINE chunk == Head(strings[chan])
             index == WalkTo(buffers, chunk.id)
             numbered == [chunk EXCEPT !.buf = index]
  <2>1. chunk \in AnyChunk /\ Tail(strings[chan]) \in Seq(AnyChunk)
    BY <1>0, <1>3 DEF NumberString
  <2>2. index \in Nat /\ index \in Int
    BY WalkToType DEF TypeOK
  <2>3. numbered \in AnyChunk
    <3> HIDE DEF chunk, index
    <3> QED BY <2>1, <2>2, ChunkUpdate, Zenon DEF AnyChunk
  <2>4. /\ newList' = AddWithPrio(newList, numbered, index)
        /\ strings' = [strings EXCEPT ![chan] = Tail(@)]
        /\ UNCHANGED <<phase, request, chunkID, regFixed, regVar, memFixed, memVar,
                       fpages, chan, budget, loop, cursor, buffers>>
    BY <1>3 DEF NumberString
  <2> HIDE DEF numbered, index
  <2>5. newList' \in Seq(AnyChunk)
    <3>1. newList \in Seq(AnyChunk)
      BY DEF TypeOK
    <3> QED BY <2>2, <2>3, <2>4, <3>1, AddChunkType, Zenon DEF AnyChunk
  <2>6. strings' \in [Channel -> Seq(AnyChunk)]
    BY <1>0, <2>1, <2>4 DEF TypeOK
  <2> QED BY <2>4, <2>5, <2>6 DEF TypeOK
<1>4. CASE NumberNextChannel
  <2>1. chan' \in Channel /\ phase' \in {"number", "done"}
    BY <1>4, AdvanceType DEF NumberNextChannel
  <2>2. Numbered(newList) \in Seq(AnyChunk)
    <3>1. newList \in Seq(AnyChunk)
      BY DEF TypeOK
    <3> QED BY <3>1, NumberedType, Zenon DEF AnyChunk
  <2>3. strings' \in [Channel -> Seq(AnyChunk)]
    BY <1>0, <1>4, <2>2 DEF NumberNextChannel, TypeOK
  <2>4. /\ newList' = <<>>
        /\ UNCHANGED <<request, chunkID, regFixed, regVar, memFixed, memVar, fpages,
                       budget, loop, cursor, buffers>>
    BY <1>4 DEF NumberNextChannel
  <2>5. cursor' \in Nat \ {0} /\ newList' \in Seq(AnyChunk)
    BY <2>4 DEF TypeOK
  <2> QED BY <2>1, <2>3, <2>4, <2>5, NextChannelType
<1> QED BY <1>1, <1>2, <1>3, <1>4 DEF NumberBuffers

(* The types hold before an operation is marshalled.                       *)
LEMMA TypeOKInit == Init => TypeOK
<1> SUFFICES ASSUME Init  PROVE TypeOK
  OBVIOUS
<1>1. sig \in Signature /\ Len(sig.params) \in Nat
  BY ConnectionAssumption DEF Init, Signature
<1>2. /\ regFixed \in [Channel -> Seq(SizedChunk)] /\ regVar \in [Channel -> Seq(SizedChunk)]
      /\ memFixed \in [Channel -> Seq(SizedChunk)] /\ memVar \in [Channel -> Seq(SizedChunk)]
      /\ strings \in [Channel -> Seq(AnyChunk)] /\ fpages \in [Channel -> Seq(SizedChunk)]
  BY DEF Init
<1>3. /\ needMem \in [Channel -> BOOLEAN] /\ maxBytes \in [Channel -> Nat]
      /\ processed \in Seq(SizedChunk) /\ buffers \in Seq(SizedChunk)
      /\ newList \in Seq(AnyChunk)
  BY DEF Init
<1>4. /\ phase = "options" /\ pos \in 0 .. Len(sig.params) /\ chunkID \in Nat
      /\ initialized \in SUBSET Channel /\ chan \in Channel
      /\ remaining \in Nat /\ oldRemaining \in Nat /\ cursor \in Nat \ {0}
  BY <1>1, ChannelType DEF Init
<1>5. progress \in BOOLEAN
  BY Zenon DEF Init
<1> QED BY <1>1, <1>2, <1>3, <1>4, <1>5 DEF TypeOK

(* No step of the back end breaks the types.                               *)
LEMMA TypeOKNext == TypeOK /\ [Next]_vars => TypeOK'
<1>1. TypeOK /\ UNCHANGED vars => TypeOK'
  BY DEF TypeOK, vars, request, lists, budget, loop, numbering
<1>2. Finished => UNCHANGED vars
  BY DEF Finished
<1> QED BY <1>1, <1>2, MarshalType, AddTagsType, PackChannelType, NumberBuffersType
        DEF Next, Step

(* Whatever the operation and the sizes of its parameters, every list      *)
(* holds chunks of its kind and the bytes left for the registers never     *)
(* drop below zero.                                                        *)
THEOREM TypeCorrect == Spec => []TypeOK
  BY TypeOKInit, TypeOKNext, PTL DEF Spec

-----------------------------------------------------------------------------
(* The budget of message registers                                         *)

(* A tag alone takes one word.                                             *)
LEMMA LayoutEndOfTag ==
  /\ LayoutEnd(<<>>) = 0
  /\ \A tag \in SizedChunk :
       tag.size = W /\ tag.align = W => LayoutEnd(<<tag>>) = W
<1>1. LayoutEnd(<<>>) = 0
  <2>1. <<>> \in Seq(SizedChunk) /\ Len(<<>>) = 0
    OBVIOUS
  <2>2. Shape(<<>>) \in Seq(Piece)
    BY <2>1, ShapeType
  <2> QED BY <2>1, <2>2, EndsEquation DEF LayoutEnd
<1>2. ASSUME NEW tag \in SizedChunk, tag.size = W, tag.align = W
      PROVE  LayoutEnd(<<tag>>) = W
  <2> DEFINE list == <<tag>>
             shape == Shape(list)
  <2>1. list \in Seq(SizedChunk) /\ Len(list) = 1 /\ list[1] = tag
    OBVIOUS
  <2> HIDE DEF list
  <2>2. /\ shape \in Seq(Piece) /\ Len(shape) = 1
        /\ shape[1].size = W /\ shape[1].align = W
    <3>1. 1 \in 1 .. Len(list)
      BY <2>1
    <3> QED BY <2>1, <3>1, <1>2, ShapeType
  <2> HIDE DEF shape
  <2>3. Ends(shape)[1] = AlignUp(0, W) + W
    <3>1. Ends(shape)[0] = 0 /\ Ends(shape)[1] = AlignUp(Ends(shape)[1 - 1], shape[1].align) + shape[1].size
      BY <2>2, EndsEquation
    <3> QED BY <2>2, <3>1
  <2>4. AlignUp(0, W) = 0
    <3>1. (W - 1) \div W = 0
      BY ConnectionAssumption
    <3> QED BY <3>1, ConnectionAssumption DEF AlignUp
  <2>5. LayoutEnd(<<tag>>) = Ends(shape)[1]
    BY <2>1 DEF LayoutEnd, shape, list
  <2> QED BY <2>3, <2>4, <2>5, ConnectionAssumption
<1> QED BY <1>1, <1>2

(* A chunk that is taken out again leaves the list as long as it was.      *)
LEMMA PutBackShape ==
  ASSUME NEW list \in Seq(SizedChunk), NEW chunk \in SizedChunk, NEW prio \in Nat
  PROVE  LayoutEnd(RemoveElement(LaidOut(AddWithPrio(list, chunk, prio)),
                                 PrioPosition(list, prio))) = LayoutEnd(list)
<1> DEFINE at == PrioPosition(list, prio)
           elem == [chunk EXCEPT !.prio = prio]
           added == AddWithPrio(list, chunk, prio)
           laid == LaidOut(added)
           back == RemoveElement(laid, at)
<1>1. Len(list) \in Nat
  OBVIOUS
<1>2. added \in Seq(SizedChunk) /\ Len(added) = Len(list) + 1 /\ at \in 1 .. Len(list) + 1
  BY AddChunkType, Zenon DEF SizedChunk
<1>3. /\ \A i \in 1 .. at - 1 : added[i] = list[i]
      /\ \A i \in at .. Len(list) : added[i + 1] = list[i]
  <2>1. elem \in SizedChunk
    <3>1. prio \in Int
      OBVIOUS
    <3> QED BY <3>1, ChunkUpdate, Zenon DEF SizedChunk
  <2>2. added = InsertAt(list, at, elem)
    BY DEF AddWithPrio
  <2> HIDE DEF at, elem, added
  <2>3. ASSUME NEW a \in 1 .. Len(list) + 1, NEW e \in SizedChunk
        PROVE  /\ \A i \in 1 .. a - 1 : InsertAt(list, a, e)[i] = list[i]
               /\ \A i \in a .. Len(list) : InsertAt(list, a, e)[i + 1] = list[i]
    BY InsertAtElements
  <2> QED BY <1>2, <2>1, <2>2, <2>3, Zenon
<1> HIDE DEF at, added
<1>4. /\ laid \in Seq(SizedChunk) /\ Len(laid) = Len(list) + 1
      /\ \A i \in 1 .. Len(list) + 1 :
           laid[i].size = added[i].size /\ laid[i].align = added[i].align
  BY <1>2, LaidOutType
<1> HIDE DEF laid
<1>5. /\ back \in Seq(SizedChunk) /\ Len(back) = Len(list)
      /\ \A i \in 1 .. at - 1 : back[i] = laid[i]
      /\ \A i \in at .. Len(list) : back[i] = laid[i + 1]
  <2>1. at \in 1 .. Len(laid) /\ Len(laid) - 1 = Len(list)
    BY <1>1, <1>2, <1>4
  <2>2. /\ RemoveAt(laid, at) \in Seq(SizedChunk)
        /\ Len(RemoveAt(laid, at)) = Len(laid) - 1
        /\ \A i \in 1 .. at - 1 : RemoveAt(laid, at)[i] = laid[i]
        /\ \A i \in at .. Len(laid) - 1 : RemoveAt(laid, at)[i] = laid[i + 1]
    BY <1>4, <2>1, RemoveAtElements, Zenon
  <2>3. back = RemoveAt(laid, at)
    BY DEF RemoveElement
  <2> HIDE DEF back
  <2> QED BY <2>1, <2>2, <2>3, Zenon
<1> HIDE DEF back
<1>6. ASSUME NEW i \in 1 .. Len(list)
      PROVE  back[i].size = list[i].size /\ back[i].align = list[i].align
  <2>1. CASE i \in 1 .. at - 1
    <3>1. i \in 1 .. Len(list) + 1
      BY <1>1
    <3>2. laid[i].size = added[i].size /\ laid[i].align = added[i].align
      BY <1>4, <3>1
    <3>3. back[i] = laid[i] /\ added[i] = list[i]
      BY <1>3, <1>5, <2>1
    <3> QED BY <3>2, <3>3
  <2>2. CASE i \in at .. Len(list)
    <3>1. i + 1 \in 1 .. Len(list) + 1
      BY <1>1
    <3>2. laid[i + 1].size = added[i + 1].size /\ laid[i + 1].align = added[i + 1].align
      BY <1>4, <3>1
    <3>3. back[i] = laid[i + 1] /\ added[i + 1] = list[i]
      BY <1>3, <1>5, <2>2
    <3> QED BY <3>2, <3>3
  <2>3. i \in 1 .. at - 1 \/ i \in at .. Len(list)
    BY <1>1, <1>2
  <2> QED BY <2>1, <2>2, <2>3
<1>7. Shape(back) = Shape(list)
  <2>1. DOMAIN back = 1 .. Len(list) /\ DOMAIN list = 1 .. Len(list)
    BY <1>5
  <2> QED BY <1>6, <2>1 DEF Shape
<1>8. LayoutEnd(back) = LayoutEnd(list)
  BY <1>5, <1>7 DEF LayoutEnd
<1> QED BY <1>8 DEF back, laid, added, at


(* The inductive invariant                                                 *)

(* String and map items of a channel; those that are being numbered are in *)
(* newList.                                                                *)
Items(c) == Len(strings[c]) + Len(fpages[c]) + (IF c = chan THEN Len(newList) ELSE 0)

MemItems(c) == IF needMem[c] THEN 1 ELSE 0

(* The chunks of the channel fit a number of whole words, and these words  *)
(* and the typed items, two words each, fit the registers.                 *)
WithinBudget(c) ==
  \E words \in 0 .. AvailableMRs :
    /\ maxBytes[c] = words * W
    /\ LayoutEnd(regFixed[c]) <= maxBytes[c]
    /\ words + 2 * (Items(c) + MemItems(c)) <= AvailableMRs

Marshalled == phase \in {"options", "marshal"}
Packing == phase \in {"fixed", "variable", "layout", "memory"}
AllPacked == phase \in {"collect", "number", "done"}

(* The channels still to be packed, with nothing but a tag in their        *)
(* registers, and those that are or are being packed.                      *)
Waiting(c) == (phase = "budget" /\ c >= chan) \/ (Packing /\ c > chan)
Packed(c) == (phase = "budget" /\ c < chan) \/ (Packing /\ c <= chan) \/ AllPacked

BudgetInv ==
  /\ phase # "number" => newList = <<>>
  /\ Marshalled => chan = CHANNEL_IN /\ \A c \in Channel : regFixed[c] = <<>>
  /\ \A c \in Channel : Waiting(c) => LayoutEnd(regFixed[c]) <= W
  /\ \A c \in Channel : Packed(c) => WithinBudget(c)

-----------------------------------------------------------------------------
(* What keeps a channel within its budget                                  *)

(* Every list has a length.                                                *)
LEMMA LengthTypes ==
  ASSUME TypeOK, NEW c \in Channel
  PROVE  /\ Len(strings[c]) \in Nat /\ Len(fpages[c]) \in Nat /\ Len(newList) \in Nat
         /\ Items(c) \in Nat
         /\ MemItems(c) \in {0, 1}
         /\ maxBytes[c] \in Nat
         /\ LayoutEnd(regFixed[c]) \in Nat
<1>1. Len(strings[c]) \in Nat /\ Len(fpages[c]) \in Nat /\ Len(newList) \in Nat
  <2>1. strings[c] \in Seq(AnyChunk) /\ fpages[c] \in Seq(SizedChunk) /\ newList \in Seq(AnyChunk)
    BY DEF TypeOK
  <2> QED BY <2>1, LenProperties
<1>2. LayoutEnd(regFixed[c]) \in Nat
  BY LayoutEndType DEF TypeOK
<1>3. maxBytes[c] \in Nat
  BY DEF TypeOK
<1>4. MemItems(c) \in {0, 1}
  BY DEF MemItems
<1>5. Items(c) \in Nat
  <2> DEFINE moving == IF c = chan THEN Len(newList) ELSE 0
  <2>1. moving \in Nat
    BY <1>1
  <2>2. Items(c) = Len(strings[c]) + Len(fpages[c]) + moving
    BY DEF Items
  <2> HIDE DEF moving
  <2>3. \A a, b, d \in Nat : a + b + d \in Nat
    OBVIOUS
  <2> QED BY <1>1, <2>1, <2>2, <2>3, ZenonT(60)
<1> QED BY <1>1, <1>2, <1>3, <1>4, <1>5

(* No item, no register and no limit of the channel changes.               *)
LEMMA WithinBudgetKept ==
  ASSUME NEW c \in Channel, WithinBudget(c),
         maxBytes'[c] = maxBytes[c], MemItems(c)' = MemItems(c), Items(c)' = Items(c),
         LayoutEnd(regFixed'[c]) <= maxBytes'[c]
  PROVE  WithinBudget(c)'
  BY DEF WithinBudget

(* A step that moves nothing into or out of the registers, and after which *)
(* no channel waits or is packed that was not before.                      *)
LEMMA QuietStep ==
  ASSUME BudgetInv, ~Marshalled', newList = <<>>, newList' = <<>>,
         UNCHANGED <<maxBytes, needMem>>,
         \A c \in Channel :
           /\ LayoutEnd(regFixed'[c]) = LayoutEnd(regFixed[c])
           /\ Len(strings'[c]) = Len(strings[c])
           /\ Len(fpages'[c]) = Len(fpages[c])
           /\ Waiting(c)' => Waiting(c)
           /\ Packed(c)' => Packed(c)
  PROVE  BudgetInv'
<1>1. ASSUME NEW c \in Channel, Waiting(c)'  PROVE LayoutEnd(regFixed'[c]) <= W
  BY <1>1 DEF BudgetInv
<1>2. ASSUME NEW c \in Channel, Packed(c)'  PROVE WithinBudget(c)'
  <2>1. WithinBudget(c)
    BY <1>2 DEF BudgetInv
  <2>2. LayoutEnd(regFixed'[c]) <= maxBytes'[c]
    BY <2>1 DEF WithinBudget
  <2>3. Items(c)' = Items(c) /\ MemItems(c)' = MemItems(c)
    BY DEF Items, MemItems
  <2> QED BY <2>1, <2>2, <2>3, WithinBudgetKept
<1> QED BY <1>1, <1>2 DEF BudgetInv

(* A channel that starts is within its budget: the number of registers is  *)
(* odd and every item takes two, so one is left for the tag.               *)
LEMMA StartWithinBudget ==
  ASSUME TypeOK, NEW c \in Channel, RegistersLeft(c) >= 0
  PROVE  /\ RegistersLeft(c) \in 1 .. AvailableMRs
         /\ W <= RegistersLeft(c) * W
         /\ RegistersLeft(c) = AvailableMRs - 2 * (Len(strings[c]) + Len(fpages[c])
                                                   + (IF NeedsMem(c) THEN 1 ELSE 0))
<1> DEFINE s == Len(strings[c])
           f == Len(fpages[c])
           mem == IF NeedsMem(c) THEN 1 ELSE 0
           k == s + f + mem
<1>1. s \in Nat /\ f \in Nat /\ mem \in {0, 1}
  BY LengthTypes
<1>2. k \in Nat
  <2> HIDE DEF mem, s, f
  <2> QED BY <1>1
<1>3. RegistersLeft(c) = AvailableMRs - 2 * k
  <2>1. (IF NeedsMem(c) THEN 2 ELSE 0) = 2 * mem
    OBVIOUS
  <2>2. RegistersLeft(c) = AvailableMRs - 2 * mem - 2 * s - 2 * f
    BY <2>1 DEF RegistersLeft
  <2> HIDE DEF mem, s, f
  <2> QED BY <1>1, <2>2, ConnectionAssumption
<1> HIDE DEF k
<1>4. RegistersLeft(c) \in 1 .. AvailableMRs
  BY <1>2, <1>3, ConnectionAssumption
<1>5. \A a \in Nat, b \in Nat : a >= 1 => b <= a * b
  OBVIOUS
<1>6. W <= RegistersLeft(c) * W
  BY <1>4, <1>5, ConnectionAssumption
<1> QED BY <1>3, <1>4, <1>6 DEF k, mem, s, f

-----------------------------------------------------------------------------
(* Every step keeps the budget                                             *)

(* Nothing is in registers at first.                                       *)
LEMMA BudgetInit == Init => BudgetInv
<1> SUFFICES ASSUME Init  PROVE BudgetInv
  OBVIOUS
<1>1. /\ phase = "options" /\ newList = <<>> /\ chan = CHANNEL_IN
      /\ \A c \in Channel : regFixed[c] = <<>>
  BY DEF Init
<1> QED BY <1>1 DEF BudgetInv, Marshalled, Waiting, Packed, Packing, AllPacked

(* Marshalling puts nothing into registers.                                *)
LEMMA BudgetMarshal == BudgetInv /\ Marshal => BudgetInv'
<1> SUFFICES ASSUME BudgetInv, Marshal  PROVE BudgetInv'
  OBVIOUS
<1>1. /\ phase \in {"options", "marshal"} /\ phase' = "marshal"
      /\ UNCHANGED <<chan, regFixed, newList>>
  BY DEF Marshal, SetOption, MarshalExceptionCode, GetFixedCopyChunk, GetUnboundedCopyChunk,
         GetBoundedCopyChunk, GetMapChunk, Marshalling, FixedCopyChunk, lists, numbering
<1>2. newList = <<>> /\ chan = CHANNEL_IN /\ \A c \in Channel : regFixed[c] = <<>>
  BY <1>1 DEF BudgetInv, Marshalled
<1> QED BY <1>1, <1>2 DEF BudgetInv, Marshalled, Waiting, Packed, Packing, AllPacked

(* The tag takes one word of every channel.                                *)
LEMMA BudgetAddTags == TypeOK /\ BudgetInv /\ AddTags => BudgetInv'
<1> SUFFICES ASSUME TypeOK, BudgetInv, AddTags  PROVE BudgetInv'
  OBVIOUS
<1> DEFINE used == IF sig.oneway THEN Channel \ {CHANNEL_OUT} ELSE Channel
           rank(c) == IF sig.oneway /\ c > CHANNEL_OUT THEN c ELSE c + 1
           tag(c) == NewChunk(chunkID + rank(c), "tag", W, W, {c}, FALSE)
<1>1. /\ regFixed' = [c \in Channel |-> IF c \in used THEN AddLast(regFixed[c], tag(c))
                                                      ELSE regFixed[c]]
      /\ phase = "marshal" /\ phase' = "budget"
      /\ UNCHANGED <<chan, newList>>
  BY DEF AddTags, numbering
<1>2. newList = <<>> /\ chan = CHANNEL_IN /\ \A c \in Channel : regFixed[c] = <<>>
  BY <1>1 DEF BudgetInv, Marshalled
<1>3. ASSUME NEW c \in Channel
      PROVE  tag(c) \in SizedChunk /\ tag(c).size = W /\ tag(c).align = W
  <2>1. c \in Nat /\ chunkID \in Nat
    BY ChannelType DEF TypeOK
  <2>2. chunkID + rank(c) \in Nat
    BY <2>1
  <2>3. W \in Nat /\ W \in Nat \ {0} /\ {c} \in SUBSET Channel /\ FALSE \in BOOLEAN
    BY ConnectionAssumption
  <2>4. "tag" \in Parts
    BY DEF Parts
  <2> HIDE DEF rank
  <2>5. tag(c) \in SizedChunk
    BY <2>2, <2>3, <2>4, NewChunkType, Zenon DEF SizedChunk
  <2>6. tag(c).size = W /\ tag(c).align = W
    BY DEF NewChunk
  <2> QED BY <2>5, <2>6
<1> HIDE DEF used, tag
<1>4. ASSUME NEW c \in Channel  PROVE LayoutEnd(regFixed'[c]) <= W
  <2>1. regFixed'[c] = <<tag(c)>> \/ regFixed'[c] = <<>>
    <3>1. regFixed'[c] \in {AddLast(<<>>, tag(c)), <<>>}
      BY <1>1, <1>2
    <3>2. AddLast(<<>>, tag(c)) = <<tag(c)>>
      BY DEF AddLast
    <3> QED BY <3>1, <3>2
  <2>2. LayoutEnd(<<tag(c)>>) = W /\ LayoutEnd(<<>>) = 0
    BY <1>3, LayoutEndOfTag
  <2> QED BY <2>1, <2>2, ConnectionAssumption
<1>5. ASSUME NEW c \in Channel  PROVE ~Packed(c)'
  <2>1. c \in Nat
    BY ChannelType
  <2> QED BY <1>1, <1>2, <2>1 DEF Packed, Packing, AllPacked, CHANNEL_IN
<1> QED BY <1>1, <1>2, <1>4, <1>5 DEF BudgetInv, Marshalled

(* A channel begins with the registers its items leave.                    *)
LEMMA BudgetBeginChannel == TypeOK /\ BudgetInv /\ BeginChannel => BudgetInv'
<1> SUFFICES ASSUME TypeOK, BudgetInv, BeginChannel  PROVE BudgetInv'
  OBVIOUS
<1>1. /\ phase = "budget" /\ phase' = "fixed" /\ RegistersLeft(chan) >= 0
      /\ needMem' = [needMem EXCEPT ![chan] = NeedsMem(chan)]
      /\ maxBytes' = [maxBytes EXCEPT ![chan] = RegistersLeft(chan) * W]
      /\ UNCHANGED <<regFixed, strings, fpages, chan, newList>>
  BY DEF BeginChannel, lists, numbering
<1>2. chan \in Channel /\ newList = <<>> /\ newList' = <<>>
  BY <1>1 DEF TypeOK, BudgetInv
<1>3. \A c \in Channel : c \in Nat
  BY ChannelType
<1>4. ASSUME NEW c \in Channel, Waiting(c)'  PROVE LayoutEnd(regFixed'[c]) <= W
  <2>1. Waiting(c)
    BY <1>1, <1>2, <1>3, <1>4 DEF Waiting, Packing
  <2> QED BY <1>1, <2>1 DEF BudgetInv
<1>5. ASSUME NEW c \in Channel, Packed(c)', c # chan  PROVE WithinBudget(c)'
  <2>1. Packed(c)
    BY <1>1, <1>2, <1>3, <1>5 DEF Packed, Packing, AllPacked
  <2>2. WithinBudget(c)
    BY <2>1 DEF BudgetInv
  <2>3. maxBytes'[c] = maxBytes[c] /\ MemItems(c)' = MemItems(c) /\ Items(c)' = Items(c)
    BY <1>1, <1>5 DEF TypeOK, MemItems, Items
  <2>4. LayoutEnd(regFixed'[c]) <= maxBytes'[c]
    BY <1>1, <2>2, <2>3 DEF WithinBudget
  <2> QED BY <2>2, <2>3, <2>4, WithinBudgetKept
<1>6. WithinBudget(chan)'
  <2> DEFINE words == RegistersLeft(chan)
             mem == IF NeedsMem(chan) THEN 1 ELSE 0
             items == Len(strings[chan]) + Len(fpages[chan])
  <2>1. words \in 1 .. AvailableMRs /\ W <= words * W /\ words = AvailableMRs - 2 * (items + mem)
    BY <1>1, <1>2, StartWithinBudget
  <2>2. items \in Nat /\ mem \in {0, 1}
    <3>1. Len(strings[chan]) \in Nat /\ Len(fpages[chan]) \in Nat
      BY <1>2, LengthTypes
    <3>2. \A a, b \in Nat : a + b \in Nat
      OBVIOUS
    <3>3. mem \in {0, 1}
      OBVIOUS
    <3> QED BY <3>1, <3>2, <3>3, Zenon
  <2>3. Items(chan)' = items
    <3>1. Items(chan)' = Len(strings[chan]) + Len(fpages[chan]) + 0
      BY <1>1, <1>2 DEF Items
    <3> QED BY <2>2, <3>1
  <2>4. MemItems(chan)' = mem
    BY <1>1, <1>2 DEF MemItems, TypeOK
  <2>5. maxBytes'[chan] = words * W
    BY <1>1, <1>2 DEF TypeOK
  <2>6. LayoutEnd(regFixed'[chan]) <= words * W
    <3>1. LayoutEnd(regFixed[chan]) \in Nat
      BY <1>2, LengthTypes
    <3>2. Waiting(chan)
      BY <1>1, <1>2, <1>3 DEF Waiting
    <3>3. LayoutEnd(regFixed[chan]) <= W
      BY <1>2, <3>2 DEF BudgetInv
    <3>4. words * W \in Nat
      BY <1>1, <1>2, BudgetType
    <3>5. regFixed'[chan] = regFixed[chan]
      BY <1>1
    <3> HIDE DEF words, mem, items
    <3>6. LayoutEnd(regFixed[chan]) <= words * W
      BY <2>1, <3>1, <3>3, <3>4, ConnectionAssumption
    <3> QED BY <3>5, <3>6
  <2>7. words + 2 * (items + mem) <= AvailableMRs
    <3> HIDE DEF words, mem, items
    <3> QED BY <2>1, <2>2, ConnectionAssumption
  <2>8. words \in 0 .. AvailableMRs
    <3> HIDE DEF words, mem, items
    <3> QED BY <2>1, ConnectionAssumption
  <2>9. chan' = chan
    BY <1>1
  <2> HIDE DEF words, mem, items
  <2>10. /\ maxBytes'[chan] = words * W
         /\ LayoutEnd(regFixed'[chan]) <= maxBytes'[chan]
         /\ words + 2 * (Items(chan)' + MemItems(chan)') <= AvailableMRs
    BY <2>3, <2>4, <2>5, <2>6, <2>7
  <2> QED BY <2>8, <2>9, <2>10 DEF WithinBudget
<1>7. ASSUME NEW c \in Channel, Packed(c)'  PROVE WithinBudget(c)'
  <2>1. CASE c = chan
    BY <1>1, <1>6, <2>1 DEF WithinBudget, MemItems, Items
  <2>2. CASE c # chan
    BY <1>5, <1>7, <2>2
  <2> QED BY <2>1, <2>2
<1> QED BY <1>1, <1>2, <1>4, <1>7 DEF BudgetInv, Marshalled

(* A step on the registers of the channel being packed leaves the others   *)
(* as they are.                                                            *)
LEMMA OtherChannels ==
  ASSUME TypeOK, BudgetInv, Packing, phase' = phase \/ Packing',
         UNCHANGED <<chan, strings, fpages, newList>>,
         \A c \in Channel : c # chan =>
           /\ regFixed'[c] = regFixed[c]
           /\ maxBytes'[c] = maxBytes[c]
           /\ needMem'[c] = needMem[c],
         WithinBudget(chan)'
  PROVE  BudgetInv'
<1>1. newList = <<>> /\ newList' = <<>> /\ ~Marshalled'
  BY DEF BudgetInv, Packing, Marshalled
<1>2. \A c \in Channel : c \in Nat
  BY ChannelType
<1>3. chan \in Channel
  BY DEF TypeOK
<1>4. ASSUME NEW c \in Channel, Waiting(c)'  PROVE LayoutEnd(regFixed'[c]) <= W
  <2>1. Waiting(c) /\ c # chan
    BY <1>2, <1>3, <1>4 DEF Waiting, Packing
  <2> QED BY <2>1 DEF BudgetInv
<1>5. ASSUME NEW c \in Channel, Packed(c)', c # chan  PROVE WithinBudget(c)'
  <2>1. Packed(c)
    BY <1>2, <1>3, <1>5 DEF Packed, Packing, AllPacked
  <2>2. WithinBudget(c)
    BY <2>1 DEF BudgetInv
  <2>3. maxBytes'[c] = maxBytes[c] /\ MemItems(c)' = MemItems(c) /\ Items(c)' = Items(c)
    BY <1>5 DEF MemItems, Items
  <2>4. LayoutEnd(regFixed'[c]) <= maxBytes'[c]
    BY <1>5, <2>2, <2>3 DEF WithinBudget
  <2> QED BY <2>2, <2>3, <2>4, WithinBudgetKept
<1>6. ASSUME NEW c \in Channel, Packed(c)'  PROVE WithinBudget(c)'
  <2>1. CASE c = chan
    BY <2>1 DEF WithinBudget, MemItems, Items
  <2>2. CASE c # chan
    BY <1>5, <1>6, <2>2
  <2> QED BY <2>1, <2>2
<1> QED BY <1>1, <1>4, <1>6 DEF BudgetInv

(* The channel being packed is within its budget.                          *)
LEMMA PackingBudget ==
  ASSUME TypeOK, BudgetInv, Packing
  PROVE  chan \in Channel /\ newList = <<>> /\ WithinBudget(chan)
<1>1. chan \in Channel /\ newList = <<>>
  BY DEF TypeOK, BudgetInv, Packing
<1>2. Packed(chan)
  BY <1>1, ChannelType DEF Packed
<1> QED BY <1>1, <1>2 DEF BudgetInv

(* A chunk is taken only when it fits, and giving up the memory message    *)
(* frees the two registers its item would have taken.                      *)
LEMMA BudgetTakeFixed == TypeOK /\ BudgetInv /\ TakeFixed => BudgetInv'
<1> SUFFICES ASSUME TypeOK, BudgetInv, TakeFixed  PROVE BudgetInv'
  OBVIOUS
<1> DEFINE release == needMem[chan] /\ Len(memFixed[chan]) = 1 /\ memVar[chan] = <<>>
<1>1. /\ phase = "fixed" /\ phase' = phase /\ memFixed[chan] # <<>>
      /\ needMem' = [needMem EXCEPT ![chan] = @ /\ ~release]
      /\ maxBytes' = [maxBytes EXCEPT ![chan] = IF release THEN @ + 2 * W ELSE @]
      /\ regFixed' = [regFixed EXCEPT ![chan] = Tried]
      /\ LayoutEnd(Tried) <= maxBytes[chan]
      /\ UNCHANGED <<chan, strings, fpages, newList>>
  BY DEF TakeFixed, TryingFixed, Fits, numbering
<1>2. release => needMem[chan]
  OBVIOUS
<1> HIDE DEF release
<1>3. Packing
  BY <1>1 DEF Packing
<1>4. chan \in Channel /\ newList = <<>> /\ WithinBudget(chan)
  BY <1>3, PackingBudget
<1>5. PICK words \in 0 .. AvailableMRs :
        /\ maxBytes[chan] = words * W
        /\ words + 2 * (Items(chan) + MemItems(chan)) <= AvailableMRs
  BY <1>4 DEF WithinBudget
<1>6. Items(chan)' = Items(chan) /\ chan' = chan
  BY <1>1 DEF Items
<1>7. Items(chan) \in Nat /\ words \in Nat /\ W \in Nat /\ LayoutEnd(Tried) \in Nat
  <2>1. Tried \in Seq(SizedChunk)
    BY <1>1, TriedType
  <2> QED BY <1>4, <2>1, LengthTypes, LayoutEndType, ConnectionAssumption
<1>8. regFixed'[chan] = Tried
  BY <1>1, <1>4 DEF TypeOK
<1>9. WithinBudget(chan)'
  <2>1. CASE release
    <3>1. MemItems(chan) = 1
      BY <1>2, <2>1 DEF MemItems
    <3>2. MemItems(chan)' = 0
      BY <1>1, <1>4, <2>1 DEF TypeOK, MemItems
    <3>3. maxBytes'[chan] = maxBytes[chan] + 2 * W
      BY <1>1, <1>4, <2>1 DEF TypeOK
    <3>4. maxBytes'[chan] = (words + 2) * W
      BY <1>5, <1>7, <3>3
    <3>5. words + 2 \in 0 .. AvailableMRs /\ words + 2 + 2 * (Items(chan) + 0) <= AvailableMRs
      BY <1>5, <1>7, <3>1, ConnectionAssumption
    <3>6. LayoutEnd(Tried) <= (words + 2) * W
      <4>1. words * W \in Nat /\ (words + 2) * W = words * W + 2 * W
        BY <1>7
      <4> QED BY <1>1, <1>5, <1>7, <4>1
    <3>7. LayoutEnd(regFixed'[chan]) <= maxBytes'[chan]
      BY <1>8, <3>4, <3>6
    <3> QED BY <1>6, <3>2, <3>4, <3>5, <3>7 DEF WithinBudget
  <2>2. CASE ~release
    <3>1. MemItems(chan)' = MemItems(chan)
      BY <1>1, <1>4, <2>2 DEF TypeOK, MemItems
    <3>2. maxBytes'[chan] = maxBytes[chan]
      BY <1>1, <1>4, <2>2 DEF TypeOK
    <3>3. LayoutEnd(regFixed'[chan]) <= maxBytes'[chan]
      BY <1>1, <1>8, <3>2
    <3> QED BY <1>5, <1>6, <3>1, <3>2, <3>3 DEF WithinBudget
  <2> QED BY <2>1, <2>2
<1>10. \A c \in Channel : c # chan =>
         /\ regFixed'[c] = regFixed[c]
         /\ maxBytes'[c] = maxBytes[c]
         /\ needMem'[c] = needMem[c]
  BY <1>1 DEF TypeOK
<1> QED BY <1>1, <1>3, <1>9, <1>10, OtherChannels

(* The buffer for the variable chunks is taken only when it fits.          *)
LEMMA BudgetAddRegisterBuffer ==
  TypeOK /\ BudgetInv /\ AddRegisterBuffer => BudgetInv'
<1> SUFFICES ASSUME TypeOK, BudgetInv, AddRegisterBuffer  PROVE BudgetInv'
  OBVIOUS
<1> DEFINE varbuf == NewChunk(chunkID + 1, "varbuf", oldRemaining - remaining, W,
                              {chan}, TRUE)
           laid == LaidOut(AddWithPrio(regFixed[chan], varbuf, 99))
<1>1. /\ phase = "layout"
      /\ regFixed' = [regFixed EXCEPT ![chan] = laid]
      /\ phase' = IF Fits(laid) THEN "memory" ELSE "varbuf_overflow"
      /\ UNCHANGED <<chan, strings, fpages, needMem, maxBytes, newList>>
  BY DEF AddRegisterBuffer, budget, numbering
<1> HIDE DEF varbuf, laid
<1>2. Packing
  BY <1>1 DEF Packing
<1>3. chan \in Channel /\ newList = <<>> /\ WithinBudget(chan)
  BY <1>2, PackingBudget
<1>4. CASE Fits(laid)
  <2>1. LayoutEnd(regFixed'[chan]) <= maxBytes'[chan]
    BY <1>1, <1>3, <1>4 DEF Fits, TypeOK
  <2>2. chan' = chan /\ maxBytes'[chan] = maxBytes[chan] /\ Items(chan)' = Items(chan)
        /\ MemItems(chan)' = MemItems(chan)
    BY <1>1 DEF Items, MemItems
  <2>3. WithinBudget(chan)'
    BY <1>3, <2>1, <2>2 DEF WithinBudget
  <2>4. \A c \in Channel : c # chan => regFixed'[c] = regFixed[c]
    BY <1>1 DEF TypeOK
  <2>5. Packing'
    BY <1>1, <1>4 DEF Packing
  <2> QED BY <1>1, <1>2, <2>3, <2>4, <2>5, OtherChannels
<1>5. CASE ~Fits(laid)
  <2>1. phase' = "varbuf_overflow" /\ newList' = <<>>
    BY <1>1, <1>3, <1>5
  <2> QED BY <2>1 DEF BudgetInv, Marshalled, Waiting, Packed, Packing, AllPacked
<1> QED BY <1>4, <1>5

(* A chunk that overflows the registers leaves them as they were.          *)
LEMMA BudgetPutBackFixed == TypeOK /\ BudgetInv /\ PutBackFixed => BudgetInv'
<1> SUFFICES ASSUME TypeOK, BudgetInv, PutBackFixed  PROVE BudgetInv'
  OBVIOUS
<1> DEFINE back == RemoveElement(Tried, PrioPosition(regFixed[chan], CandidatePrio))
<1>1. /\ phase = "fixed" /\ phase' = phase /\ memFixed[chan] # <<>>
      /\ regFixed' = [regFixed EXCEPT ![chan] = back]
      /\ UNCHANGED <<chan, strings, fpages, needMem, maxBytes, newList>>
  BY DEF PutBackFixed, TryingFixed, numbering, budget
<1>2. Packing
  BY <1>1 DEF Packing
<1>3. chan \in Channel /\ newList = <<>>
  BY <1>2, PackingBudget
<1>4. LayoutEnd(back) = LayoutEnd(regFixed[chan])
  <2>1. Candidate \in SizedChunk /\ CandidatePrio \in Nat /\ regFixed[chan] \in Seq(SizedChunk)
    BY <1>1, <1>3, TriedType DEF TypeOK
  <2> QED BY <2>1, PutBackShape, Zenon DEF Tried
<1> HIDE DEF back
<1>5. \A c \in Channel : LayoutEnd(regFixed'[c]) = LayoutEnd(regFixed[c])
  <2>1. \A c \in Channel : regFixed'[c] = IF c = chan THEN back ELSE regFixed[c]
    BY <1>1 DEF TypeOK
  <2> QED BY <1>4, <2>1
<1>6. ~Marshalled' /\ \A c \in Channel : (Waiting(c)' => Waiting(c)) /\ (Packed(c)' => Packed(c))
  BY <1>1 DEF Marshalled, Waiting, Packed, Packing, AllPacked
<1> QED BY <1>1, <1>3, <1>5, <1>6, QuietStep

(* The steps that do not touch the registers of any channel.               *)
LEMMA BudgetQuiet ==
  ASSUME TypeOK, BudgetInv,
         \/ SkipFixed \/ EndFixedPass \/ MoveVariable \/ PassVariable
         \/ EndVariablePass \/ NoRegisterBuffer \/ CollectBuffer
  PROVE  BudgetInv'
<1>1. /\ UNCHANGED <<chan, regFixed, strings, fpages, needMem, maxBytes, newList>>
      /\ \/ Packing /\ Packing'
         \/ phase = "collect" /\ phase' = "collect"
  BY DEF SkipFixed, EndFixedPass, MoveVariable, PassVariable, EndVariablePass, NoRegisterBuffer,
         CollectBuffer, TryingFixed, Packing, lists, budget, numbering
<1>2. newList = <<>> /\ newList' = <<>>
  BY <1>1 DEF BudgetInv, Packing
<1>3. ~Marshalled' /\ \A c \in Channel : (Waiting(c)' => Waiting(c)) /\ (Packed(c)' => Packed(c))
  BY <1>1 DEF Marshalled, Waiting, Packed, Packing, AllPacked
<1> QED BY <1>1, <1>2, <1>3, QuietStep

(* The next channel, with the numbers of the map items given.              *)
LEMMA BudgetLayoutMemory == TypeOK /\ BudgetInv /\ LayoutMemory => BudgetInv'
<1> SUFFICES ASSUME TypeOK, BudgetInv, LayoutMemory  PROVE BudgetInv'
  OBVIOUS
<1>1. /\ phase = "memory"
      /\ fpages' = [fpages EXCEPT ![chan] = Numbered(@)]
      /\ Advance("budget", "collect")
      /\ UNCHANGED <<regFixed, strings, needMem, maxBytes, newList>>
  BY DEF LayoutMemory, budget, numbering
<1>2. chan \in Channel /\ newList = <<>>
  BY <1>1, PackingBudget DEF Packing
<1>3. \A c \in Channel : Len(fpages'[c]) = Len(fpages[c])
  <2>1. Len(Numbered(fpages[chan])) = Len(fpages[chan])
    <3>1. fpages[chan] \in Seq(SizedChunk)
      BY <1>2 DEF TypeOK
    <3> QED BY <3>1, NumberedType, Zenon DEF SizedChunk
  <2>2. \A c \in Channel : fpages'[c] = IF c = chan THEN Numbered(fpages[chan]) ELSE fpages[c]
    BY <1>1 DEF TypeOK
  <2> QED BY <2>1, <2>2
<1>4. \A c \in Channel : c \in 0 .. NumExceptions + 1
  BY DEF Channel
<1>5. \/ chan = NumExceptions + 1 /\ phase' = "collect"
      \/ chan' = chan + 1 /\ phase' = "budget"
  BY <1>1 DEF Advance
<1>6. ASSUME NEW c \in Channel
      PROVE  (Waiting(c)' => Waiting(c)) /\ (Packed(c)' => Packed(c))
  <2>1. CASE chan = NumExceptions + 1 /\ phase' = "collect"
    BY <1>1, <1>2, <1>4, <2>1, ConnectionAssumption DEF Waiting, Packed, Packing, AllPacked
  <2>2. CASE chan' = chan + 1 /\ phase' = "budget"
    BY <1>1, <1>2, <1>4, <2>2, ConnectionAssumption DEF Waiting, Packed, Packing, AllPacked
  <2> QED BY <1>5, <2>1, <2>2
<1>7. ~Marshalled'
  BY <1>5 DEF Marshalled
<1> QED BY <1>1, <1>2, <1>3, <1>6, <1>7, QuietStep

(* The numbering of strings comes after the packing.                       *)
LEMMA BudgetCollectNext == TypeOK /\ BudgetInv /\ CollectNextChannel => BudgetInv'
<1> SUFFICES ASSUME TypeOK, BudgetInv, CollectNextChannel  PROVE BudgetInv'
  OBVIOUS
<1>1. /\ phase = "collect" /\ phase' \in {"collect", "number"}
      /\ UNCHANGED <<regFixed, strings, fpages, needMem, maxBytes, newList>>
  BY DEF CollectNextChannel, Advance, lists, budget
<1>2. newList = <<>> /\ newList' = <<>> /\ ~Marshalled'
  BY <1>1 DEF BudgetInv, Marshalled
<1>3. \A c \in Channel : (Waiting(c)' => Waiting(c)) /\ (Packed(c)' => Packed(c))
  BY <1>1 DEF Waiting, Packed, Packing, AllPacked
<1> QED BY <1>1, <1>2, <1>3, QuietStep

(* A string that moves to the new list is counted there.                   *)
LEMMA BudgetNumberString == TypeOK /\ BudgetInv /\ NumberString => BudgetInv'
<1> SUFFICES ASSUME TypeOK, BudgetInv, NumberString  PROVE BudgetInv'
  OBVIOUS
<1> DEFINE chunk == Head(strings[chan])
           index == WalkTo(buffers, chunk.id)
           numbered == [chunk EXCEPT !.buf = index]
<1>0. chan \in Channel /\ strings[chan] \in Seq(AnyChunk) /\ newList \in Seq(AnyChunk)
  BY DEF TypeOK
<1>1. /\ phase = "number" /\ phase' = phase /\ strings[chan] # <<>>
      /\ newList' = AddWithPrio(newList, numbered, index)
      /\ strings' = [strings EXCEPT ![chan] = Tail(@)]
      /\ UNCHANGED <<chan, regFixed, fpages, needMem, maxBytes>>
  BY DEF NumberString, budget
<1>2. Len(newList') = Len(newList) + 1
  <2>1. chunk \in AnyChunk
    BY <1>0, <1>1
  <2>2. index \in Nat /\ index \in Int
    BY WalkToType DEF TypeOK
  <2>3. numbered \in AnyChunk
    <3> HIDE DEF chunk, index
    <3> QED BY <2>1, <2>2, ChunkUpdate, Zenon DEF AnyChunk
  <2> HIDE DEF numbered, index
  <2> QED BY <1>0, <1>1, <2>2, <2>3, AddChunkType, Zenon DEF AnyChunk
<1> HIDE DEF numbered, index
<1>3. Len(strings[chan]) \in Nat /\ Len(strings'[chan]) = Len(strings[chan]) - 1
  <2>1. strings'[chan] = Tail(strings[chan])
    BY <1>0, <1>1 DEF TypeOK
  <2>2. Len(Tail(strings[chan])) = Len(strings[chan]) - 1 /\ Len(strings[chan]) \in Nat
    BY <1>0, <1>1
  <2> QED BY <2>1, <2>2
<1>4. ASSUME NEW c \in Channel  PROVE Items(c)' = Items(c)
  <2>1. CASE c = chan
    <3>1. Items(chan) = Len(strings[chan]) + Len(fpages[chan]) + Len(newList)
      BY DEF Items
    <3>2. Items(chan)' = Len(strings'[chan]) + Len(fpages[chan]) + Len(newList')
      BY <1>1 DEF Items
    <3>3. Len(fpages[chan]) \in Nat /\ Len(newList) \in Nat
      BY <1>0, LengthTypes
    <3>4. \A s, f, n \in Nat : s - 1 + f + (n + 1) = s + f + n
      OBVIOUS
    <3>5. Items(chan)' = Len(strings[chan]) - 1 + Len(fpages[chan]) + (Len(newList) + 1)
      BY <1>2, <1>3, <3>2
    <3>6. Items(chan)' = Items(chan)
      BY <1>3, <3>1, <3>3, <3>4, <3>5
    <3> QED BY <1>1, <2>1, <3>6 DEF Items
  <2>2. CASE c # chan
    BY <1>1, <2>2 DEF Items, TypeOK
  <2> QED BY <2>1, <2>2
<1>5. ASSUME NEW c \in Channel  PROVE WithinBudget(c)'
  <2>1. WithinBudget(c)
    BY <1>1 DEF BudgetInv, Packed, AllPacked
  <2>2. maxBytes'[c] = maxBytes[c] /\ MemItems(c)' = MemItems(c)
    BY <1>1 DEF MemItems
  <2>3. LayoutEnd(regFixed'[c]) <= maxBytes'[c]
    BY <1>1, <2>1 DEF WithinBudget
  <2> QED BY <1>4, <2>1, <2>2, <2>3, WithinBudgetKept
<1> QED BY <1>1, <1>5 DEF BudgetInv, Marshalled, Waiting, Packing

(* The renumbered strings replace the old ones one for one.                *)
LEMMA BudgetNumberNext == TypeOK /\ BudgetInv /\ NumberNextChannel => BudgetInv'
<1> SUFFICES ASSUME TypeOK, BudgetInv, NumberNextChannel  PROVE BudgetInv'
  OBVIOUS
<1>0. chan \in Channel /\ newList \in Seq(AnyChunk)
  BY DEF TypeOK
<1>1. /\ phase = "number" /\ phase' \in {"number", "done"} /\ strings[chan] = <<>>
      /\ newList' = <<>>
      /\ strings' = [strings EXCEPT ![chan] = Numbered(newList)]
      /\ UNCHANGED <<regFixed, fpages, needMem, maxBytes>>
  BY DEF NumberNextChannel, Advance, budget
<1>2. Len(Numbered(newList)) = Len(newList)
  BY <1>0, NumberedType, Zenon DEF AnyChunk
<1>3. ASSUME NEW c \in Channel  PROVE Items(c)' = Items(c)
  <2>1. Len(strings[c]) \in Nat /\ Len(fpages[c]) \in Nat /\ Len(newList) \in Nat
    BY LengthTypes
  <2>2. Items(c)' = Len(strings'[c]) + Len(fpages[c]) + 0
    BY <1>1 DEF Items
  <2>3. CASE c = chan
    <3>1. Items(c) = 0 + Len(fpages[c]) + Len(newList)
      BY <1>1, <2>3 DEF Items
    <3>2. Len(strings'[c]) = Len(newList)
      BY <1>0, <1>1, <1>2, <2>3 DEF TypeOK
    <3>3. \A f, n \in Nat : n + f + 0 = 0 + f + n
      OBVIOUS
    <3> QED BY <2>1, <2>2, <3>1, <3>2, <3>3
  <2>4. CASE c # chan
    <3>1. Items(c) = Len(strings[c]) + Len(fpages[c]) + 0
      BY <2>4 DEF Items
    <3>2. strings'[c] = strings[c]
      BY <1>1, <2>4 DEF TypeOK
    <3> QED BY <2>2, <3>1, <3>2
  <2> QED BY <2>3, <2>4
<1>4. ASSUME NEW c \in Channel  PROVE WithinBudget(c)'
  <2>1. WithinBudget(c)
    BY <1>1 DEF BudgetInv, Packed, AllPacked
  <2>2. maxBytes'[c] = maxBytes[c] /\ MemItems(c)' = MemItems(c)
    BY <1>1 DEF MemItems
  <2>3. LayoutEnd(regFixed'[c]) <= maxBytes'[c]
    BY <1>1, <2>1 DEF WithinBudget
  <2> QED BY <1>3, <2>1, <2>2, <2>3, WithinBudgetKept
<1> QED BY <1>1, <1>4 DEF BudgetInv, Marshalled, Waiting, Packing

(* No step of the back end breaks the budget.                              *)
LEMMA BudgetNext == TypeOK /\ BudgetInv /\ [Next]_vars => BudgetInv'
<1> SUFFICES ASSUME TypeOK, BudgetInv, [Next]_vars  PROVE BudgetInv'
  OBVIOUS
<1>1. CASE UNCHANGED vars
  <2>1. UNCHANGED <<phase, chan, regFixed, strings, fpages, needMem, maxBytes, newList>>
    BY <1>1 DEF vars, lists, budget, numbering
  <2>2. \A c \in Channel : WithinBudget(c) => WithinBudget(c)'
    BY <2>1 DEF WithinBudget, Items, MemItems
  <2> QED BY <2>1, <2>2 DEF BudgetInv, Marshalled, Waiting, Packed, Packing, AllPacked
<1>2. CASE TooManyItems
  BY <1>2 DEF TooManyItems, BudgetInv, Marshalled, Waiting, Packed, Packing, AllPacked, numbering
<1>3. CASE Finished
  BY <1>1, <1>3 DEF Finished
<1>4. CASE Step /\ ~TooManyItems
  BY <1>4, BudgetMarshal, BudgetAddTags, BudgetBeginChannel, BudgetTakeFixed,
     BudgetPutBackFixed, BudgetQuiet, BudgetAddRegisterBuffer, BudgetLayoutMemory,
     BudgetCollectNext, BudgetNumberString, BudgetNumberNext
     DEF Step, PackChannel, NumberBuffers
<1> QED BY <1>1, <1>2, <1>3, <1>4 DEF Next

-----------------------------------------------------------------------------
(* Results about the budget                                                *)

(* The inductive invariant holds throughout.                               *)
LEMMA BudgetInvariant == Spec => [](TypeOK /\ BudgetInv)
  BY TypeOKInit, TypeOKNext, BudgetInit, BudgetNext, PTL DEF Spec

(* At every step of the packing the register chunks of the channel stay    *)
(* within the bytes its typed items leave, whatever was taken, put back or *)
(* given up before.                                                        *)
THEOREM RegistersWithinBudget == Spec => []LayoutWithinBudget
<1>1. TypeOK /\ BudgetInv => LayoutWithinBudget
  <2> SUFFICES ASSUME TypeOK, BudgetInv, NEW c \in Channel,
                      phase \in {"fixed", "variable", "layout", "memory"}, c = chan
               PROVE  /\ LayoutEnd(regFixed[c]) <= maxBytes[c]
                      /\ maxBytes[c] + 2 * W * (Len(strings[c]) + Len(fpages[c])
                            + (IF needMem[c] THEN 1 ELSE 0)) <= AvailableMRs * W
    BY DEF LayoutWithinBudget
  <2>1. newList = <<>> /\ WithinBudget(c)
    BY PackingBudget DEF Packing
  <2>2. PICK words \in 0 .. AvailableMRs :
          /\ maxBytes[c] = words * W
          /\ LayoutEnd(regFixed[c]) <= maxBytes[c]
          /\ words + 2 * (Items(c) + MemItems(c)) <= AvailableMRs
    BY <2>1 DEF WithinBudget
  <2>3. Items(c) + MemItems(c) = Len(strings[c]) + Len(fpages[c]) + (IF needMem[c] THEN 1 ELSE 0)
    <3>1. Items(c) = Len(strings[c]) + Len(fpages[c]) + 0 /\ Len(strings[c]) \in Nat /\ Len(fpages[c]) \in Nat
      BY <2>1, LengthTypes DEF Items
    <3>2. \A s, f \in Nat : s + f + 0 = s + f
      OBVIOUS
    <3> QED BY <3>1, <3>2 DEF MemItems
  <2>4. Items(c) + MemItems(c) \in Nat /\ words \in Nat
    BY LengthTypes, ConnectionAssumption
  <2> DEFINE k == Items(c) + MemItems(c)
  <2>5. words * W + 2 * W * k <= AvailableMRs * W
    <3> HIDE DEF k
    <3>1. \A a, b, d \in Nat : a <= b => a * d <= b * d
      OBVIOUS
    <3>2. k \in Nat /\ words + 2 * k <= AvailableMRs /\ words + 2 * k \in Nat
      BY <2>2, <2>4 DEF k
    <3>3. (words + 2 * k) * W <= AvailableMRs * W
      BY <3>1, <3>2, ConnectionAssumption
    <3>4. (words + 2 * k) * W = words * W + 2 * W * k
      BY <2>4, <3>2, ConnectionAssumption
    <3> QED BY <3>3, <3>4
  <2> QED BY <2>2, <2>3, <2>5
<1> QED BY <1>1, BudgetInvariant, PTL

(* What fits a number of words still fits them when it is padded to words. *)
LEMMA AlignUpWithin ==
  ASSUME NEW bytes \in Nat, NEW words \in Nat, bytes <= words * W
  PROVE  AlignUp(bytes, W) <= words * W
<1> DEFINE q == (bytes + W - 1) \div W
<1>1. W \in Nat \ {0}
  BY ConnectionAssumption
<1>2. q \in Nat /\ q * W <= bytes + W - 1
  BY <1>1
<1>3. AlignUp(bytes, W) = q * W
  BY DEF AlignUp
<1> HIDE DEF q
<1>4. q * W < (words + 1) * W
  <2>1. (words + 1) * W = words * W + W /\ words * W \in Nat /\ q * W \in Nat
    BY <1>1, <1>2
  <2> QED BY <1>1, <1>2, <2>1
<1>5. q <= words
  <2>1. \A a, b, d \in Nat : a >= b => b * d <= a * d
    OBVIOUS
  <2>2. CASE q >= words + 1
    BY <1>1, <1>2, <1>4, <2>1, <2>2
  <2> QED BY <1>2, <2>2
<1>6. \A a, b, d \in Nat : a <= b => a * d <= b * d
  OBVIOUS
<1> QED BY <1>1, <1>2, <1>3, <1>5, <1>6

(* A budget that was kept is enough for what the message occupies.         *)
LEMMA BudgetFits == TypeOK /\ BudgetInv => MessageFitsRegisters
<1> SUFFICES ASSUME TypeOK, BudgetInv, Done, NEW c \in Channel, ~ReleasedTooEarly(c)
             PROVE  TypedPartStart(c) + W * TypedWords(c) <= (LastMR + 1) * W
  BY DEF MessageFitsRegisters
<1> DEFINE s == Len(strings[c])
           f == Len(fpages[c])
           t == Cardinality(TransferredStrings(c))
           mem == IF NeedsMem(c) THEN 1 ELSE 0
<1>1. newList = <<>> /\ WithinBudget(c)
  BY DEF BudgetInv, Done, Packed, AllPacked
<1>2. PICK words \in 0 .. AvailableMRs :
        /\ maxBytes[c] = words * W
        /\ LayoutEnd(regFixed[c]) <= maxBytes[c]
        /\ words + 2 * (Items(c) + MemItems(c)) <= AvailableMRs
  BY <1>1 DEF WithinBudget
<1>3. s \in Nat /\ f \in Nat /\ words \in Nat /\ LayoutEnd(regFixed[c]) \in Nat
      /\ MemItems(c) \in {0, 1}
  BY LengthTypes, ConnectionAssumption
<1>4. Items(c) = s + f
  <2>1. Items(c) = s + f + 0
    BY <1>1 DEF Items
  <2> HIDE DEF s, f
  <2> QED BY <1>3, <2>1
<1>5. t \in Nat /\ t <= s
  <2>1. TransferredStrings(c) \subseteq 1 .. s
    <3>1. DOMAIN strings[c] = 1 .. s
      BY DEF TypeOK
    <3>2. TransferredStrings(c) \subseteq DOMAIN strings[c]
      BY DEF TransferredStrings
    <3> QED BY <3>1, <3>2, Zenon
  <2> HIDE DEF s
  <2>2. IsFiniteSet(1 .. s) /\ Cardinality(1 .. s) = s
    <3>1. s \in Nat
      BY <1>3
    <3> QED BY <3>1, FS_Interval
  <2> QED BY <2>1, <2>2, FS_Subset, FS_CardinalityType
<1>6. mem \in {0, 1} /\ mem <= MemItems(c)
  BY DEF ReleasedTooEarly, MemItems
<1>7. TypedWords(c) = 2 * t + 2 * f + 2 * mem
  BY DEF TypedWords
<1>8. TypedPartStart(c) <= words * W /\ TypedPartStart(c) \in Nat
  <2>1. AlignUp(LayoutEnd(regFixed[c]), W) <= words * W
    BY <1>2, <1>3, AlignUpWithin
  <2>2. AlignUp(LayoutEnd(regFixed[c]), W) \in Nat
    BY <1>3, AlignUpType, ConnectionAssumption
  <2> QED BY <2>1, <2>2 DEF TypedPartStart
<1> HIDE DEF s, f, t, mem
<1> DEFINE k == 2 * t + 2 * f + 2 * mem
           m == MemItems(c)
<1>9. k \in Nat /\ words + k <= AvailableMRs
  <2>1. words + 2 * (s + f + m) <= AvailableMRs
    BY <1>2, <1>4
  <2> HIDE DEF m
  <2>2. m \in {0, 1} /\ mem <= m
    BY <1>3, <1>6 DEF m
  <2> QED BY <1>3, <1>5, <1>6, <2>1, <2>2, ConnectionAssumption
<1>10. words * W + W * k <= (LastMR + 1) * W
  <2> HIDE DEF k
  <2>1. \A a, b, d \in Nat : a <= b => a * d <= b * d
    OBVIOUS
  <2>2. words + k \in Nat /\ words + k <= LastMR + 1 /\ LastMR + 1 \in Nat
    BY <1>3, <1>9, ConnectionAssumption, RegisterAssumption DEF LastMR
  <2>3. (words + k) * W <= (LastMR + 1) * W
    BY <2>1, <2>2, ConnectionAssumption
  <2>4. (words + k) * W = words * W + W * k
    BY <1>3, <1>9, ConnectionAssumption
  <2> QED BY <2>3, <2>4
<1>11. TypedPartStart(c) + W * TypedWords(c) <= words * W + W * k
  <2>1. TypedWords(c) = k
    BY <1>7
  <2> HIDE DEF k
  <2>2. words * W \in Nat /\ W * k \in Nat
    BY <1>3, <1>9, ConnectionAssumption
  <2> QED BY <1>8, <2>1, <2>2
<1>12. TypedPartStart(c) + W * TypedWords(c) \in Int /\ words * W + W * k \in Int /\ (LastMR + 1) * W \in Int
  <2>1. TypedWords(c) = k /\ W \in Nat
    BY <1>7, ConnectionAssumption
  <2> HIDE DEF k
  <2> QED BY <1>3, <1>8, <1>9, <2>1 DEF LastMR
<1> QED BY <1>10, <1>11, <1>12

(* What the generated message occupies, typed items included, fits the     *)
(* message registers, unless the memory message was given up too early.    *)
THEOREM MessagesFit == Spec => []MessageFitsRegisters
  BY BudgetFits, BudgetInvariant, PTL

-----------------------------------------------------------------------------
(* Kernel messages: their comparison disturbs nothing that the rest of the *)
(* optimizer relies on, and an operation that gets past it is packed       *)
(* within the same bounds as any other.                                    *)


(* The types of what the comparison adds.                                  *)
KernelTypeOK ==
  /\ kid \in MessageID \cup {NotForKernel}
  /\ compared \in BOOLEAN
  /\ special \in Seq(SizedChunk)

(* At most one value is sent in the tag, and only that of a fault.         *)
TagHoldsPrivileges ==
  /\ ~compared => special = <<>>
  /\ Len(special) <= 1
  /\ special # <<>> => kid \in {pagefault, iopagefault}

KernelInv == TypeOK /\ BudgetInv /\ KernelTypeOK /\ TagHoldsPrivileges

-----------------------------------------------------------------------------
(* Steps with kernel messages                                              *)

(* Every step after the comparison is a step of the connection.            *)
LEMMA OtherStepsAreConnections ==
  ASSUME (Marshal \/ Distribute) \/ Finished
  PROVE  Next
  BY DEF Distribute, Next, Step

(* The comparison changes the phase at most, and the list of arguments.    *)
LEMMA CompareType ==
  ASSUME TypeOK, BudgetInv, phase = "marshal", phase' \in {"marshal", "malformed"},
         memFixed' \in [Channel -> Seq(SizedChunk)],
         UNCHANGED <<request, chunkID, regFixed, regVar, memVar, strings, fpages,
                     chan, budget, loop, cursor, numbering>>
  PROVE  TypeOK' /\ BudgetInv'
<1>1. TypeOK'
  BY DEF TypeOK, Final, request, budget, loop, numbering
<1>2. BudgetInv'
  BY DEF BudgetInv, Marshalled, Waiting, Packed, Packing, AllPacked, numbering
<1> QED BY <1>1, <1>2

(* An operation of the user's gets past the comparison unchanged.          *)
LEMMA KernelOrdinary == KernelInv /\ OrdinaryOperation => KernelInv'
<1> SUFFICES ASSUME KernelInv, OrdinaryOperation  PROVE KernelInv'
  OBVIOUS
<1>1. TypeOK' /\ BudgetInv'
  BY CompareType DEF KernelInv, OrdinaryOperation, Comparing, TypeOK
<1>2. KernelTypeOK' /\ TagHoldsPrivileges'
  BY DEF KernelInv, KernelTypeOK, TagHoldsPrivileges, OrdinaryOperation
<1> QED BY <1>1, <1>2 DEF KernelInv

(* The access rights are a chunk of the arguments before they are one of   *)
(* the tag.                                                                *)
LEMMA KernelPagefault ==
  ASSUME KernelInv, NEW k \in MessageID, AcceptPagefault(k)
  PROVE  KernelInv'
<1> DEFINE rest == RemoveElement(Args, 3)
<1>1. /\ phase = "marshal" /\ phase' = "marshal" /\ ~compared /\ compared' = TRUE
      /\ kid' = k /\ k \in {pagefault, iopagefault}
      /\ Len(Args) = 3
      /\ special' = AddLast(special, Args[3])
      /\ memFixed' = [memFixed EXCEPT ![CHANNEL_IN] = rest]
      /\ UNCHANGED <<request, chunkID, regFixed, regVar, memVar, strings, fpages,
                     chan, budget, loop, cursor, numbering>>
  BY DEF AcceptPagefault, ComparingKernelMessage, Comparing, PagefaultForm, TakePrivileges, Args
<1>2. CHANNEL_IN \in Channel /\ memFixed \in [Channel -> Seq(SizedChunk)]
  BY ChannelType DEF KernelInv, TypeOK
<1>3. Args \in Seq(SizedChunk)
  BY <1>2 DEF Args
<1>4. rest \in Seq(SizedChunk) /\ Args[3] \in SizedChunk
  <2>1. 3 \in 1 .. Len(Args)
    BY <1>1
  <2>2. Args[3] \in SizedChunk
    BY <1>3, <2>1
  <2>3. RemoveAt(Args, 3) \in Seq(SizedChunk)
    BY <1>3, <2>1, RemoveAtElements
  <2> QED BY <2>2, <2>3 DEF RemoveElement
<1> HIDE DEF rest
<1>5. memFixed' \in [Channel -> Seq(SizedChunk)]
  BY <1>1, <1>2, <1>4
<1>6. TypeOK' /\ BudgetInv'
  BY <1>1, <1>5, CompareType DEF KernelInv
<1>7. special' \in Seq(SizedChunk) /\ Len(special') = 1
  <2>1. special = <<>>
    BY <1>1 DEF KernelInv, TagHoldsPrivileges
  <2>2. special' = <<Args[3]>>
    BY <1>1, <2>1 DEF AddLast
  <2> QED BY <1>4, <2>2
<1>8. KernelTypeOK' /\ TagHoldsPrivileges'
  BY <1>1, <1>7 DEF KernelTypeOK, TagHoldsPrivileges
<1> QED BY <1>6, <1>8 DEF KernelInv

(* Other messages are accepted or refused as they are.                     *)
LEMMA KernelOther ==
  ASSUME KernelInv, NEW k \in MessageID, AcceptOther(k) \/ Refuse(k)
  PROVE  KernelInv'
<1>1. /\ phase = "marshal" /\ phase' \in {"marshal", "malformed"}
      /\ ~compared
      /\ kid' = k /\ special' = special /\ memFixed' = memFixed
      /\ UNCHANGED <<request, chunkID, regFixed, regVar, memVar, strings, fpages,
                     chan, budget, loop, cursor, numbering>>
  <2>1. CASE AcceptOther(k)
    BY <2>1 DEF AcceptOther, ComparingKernelMessage, Comparing
  <2>2. CASE Refuse(k)
    BY <2>2 DEF Refuse, ComparingKernelMessage, Comparing
  <2> QED BY <2>1, <2>2
<1>2. compared' \in BOOLEAN
  <2>1. compared \in BOOLEAN
    BY Zenon DEF KernelInv, KernelTypeOK
  <2>2. compared' = TRUE \/ compared' = compared
    BY Zenon DEF AcceptOther, Refuse
  <2> QED BY <2>1, <2>2
<1>3. TypeOK' /\ BudgetInv'
  BY <1>1, CompareType DEF KernelInv, TypeOK
<1>4. special = <<>>
  BY <1>1 DEF KernelInv, TagHoldsPrivileges
<1>5. KernelTypeOK' /\ TagHoldsPrivileges'
  BY <1>1, <1>2, <1>4 DEF KernelInv, KernelTypeOK, TagHoldsPrivileges
<1> QED BY <1>3, <1>5 DEF KernelInv

LEMMA KernelInvInit == KernelInit => KernelInv
<1> SUFFICES ASSUME KernelInit  PROVE KernelInv
  OBVIOUS
<1>1. TypeOK /\ BudgetInv
  BY TypeOKInit, BudgetInit DEF KernelInit
<1>2. special = <<>> /\ kid = NotForKernel
  BY DEF KernelInit
<1>3. compared \in BOOLEAN
  BY Zenon DEF KernelInit
<1>4. KernelTypeOK /\ TagHoldsPrivileges
  BY <1>2, <1>3 DEF KernelTypeOK, TagHoldsPrivileges
<1> QED BY <1>1, <1>4 DEF KernelInv

LEMMA KernelInvNext == KernelInv /\ [KernelNext]_<<vars, kernelVars>> => KernelInv'
<1> SUFFICES ASSUME KernelInv, [KernelNext]_<<vars, kernelVars>>  PROVE KernelInv'
  OBVIOUS
<1>1. CASE Compare
  BY <1>1, KernelOrdinary, KernelPagefault, KernelOther DEF Compare
<1>2. ASSUME [Next]_vars, UNCHANGED kernelVars  PROVE KernelInv'
  <2>1. TypeOK' /\ BudgetInv'
    BY <1>2, TypeOKNext, BudgetNext DEF KernelInv
  <2>2. KernelTypeOK' /\ TagHoldsPrivileges'
    BY <1>2 DEF KernelInv, KernelTypeOK, TagHoldsPrivileges, kernelVars
  <2> QED BY <2>1, <2>2 DEF KernelInv
<1>3. CASE (Marshal \/ Distribute) /\ UNCHANGED kernelVars
  BY <1>2, <1>3, OtherStepsAreConnections
<1>4. CASE Finished /\ UNCHANGED kernelVars
  BY <1>2, <1>4, OtherStepsAreConnections
<1>5. CASE UNCHANGED <<vars, kernelVars>>
  BY <1>2, <1>5
<1> QED BY <1>1, <1>3, <1>4, <1>5 DEF KernelNext, KernelStep

LEMMA KernelInvariant == KernelSpec => []KernelInv
  BY KernelInvInit, KernelInvNext, PTL DEF KernelSpec

-----------------------------------------------------------------------------
(* Results with kernel messages                                            *)

(* Whatever is compared, accepted or refused, and whatever the numbers of  *)
(* the messages: the lists hold chunks of their kind and the counters of   *)
(* the packing never drop below zero.                                      *)
THEOREM KernelTypeCorrect == KernelSpec => []TypeOK
<1>1. KernelInv => TypeOK
  BY DEF KernelInv
<1> QED BY <1>1, KernelInvariant, PTL

(* A kernel message that was accepted fits the message registers, like the *)
(* operations of users; the packing knows nothing of its form.             *)
THEOREM KernelMessagesFit == KernelSpec => []MessageFitsRegisters
<1>1. KernelInv => MessageFitsRegisters
  BY BudgetFits DEF KernelInv
<1> QED BY <1>1, KernelInvariant, PTL

(* Only a fault's access rights travel in the tag, and only once.          *)
THEOREM TagIsForPrivileges == KernelSpec => []TagHoldsPrivileges
<1>1. KernelInv => TagHoldsPrivileges
  BY DEF KernelInv
<1> QED BY <1>1, KernelInvariant, PTL

-----------------------------------------------------------------------------
(* The words announced cover the chunks placed                             *)

(* A prioritized chunk is the same chunk but for its priority.             *)
LEMMA PrioritizedChunk ==
  ASSUME NEW Sizes, NEW chunk \in ChunkOf(Sizes), NEW prio \in Nat
  PROVE  /\ Prioritized(chunk, prio) \in ChunkOf(Sizes)
         /\ Prioritized(chunk, prio).prio = prio
         /\ Prioritized(chunk, prio).id = chunk.id
         /\ Prioritized(chunk, prio).part = chunk.part
         /\ Prioritized(chunk, prio).size = chunk.size
         /\ Prioritized(chunk, prio).chans = chunk.chans
         /\ Prioritized(chunk, prio).xfer = chunk.xfer
         /\ Prioritized(chunk, prio).offset = chunk.offset
         /\ Prioritized(chunk, prio).buf = chunk.buf
  BY DEF ChunkOf, Prioritized

(* Where the elements of a list are after a chunk entered it by priority.  *)
LEMMA ChunkAdded ==
  ASSUME NEW list \in Seq(SizedChunk), NEW chunk \in SizedChunk, NEW prio \in Nat
  PROVE  /\ PrioPosition(list, prio) \in 1 .. Len(list) + 1
         /\ AddWithPrio(list, chunk, prio) \in Seq(SizedChunk)
         /\ Len(AddWithPrio(list, chunk, prio)) = Len(list) + 1
         /\ \A i \in 1 .. PrioPosition(list, prio) - 1 :
              AddWithPrio(list, chunk, prio)[i] = list[i]
         /\ AddWithPrio(list, chunk, prio)[PrioPosition(list, prio)].part = chunk.part
         /\ \A i \in PrioPosition(list, prio) .. Len(list) :
              AddWithPrio(list, chunk, prio)[i + 1] = list[i]
<1>1. /\ PrioPosition(list, prio) \in 1 .. Len(list) + 1
      /\ AddWithPrio(list, chunk, prio) \in Seq(SizedChunk)
      /\ Len(AddWithPrio(list, chunk, prio)) = Len(list) + 1
  BY AddChunkType, Zenon DEF SizedChunk
<1>2. Prioritized(chunk, prio) \in SizedChunk /\ Prioritized(chunk, prio).part = chunk.part
  BY PrioritizedChunk DEF SizedChunk
<1>3. \A S : \A q \in Seq(S) : Prioritized(chunk, prio) \in S =>
        /\ \A i \in 1 .. PrioPosition(q, prio) - 1 : AddWithPrio(q, chunk, prio)[i] = q[i]
        /\ AddWithPrio(q, chunk, prio)[PrioPosition(q, prio)] = Prioritized(chunk, prio)
        /\ \A i \in PrioPosition(q, prio) .. Len(q) : AddWithPrio(q, chunk, prio)[i + 1] = q[i]
  BY AddedElements
<1>4. /\ \A i \in 1 .. PrioPosition(list, prio) - 1 : AddWithPrio(list, chunk, prio)[i] = list[i]
      /\ AddWithPrio(list, chunk, prio)[PrioPosition(list, prio)] = Prioritized(chunk, prio)
      /\ \A i \in PrioPosition(list, prio) .. Len(list) :
           AddWithPrio(list, chunk, prio)[i + 1] = list[i]
  BY <1>2, <1>3, Zenon
<1>5. AddWithPrio(list, chunk, prio)[PrioPosition(list, prio)].part = chunk.part
  BY <1>2, <1>4, Zenon
<1> QED BY <1>1, <1>4, <1>5, Zenon

(* The layout puts every chunk right before the place where it ends, and   *)
(* changes nothing else about it.                                          *)
LEMMA LaidOutPlaces ==
  ASSUME NEW list \in Seq(SizedChunk)
  PROVE  /\ \A i \in 1 .. Len(list) :
              /\ LaidOut(list)[i].offset + LaidOut(list)[i].size = Ends(Shape(list))[i]
              /\ LaidOut(list)[i].part = list[i].part
         /\ LayoutEnd(LaidOut(list)) = LayoutEnd(list)
<1> DEFINE ends == Ends(Shape(list))
           placed(i) == [list[i] EXCEPT !.offset = ends[i] - list[i].size]
<1>1. Len(list) \in Nat /\ DOMAIN list = 1 .. Len(list)
  OBVIOUS
<1>2. LaidOut(list) = [i \in 1 .. Len(list) |-> placed(i)]
  BY <1>1, Zenon DEF LaidOut
<1>3. \A i \in 0 .. Len(list) : ends[i] \in Nat
  <2>1. Shape(list) \in Seq(Piece) /\ Len(Shape(list)) = Len(list)
    BY ShapeType
  <2>2. ends \in [0 .. Len(list) -> Nat]
    BY <2>1, EndsEquation
  <2> QED BY <2>2
<1>4. ASSUME NEW i \in 1 .. Len(list)
      PROVE  /\ placed(i).offset + placed(i).size = ends[i]
             /\ placed(i).part = list[i].part
  <2>1. list[i] \in ChunkOf(Nat)
    BY DEF SizedChunk
  <2>2. ends[i] \in Nat /\ list[i].size \in Nat
    BY <1>1, <1>3, <2>1, ChunkFields
  <2> HIDE DEF ends
  <2>3. /\ placed(i).offset = ends[i] - list[i].size
        /\ placed(i).size = list[i].size
        /\ placed(i).part = list[i].part
    BY <2>1 DEF ChunkOf
  <2> QED BY <2>2, <2>3
<1>5. LayoutEnd(LaidOut(list)) = LayoutEnd(list)
  <2>1. /\ LaidOut(list) \in Seq(SizedChunk) /\ Len(LaidOut(list)) = Len(list)
        /\ \A i \in 1 .. Len(list) :
             LaidOut(list)[i].size = list[i].size /\ LaidOut(list)[i].align = list[i].align
    BY LaidOutType
  <2>2. DOMAIN LaidOut(list) = 1 .. Len(list)
    BY <2>1
  <2>3. Shape(LaidOut(list)) = Shape(list)
    BY <1>1, <2>1, <2>2 DEF Shape
  <2> QED BY <2>1, <2>3 DEF LayoutEnd
<1> HIDE DEF ends, placed
<1>6. \A i \in 1 .. Len(list) : LaidOut(list)[i] = placed(i)
  BY <1>2
<1> QED BY <1>4, <1>5, <1>6 DEF ends

(* Rounding up keeps the order.                                            *)
LEMMA AlignUpMonotone ==
  ASSUME NEW a \in Nat, NEW b \in Nat, a <= b, NEW align \in Nat \ {0}
  PROVE  AlignUp(a, align) <= AlignUp(b, align)
<1> DEFINE p == (a + align - 1) \div align
           q == (b + align - 1) \div align
<1>1. /\ p \in Nat /\ p * align <= a + align - 1
      /\ q \in Nat /\ b + align - 1 < q * align + align
  OBVIOUS
<1>2. AlignUp(a, align) = p * align /\ AlignUp(b, align) = q * align
  BY DEF AlignUp
<1> HIDE DEF p, q
<1>3. p <= q
  <2>1. CASE p >= q + 1
    <3>1. \A x, y, d \in Nat : x >= y => y * d <= x * d
      OBVIOUS
    <3>2. (q + 1) * align <= p * align
      BY <1>1, <2>1, <3>1
    <3>3. (q + 1) * align = q * align + align /\ q * align \in Nat /\ p * align \in Nat
      BY <1>1
    <3> QED BY <1>1, <3>2, <3>3
  <2> QED BY <1>1, <2>1
<1>4. \A x, y, d \in Nat : x <= y => x * d <= y * d
  OBVIOUS
<1> QED BY <1>1, <1>2, <1>3, <1>4

(* A piece that is inserted moves those behind it, and never to the front. *)
LEMMA InsertedEnds ==
  ASSUME NEW short \in Seq(Piece), NEW long \in Seq(Piece),
         Len(long) = Len(short) + 1, NEW at \in 1 .. Len(short) + 1,
         \A i \in 1 .. at - 1 : long[i] = short[i],
         \A i \in at .. Len(short) : long[i + 1] = short[i]
  PROVE  /\ \A i \in 0 .. at - 1 : Ends(long)[i] = Ends(short)[i]
         /\ \A i \in at - 1 .. Len(short) : Ends(long)[i + 1] >= Ends(short)[i]
<1> DEFINE n == Len(short)
           s == Ends(short)
           l == Ends(long)
           G == {k \in Nat : k <= at - 1 => l[k] = s[k]}
           H == {k \in Nat : k \in at - 1 .. n => l[k + 1] >= s[k]}
<1>1. n \in Nat /\ at \in Nat /\ Len(long) = n + 1
  OBVIOUS
<1>2. /\ \A i \in 0 .. n : s[i] \in Nat
      /\ s[0] = 0
      /\ \A i \in 1 .. n : s[i] = AlignUp(s[i - 1], short[i].align) + short[i].size
  <2>1. s \in [0 .. n -> Nat]
    BY EndsEquation
  <2>2. \A i \in 0 .. n : s[i] \in Nat
    <3> HIDE DEF s, n
    <3> QED BY <2>1
  <2> QED BY <2>2, EndsEquation
<1>3. /\ \A i \in 0 .. n + 1 : l[i] \in Nat
      /\ l[0] = 0
      /\ \A i \in 1 .. n + 1 : l[i] = AlignUp(l[i - 1], long[i].align) + long[i].size
  <2>1. /\ Ends(long) \in [0 .. Len(long) -> Nat]
        /\ Ends(long)[0] = 0
        /\ \A i \in 1 .. Len(long) :
             Ends(long)[i] = AlignUp(Ends(long)[i - 1], long[i].align) + long[i].size
    BY EndsEquation
  <2>2. l \in [0 .. n + 1 -> Nat]
    BY <1>1, <2>1
  <2>3. \A i \in 0 .. n + 1 : l[i] \in Nat
    <3> HIDE DEF l, n
    <3> QED BY <2>2
  <2> QED BY <1>1, <2>1, <2>3
<1>4. /\ \A i \in 1 .. n : short[i].align \in Nat \ {0} /\ short[i].size \in Nat
      /\ \A i \in 1 .. n + 1 : long[i].align \in Nat \ {0} /\ long[i].size \in Nat
  <2>1. /\ \A i \in 1 .. n : short[i] \in Piece
        /\ \A i \in 1 .. n + 1 : long[i] \in Piece
    BY <1>1
  <2> QED BY <2>1 DEF Piece
<1>5. Nat \subseteq G
  <2>1. 0 \in G
    BY <1>2, <1>3
  <2>2. ASSUME NEW k \in Nat, k \in G  PROVE k + 1 \in G
    <3> SUFFICES ASSUME k + 1 <= at - 1  PROVE l[k + 1] = s[k + 1]
      OBVIOUS
    <3>1. l[k] = s[k]
      BY <2>2, <1>1
    <3>2. k + 1 \in 1 .. at - 1 /\ k + 1 \in 1 .. n /\ k + 1 \in 1 .. n + 1 /\ (k + 1) - 1 = k
      BY <1>1
    <3>3. long[k + 1] = short[k + 1]
      BY <3>2
    <3>4. s[k + 1] = AlignUp(s[k], short[k + 1].align) + short[k + 1].size
      BY <1>2, <3>2
    <3>5. l[k + 1] = AlignUp(l[k], long[k + 1].align) + long[k + 1].size
      BY <1>3, <3>2
    <3> QED BY <3>1, <3>3, <3>4, <3>5
  <2> HIDE DEF G
  <2> QED BY <2>1, <2>2, NatSetInduction
<1>6. \A i \in 0 .. at - 1 : l[i] = s[i]
  BY <1>5, <1>1
<1>7. Nat \subseteq H
  <2> HIDE DEF s, l
  <2>1. ASSUME NEW k \in Nat, k = at - 1  PROVE k \in H
    <3>1. k \in 0 .. at - 1 /\ k + 1 \in 1 .. n + 1 /\ k \in 0 .. n + 1 /\ (k + 1) - 1 = k
      BY <1>1, <2>1
    <3>2. l[k] = s[k] /\ l[k] \in Nat
      BY <1>3, <1>6, <3>1
    <3>3. l[k + 1] = AlignUp(l[k], long[k + 1].align) + long[k + 1].size
      BY <1>3, <3>1
    <3>4. AlignUp(l[k], long[k + 1].align) \in Nat /\ AlignUp(l[k], long[k + 1].align) >= l[k]
      BY <1>4, <3>1, <3>2, AlignUpType
    <3>5. long[k + 1].size \in Nat
      BY <1>4, <3>1
    <3> QED BY <3>2, <3>3, <3>4, <3>5
  <2>2. 0 \in H
    <3>1. CASE at - 1 = 0
      BY <2>1, <3>1
    <3>2. CASE at - 1 > 0
      BY <3>2
    <3> QED BY <1>1, <3>1, <3>2
  <2>3. ASSUME NEW k \in Nat, k \in H  PROVE k + 1 \in H
    <3>1. CASE k + 1 = at - 1
      BY <2>1, <3>1
    <3>2. CASE k + 1 # at - 1
      <4> SUFFICES ASSUME k + 1 \in at - 1 .. n  PROVE l[k + 2] >= s[k + 1]
        OBVIOUS
      <4>1. k \in at - 1 .. n /\ k + 1 \in at .. n /\ k + 2 \in 1 .. n + 1
            /\ k + 1 \in 1 .. n /\ (k + 2) - 1 = k + 1 /\ (k + 1) - 1 = k
            /\ k + 1 \in 0 .. n + 1 /\ k \in 0 .. n
        BY <1>1, <3>2
      <4>2. l[k + 1] >= s[k] /\ l[k + 1] \in Nat /\ s[k] \in Nat
        BY <1>2, <1>3, <2>3, <4>1
      <4>3. long[k + 2] = short[k + 1]
        <5>1. long[(k + 1) + 1] = short[k + 1] /\ (k + 1) + 1 = k + 2
          BY <4>1
        <5> QED BY <5>1
      <4>4. l[k + 2] = AlignUp(l[k + 1], long[k + 2].align) + long[k + 2].size
        BY <1>3, <4>1
      <4>5. s[k + 1] = AlignUp(s[k], short[k + 1].align) + short[k + 1].size
        BY <1>2, <4>1
      <4> DEFINE a == short[k + 1].align
                 z == short[k + 1].size
      <4>6. a \in Nat \ {0} /\ z \in Nat
        BY <1>4, <4>1
      <4>7. l[k + 2] = AlignUp(l[k + 1], a) + z /\ s[k + 1] = AlignUp(s[k], a) + z
        BY <4>3, <4>4, <4>5
      <4> HIDE DEF a, z
      <4>8. AlignUp(s[k], a) <= AlignUp(l[k + 1], a) /\ AlignUp(s[k], a) \in Nat
            /\ AlignUp(l[k + 1], a) \in Nat
        BY <4>2, <4>6, AlignUpMonotone, AlignUpType
      <4> QED BY <4>6, <4>7, <4>8
    <3> QED BY <3>1, <3>2
  <2> HIDE DEF H
  <2> QED BY <2>2, <2>3, NatSetInduction
<1>8. \A i \in at - 1 .. n : l[i + 1] >= s[i]
  BY <1>7, <1>1
<1> QED BY <1>6, <1>8

(* Some chunk of the list reaches as far as its layout, unless that is     *)
(* within the word of the tag.                                             *)
Covered(list) ==
  \/ LayoutEnd(list) <= W
  \/ \E i \in DOMAIN list : list[i].offset + list[i].size >= LayoutEnd(list)

(* The last chunk of a list that was just laid out does.                   *)
LEMMA LaidOutCovered ==
  ASSUME NEW list \in Seq(SizedChunk)
  PROVE  Covered(LaidOut(list))
<1> DEFINE laid == LaidOut(list)
           n == Len(list)
<1>1. n \in Nat
  OBVIOUS
<1>2. laid \in Seq(SizedChunk) /\ Len(laid) = n /\ LayoutEnd(laid) = LayoutEnd(list)
      /\ \A i \in 1 .. n : laid[i].offset + laid[i].size = Ends(Shape(list))[i]
  BY LaidOutType, LaidOutPlaces
<1>3. LayoutEnd(list) = Ends(Shape(list))[n]
  BY DEF LayoutEnd
<1>4. CASE n = 0
  <2>1. Ends(Shape(list))[0] = 0
    BY ShapeType, EndsEquation
  <2>2. LayoutEnd(laid) = 0
    BY <1>2, <1>3, <1>4, <2>1
  <2> HIDE DEF laid
  <2>3. LayoutEnd(laid) <= W
    BY <2>2, ConnectionAssumption
  <2>4. Covered(laid)
    BY <2>3 DEF Covered
  <2> QED BY <2>4 DEF laid
<1>5. CASE n # 0
  <2>1. n \in 1 .. n /\ n \in DOMAIN laid
    BY <1>1, <1>2, <1>5
  <2>2. laid[n].offset + laid[n].size = LayoutEnd(laid)
    BY <1>2, <1>3, <2>1
  <2>3. LayoutEnd(laid) \in Nat
    BY <1>2, LayoutEndType
  <2> HIDE DEF laid, n
  <2>4. laid[n].offset + laid[n].size >= LayoutEnd(laid)
    BY <2>2, <2>3
  <2>5. Covered(laid)
    BY <2>1, <2>4 DEF Covered
  <2> QED BY <2>5 DEF laid
<1> QED BY <1>4, <1>5

(* Taking the chunk tried last out again leaves the offsets of the others  *)
(* as they were with it: at least where they are without it.               *)
LEMMA PutBackCovered ==
  ASSUME NEW list \in Seq(SizedChunk), NEW chunk \in SizedChunk, NEW prio \in Nat
  PROVE  Covered(RemoveElement(LaidOut(AddWithPrio(list, chunk, prio)),
                               PrioPosition(list, prio)))
<1> DEFINE at == PrioPosition(list, prio)
           added == AddWithPrio(list, chunk, prio)
           laid == LaidOut(added)
           back == RemoveElement(laid, at)
           n == Len(list)
           s == Ends(Shape(list))
           l == Ends(Shape(added))
<1>1. n \in Nat
  OBVIOUS
<1>2. added \in Seq(SizedChunk) /\ Len(added) = n + 1 /\ at \in 1 .. n + 1
  BY AddChunkType, Zenon DEF SizedChunk
<1>3. /\ \A i \in 1 .. at - 1 : added[i] = list[i]
      /\ \A i \in at .. n : added[i + 1] = list[i]
  <2>1. Prioritized(chunk, prio) \in SizedChunk
    BY PrioritizedChunk DEF SizedChunk
  <2> HIDE DEF at, added
  <2>2. \A S : \A q \in Seq(S) : Prioritized(chunk, prio) \in S =>
          /\ \A i \in 1 .. PrioPosition(q, prio) - 1 : AddWithPrio(q, chunk, prio)[i] = q[i]
          /\ \A i \in PrioPosition(q, prio) .. Len(q) : AddWithPrio(q, chunk, prio)[i + 1] = q[i]
    BY AddedElements
  <2> QED BY <2>1, <2>2, Zenon DEF at, added
<1>4. LayoutEnd(back) = LayoutEnd(list)
  BY PutBackShape, Zenon
<1>5. LayoutEnd(list) = s[n] /\ LayoutEnd(list) \in Nat
  BY LayoutEndType DEF LayoutEnd
<1> HIDE DEF at, added
<1>6. /\ laid \in Seq(SizedChunk) /\ Len(laid) = n + 1
      /\ \A i \in 1 .. n + 1 : laid[i].offset + laid[i].size = l[i]
  BY <1>2, LaidOutType, LaidOutPlaces
<1>7. /\ \A i \in 0 .. at - 1 : l[i] = s[i]
      /\ \A i \in at - 1 .. n : l[i + 1] >= s[i]
  <2> DEFINE short == Shape(list)
             long == Shape(added)
  <2>1. /\ short \in Seq(Piece) /\ Len(short) = n
        /\ \A i \in 1 .. n : short[i] = [size |-> list[i].size, align |-> list[i].align]
    BY ShapeType DEF Shape
  <2>2. /\ long \in Seq(Piece) /\ Len(long) = n + 1
        /\ \A i \in 1 .. n + 1 : long[i] = [size |-> added[i].size, align |-> added[i].align]
    <3>1. DOMAIN added = 1 .. n + 1
      BY <1>2
    <3> QED BY <1>2, <3>1, ShapeType DEF Shape
  <2> HIDE DEF short, long
  <2>3. ASSUME NEW i \in 1 .. at - 1  PROVE long[i] = short[i]
    <3>1. i \in 1 .. n /\ i \in 1 .. n + 1
      BY <1>1, <1>2
    <3>2. added[i] = list[i]
      BY <1>3
    <3> QED BY <2>1, <2>2, <3>1, <3>2
  <2>4. ASSUME NEW i \in at .. n  PROVE long[i + 1] = short[i]
    <3>1. i \in 1 .. n /\ i + 1 \in 1 .. n + 1
      BY <1>1, <1>2
    <3>2. added[i + 1] = list[i]
      BY <1>3
    <3> QED BY <2>1, <2>2, <3>1, <3>2
  <2>5. at \in 1 .. Len(short) + 1
    BY <1>2, <2>1
  <2> QED BY <2>1, <2>2, <2>3, <2>4, <2>5, InsertedEnds DEF short, long
<1>8. /\ back \in Seq(SizedChunk) /\ Len(back) = n
      /\ \A i \in 1 .. at - 1 : back[i] = laid[i]
      /\ \A i \in at .. n : back[i] = laid[i + 1]
  <2>1. at \in 1 .. Len(laid) /\ Len(laid) - 1 = n
    BY <1>1, <1>2, <1>6
  <2>2. /\ RemoveAt(laid, at) \in Seq(SizedChunk)
        /\ Len(RemoveAt(laid, at)) = Len(laid) - 1
        /\ \A i \in 1 .. at - 1 : RemoveAt(laid, at)[i] = laid[i]
        /\ \A i \in at .. Len(laid) - 1 : RemoveAt(laid, at)[i] = laid[i + 1]
    BY <1>6, <2>1, RemoveAtElements, Zenon
  <2>3. back = RemoveAt(laid, at)
    BY DEF RemoveElement
  <2> HIDE DEF back
  <2> QED BY <2>1, <2>2, <2>3, Zenon
<1> HIDE DEF back, laid, s, l
<1>9. CASE n = 0
  <2>1. s[0] = 0
    BY ShapeType, EndsEquation DEF s
  <2> QED BY <1>4, <1>5, <1>9, <2>1, ConnectionAssumption DEF Covered, back, laid, added, at
<1>10. CASE n # 0
  <2>1. n \in 1 .. n /\ n \in DOMAIN back
    BY <1>1, <1>8, <1>10
  <2>2. back[n].offset + back[n].size >= s[n]
    <3>1. CASE at = n + 1
      <4>1. n \in 1 .. at - 1 /\ n \in 0 .. at - 1 /\ n \in 1 .. n + 1
        BY <1>1, <1>10, <3>1
      <4>2. back[n] = laid[n] /\ l[n] = s[n] /\ laid[n].offset + laid[n].size = l[n]
        BY <1>6, <1>7, <1>8, <4>1
      <4> QED BY <1>5, <4>2
    <3>2. CASE at # n + 1
      <4>1. n \in at .. n /\ n \in at - 1 .. n /\ n + 1 \in 1 .. n + 1
        BY <1>1, <1>2, <3>2
      <4>2. back[n] = laid[n + 1] /\ l[n + 1] >= s[n] /\ laid[n + 1].offset + laid[n + 1].size = l[n + 1]
        BY <1>6, <1>7, <1>8, <4>1
      <4> QED BY <4>2
    <3> QED BY <3>1, <3>2
  <2>3. Covered(back)
    BY <1>4, <1>5, <2>1, <2>2 DEF Covered
  <2> QED BY <2>3 DEF back, laid, added, at
<1> QED BY <1>9, <1>10

(* Every channel's register list is covered.                               *)
RegistersCovered == \A c \in Channel : Covered(regFixed[c])

(* There is nothing to cover in the beginning.                             *)
LEMMA CoveredInit == Init => RegistersCovered
<1> SUFFICES ASSUME Init, NEW c \in Channel  PROVE Covered(regFixed[c])
  BY DEF RegistersCovered
<1>1. regFixed[c] = <<>>
  BY DEF Init
<1> QED BY <1>1, LayoutEndOfTag, ConnectionAssumption DEF Covered

(* Lists grow by chunks that the layout puts at their end, and the layout  *)
(* that is taken back leaves no offset too small.                          *)
LEMMA CoveredNext ==
  TypeOK /\ BudgetInv /\ RegistersCovered /\ [Next]_vars => RegistersCovered'
<1> SUFFICES ASSUME TypeOK, BudgetInv, RegistersCovered, [Next]_vars, NEW c \in Channel
             PROVE  Covered(regFixed'[c])
  BY DEF RegistersCovered
<1>0. /\ chan \in Channel /\ regFixed \in [Channel -> Seq(SizedChunk)]
      /\ Covered(regFixed[c])
  BY DEF TypeOK, RegistersCovered
<1>1. CASE UNCHANGED regFixed
  BY <1>0, <1>1
<1>2. CASE AddTags
  <2>1. BudgetInv' /\ phase' = "budget" /\ chan' = chan /\ phase = "marshal"
    BY <1>2, BudgetAddTags DEF AddTags
  <2>2. chan = CHANNEL_IN
    BY <2>1 DEF BudgetInv, Marshalled
  <2>3. Waiting(c)'
    BY <2>1, <2>2, ChannelType DEF Waiting, CHANNEL_IN
  <2>4. LayoutEnd(regFixed'[c]) <= W
    BY <2>1, <2>3 DEF BudgetInv
  <2> QED BY <2>4 DEF Covered
<1>3. CASE TakeFixed
  <2>1. memFixed[chan] # <<>> /\ regFixed' = [regFixed EXCEPT ![chan] = Tried]
    BY <1>3 DEF TakeFixed, TryingFixed
  <2>2. Covered(Tried)
    <3>1. Candidate \in SizedChunk /\ CandidatePrio \in Nat /\ regFixed[chan] \in Seq(SizedChunk)
      BY <1>0, <2>1, TriedType
    <3>2. AddWithPrio(regFixed[chan], Candidate, CandidatePrio) \in Seq(SizedChunk)
      BY <3>1, AddChunkType, Zenon DEF SizedChunk
    <3> QED BY <3>2, LaidOutCovered DEF Tried
  <2> QED BY <1>0, <2>1, <2>2
<1>4. CASE PutBackFixed
  <2> DEFINE back == RemoveElement(Tried, PrioPosition(regFixed[chan], CandidatePrio))
  <2>1. memFixed[chan] # <<>> /\ regFixed' = [regFixed EXCEPT ![chan] = back]
    BY <1>4 DEF PutBackFixed, TryingFixed
  <2>2. Covered(back)
    <3>1. Candidate \in SizedChunk /\ CandidatePrio \in Nat /\ regFixed[chan] \in Seq(SizedChunk)
      BY <1>0, <2>1, TriedType
    <3> QED BY <3>1, PutBackCovered DEF Tried
  <2> HIDE DEF back
  <2> QED BY <1>0, <2>1, <2>2
<1>5. CASE AddRegisterBuffer
  <2> DEFINE varbuf == NewChunk(chunkID + 1, "varbuf", oldRemaining - remaining, W,
                                {chan}, TRUE)
             added == AddWithPrio(regFixed[chan], varbuf, 99)
  <2>1. regFixed' = [regFixed EXCEPT ![chan] = LaidOut(added)]
    BY <1>5 DEF AddRegisterBuffer
  <2>2. added \in Seq(SizedChunk)
    <3>1. chunkID + 1 \in Nat /\ oldRemaining - remaining \in Nat
      BY <1>5 DEF AddRegisterBuffer, TypeOK
    <3>2. "varbuf" \in Parts /\ {chan} \in SUBSET Channel /\ TRUE \in BOOLEAN /\ W \in Nat \ {0}
      BY <1>0, ConnectionAssumption DEF Parts
    <3>3. varbuf \in ChunkOf(Nat)
      BY <3>1, <3>2, NewChunkType, Zenon
    <3>4. 99 \in Nat /\ regFixed[chan] \in Seq(SizedChunk)
      BY <1>0
    <3> HIDE DEF varbuf
    <3> QED BY <3>3, <3>4, AddChunkType, Zenon DEF SizedChunk
  <2> HIDE DEF added
  <2>3. Covered(LaidOut(added))
    BY <2>2, LaidOutCovered
  <2> QED BY <1>0, <2>1, <2>3
<1>6. Next =>
        \/ UNCHANGED regFixed
        \/ AddTags \/ TakeFixed \/ PutBackFixed \/ AddRegisterBuffer
  BY DEF Next, Step, Marshal, PackChannel, NumberBuffers, Finished, vars, lists,
         SetOption, MarshalExceptionCode, GetFixedCopyChunk, GetUnboundedCopyChunk,
         GetBoundedCopyChunk, GetMapChunk, FixedCopyChunk, BeginChannel, TooManyItems,
         SkipFixed, EndFixedPass, MoveVariable, PassVariable, EndVariablePass,
         NoRegisterBuffer, LayoutMemory, CollectBuffer, CollectNextChannel,
         NumberString, NumberNextChannel
<1>7. CASE UNCHANGED vars
  BY <1>1, <1>7 DEF vars, lists
<1> QED BY <1>1, <1>2, <1>3, <1>4, <1>5, <1>6, <1>7

(* The greatest of a base and the ends of the chunks of a list.            *)
LEMMA ChunkEndsMax ==
  ASSUME NEW Sizes \in SUBSET Int, NEW list \in Seq(ChunkOf(Sizes)), NEW base \in Int
  PROVE  /\ Max({base} \cup ChunkEnds(list)) \in Int
         /\ Max({base} \cup ChunkEnds(list)) \in {base} \cup ChunkEnds(list)
         /\ Max({base} \cup ChunkEnds(list)) >= base
         /\ \A i \in DOMAIN list :
              Max({base} \cup ChunkEnds(list)) >= list[i].offset + list[i].size
<1> DEFINE ends == ChunkEnds(list)
           f == [i \in DOMAIN list |-> list[i].offset + list[i].size]
           S == {base} \cup ends
<1>1. Len(list) \in Nat /\ DOMAIN list = 1 .. Len(list)
  OBVIOUS
<1>2. \A i \in DOMAIN list : list[i].offset + list[i].size \in Int
  <2> TAKE i \in DOMAIN list
  <2>1. list[i] \in ChunkOf(Sizes)
    BY <1>1
  <2>2. list[i].offset \in Int /\ list[i].size \in Int
    BY <2>1 DEF ChunkOf
  <2> QED BY <2>2
<1>3. ends = {f[i] : i \in DOMAIN list}
  BY DEF ChunkEnds
<1>4. IsFiniteSet(DOMAIN list)
  BY <1>1, FS_Interval
<1>5. IsFiniteSet(ends)
  <2> HIDE DEF f, ends
  <2> QED BY <1>3, <1>4, FiniteValues
<1>6. ends \in SUBSET Int
  BY <1>2 DEF ChunkEnds
<1>7. S \in SUBSET Int /\ IsFiniteSet(S) /\ S # {}
  <2>1. IsFiniteSet({base})
    BY FS_Singleton
  <2> HIDE DEF ends
  <2> QED BY <1>5, <1>6, <2>1, FS_Union
<1>8. Max(S) \in S /\ \A y \in S : y <= Max(S)
  <2> HIDE DEF S
  <2> QED BY <1>7, MaxExists
<1>9. base \in S /\ \A i \in DOMAIN list : list[i].offset + list[i].size \in S
  BY DEF ChunkEnds
<1>10. Max(S) \in Int
  BY <1>7, <1>8
<1> QED BY <1>2, <1>8, <1>9, <1>10

(* A number of bytes that is a word at least, rounded up to words.         *)
LEMMA RoundedWords ==
  ASSUME NEW m \in Int, m >= W
  PROVE  AlignUp(m, W) = ((m - 1) \div W + 1) * W
<1>1. (m + W - 1) \div W = (m - 1) \div W + 1
  <2>1. m + W - 1 = (m - 1) + W
    BY ConnectionAssumption
  <2>2. \A a \in Int : (a + W) \div W = a \div W + 1
    <3> TAKE a \in Int
    <3> DEFINE q == a \div W
               r == (a + W) \div W
    <3>1. /\ q \in Int /\ q * W <= a /\ a < q * W + W
          /\ r \in Int /\ r * W <= a + W /\ a + W < r * W + W
      BY ConnectionAssumption
    <3> HIDE DEF q, r
    <3>2. (q + 1) * W = q * W + W /\ (r + 1) * W = r * W + W /\ (q + 2) * W = q * W + W + W
      BY ConnectionAssumption, <3>1
    <3>3. \A x, y \in Int : x >= y => x * W >= y * W
      <4> TAKE x, y \in Int
      <4> SUFFICES ASSUME x >= y  PROVE x * W >= y * W
        OBVIOUS
      <4>1. \A d \in Nat : (y + d) * W = y * W + d * W /\ d * W >= 0
        BY ConnectionAssumption
      <4>2. x - y \in Nat /\ y + (x - y) = x
        OBVIOUS
      <4> QED BY ConnectionAssumption, <4>1, <4>2
    <3> DEFINE qw == q * W
               rw == r * W
    <3>4. qw \in Int /\ rw \in Int
      BY ConnectionAssumption, <3>1
    <3>5. q + 1 < r + 1
      <4>1. CASE q + 1 >= r + 1
        <5>1. (q + 1) * W >= (r + 1) * W
          BY <3>1, <3>3, <4>1
        <5>2. qw + W >= rw + W
          BY <3>2, <5>1
        <5>3. rw + W > a + W /\ a >= qw
          BY <3>1
        <5> HIDE DEF qw, rw
        <5> QED BY ConnectionAssumption, <3>4, <5>2, <5>3
      <4> QED BY <3>1, <4>1
    <3>6. r < q + 2
      <4>1. CASE r >= q + 2
        <5>1. r * W >= (q + 2) * W
          BY <3>1, <3>3, <4>1
        <5>2. rw >= qw + W + W
          BY <3>2, <5>1
        <5>3. rw <= a + W /\ a < qw + W
          BY <3>1
        <5> HIDE DEF qw, rw
        <5> QED BY ConnectionAssumption, <3>4, <5>2, <5>3
      <4> QED BY <3>1, <4>1
    <3>7. r = q + 1
      BY <3>1, <3>5, <3>6
    <3> QED BY <3>7 DEF q, r
  <2>3. m - 1 \in Int
    OBVIOUS
  <2> QED BY <2>1, <2>2, <2>3
<1> QED BY <1>1 DEF AlignUp

(* The last byte of a covered list is at the end of its layout or behind.  *)
LEMMA CoveredReached ==
  ASSUME NEW list \in Seq(SizedChunk), Covered(list)
  PROVE  /\ Max({W} \cup ChunkEnds(list)) \in Int
         /\ Max({W} \cup ChunkEnds(list)) >= W
         /\ Max({W} \cup ChunkEnds(list)) >= LayoutEnd(list)
<1> DEFINE m == Max({W} \cup ChunkEnds(list))
           e == LayoutEnd(list)
<1>1. W \in Nat \ {0}
  BY ConnectionAssumption
<1>2. m \in Int /\ m >= W /\ \A i \in DOMAIN list : m >= list[i].offset + list[i].size
  <2>1. Nat \in SUBSET Int /\ list \in Seq(ChunkOf(Nat)) /\ W \in Int
    BY <1>1 DEF SizedChunk
  <2> QED BY <2>1, ChunkEndsMax
<1>3. e \in Nat
  BY LayoutEndType
<1>4. m >= e
  <2>1. CASE e <= W
    <3> HIDE DEF m, e
    <3> QED BY <1>1, <1>2, <1>3, <2>1
  <2>2. CASE \E i \in DOMAIN list : list[i].offset + list[i].size >= e
    <3>1. PICK i \in DOMAIN list : list[i].offset + list[i].size >= e
      BY <2>2
    <3>2. list[i].offset + list[i].size \in Int
      <4>1. list[i] \in ChunkOf(Nat)
        BY DEF SizedChunk
      <4>2. list[i].offset \in Int /\ list[i].size \in Int
        BY <4>1 DEF ChunkOf
      <4> QED BY <4>2
    <3>3. m >= list[i].offset + list[i].size
      BY <1>2
    <3> HIDE DEF m, e
    <3> QED BY <1>2, <1>3, <3>1, <3>2, <3>3
  <2> QED BY <2>1, <2>2 DEF Covered
<1> QED BY <1>2, <1>4

(* A number of words that is enough for the last byte of a covered list is *)
(* enough for the list padded to words.                                    *)
LEMMA CoveredWords ==
  ASSUME NEW list \in Seq(SizedChunk), Covered(list)
  PROVE  ((Max({W} \cup ChunkEnds(list)) - 1) \div W + 1) * W >= AlignUp(LayoutEnd(list), W)
<1> DEFINE m == Max({W} \cup ChunkEnds(list))
           e == LayoutEnd(list)
<1>1. W \in Nat \ {0}
  BY ConnectionAssumption
<1>2. m \in Int /\ m >= W /\ m >= e
  BY CoveredReached
<1>3. e \in Nat
  BY LayoutEndType
<1> HIDE DEF m, e
<1>4. m \in Nat
  BY <1>1, <1>2
<1>5. AlignUp(e, W) <= AlignUp(m, W)
  BY <1>1, <1>2, <1>3, <1>4, AlignUpMonotone
<1>6. AlignUp(m, W) = ((m - 1) \div W + 1) * W
  BY <1>2, RoundedWords
<1>7. AlignUp(m, W) \in Nat /\ AlignUp(e, W) \in Nat
  BY <1>1, <1>3, <1>4, AlignUpType
<1> QED BY <1>5, <1>6, <1>7 DEF m, e

(* No end of a layout lies behind the last one.                            *)
LEMMA EndsMonotone ==
  ASSUME NEW shape \in Seq(Piece), NEW i \in 0 .. Len(shape)
  PROVE  Ends(shape)[i] <= Ends(shape)[Len(shape)]
<1> DEFINE n == Len(shape)
           e == Ends(shape)
           G == {k \in Nat : i <= k /\ k <= n => e[i] <= e[k]}
<1>1. n \in Nat /\ i \in Nat /\ i <= n
  OBVIOUS
<1>2. /\ \A k \in 0 .. n : e[k] \in Nat
      /\ \A k \in 1 .. n : e[k] = AlignUp(e[k - 1], shape[k].align) + shape[k].size
  <2>1. e \in [0 .. n -> Nat]
    BY EndsEquation
  <2>2. \A k \in 0 .. n : e[k] \in Nat
    <3> HIDE DEF e, n
    <3> QED BY <2>1
  <2> QED BY <2>2, EndsEquation
<1>3. \A k \in 1 .. n : shape[k].align \in Nat \ {0} /\ shape[k].size \in Nat
  <2>1. \A k \in 1 .. n : shape[k] \in Piece
    BY <1>1
  <2> QED BY <2>1 DEF Piece
<1> HIDE DEF e
<1>4. 0 \in G
  BY <1>1, <1>2
<1>5. ASSUME NEW k \in Nat, k \in G  PROVE k + 1 \in G
  <2> SUFFICES ASSUME i <= k + 1, k + 1 <= n  PROVE e[i] <= e[k + 1]
    OBVIOUS
  <2>1. CASE i = k + 1
    BY <1>1, <1>2, <2>1
  <2>2. CASE i <= k
    <3>1. k + 1 \in 1 .. n /\ k \in 0 .. n /\ (k + 1) - 1 = k
      BY <1>1
    <3>2. e[i] <= e[k] /\ e[k] \in Nat /\ e[i] \in Nat
      BY <1>1, <1>2, <1>5, <2>2, <3>1
    <3>3. e[k + 1] = AlignUp(e[k], shape[k + 1].align) + shape[k + 1].size
      BY <1>2, <3>1
    <3>4. /\ AlignUp(e[k], shape[k + 1].align) \in Nat
          /\ AlignUp(e[k], shape[k + 1].align) >= e[k]
      BY <1>3, <3>1, <3>2, AlignUpType
    <3>5. shape[k + 1].size \in Nat
      BY <1>3, <3>1
    <3> QED BY <3>2, <3>3, <3>4, <3>5
  <2> QED BY <1>1, <2>1, <2>2
<1>6. n \in G
  <2> HIDE DEF G
  <2>1. Nat \subseteq G
    BY <1>4, <1>5, NatSetInduction
  <2> QED BY <1>1, <2>1
<1> QED BY <1>1, <1>6 DEF e

(* No chunk of the list ends behind its layout.                            *)
WithinLayout(list) ==
  \A i \in DOMAIN list : list[i].offset + list[i].size <= LayoutEnd(list)

(* None does in a list that was just laid out.                             *)
LEMMA LaidOutWithin ==
  ASSUME NEW list \in Seq(SizedChunk)
  PROVE  WithinLayout(LaidOut(list))
<1> DEFINE laid == LaidOut(list)
           n == Len(list)
           e == Ends(Shape(list))
<1>1. n \in Nat
  OBVIOUS
<1>2. laid \in Seq(SizedChunk) /\ Len(laid) = n /\ LayoutEnd(laid) = LayoutEnd(list)
      /\ \A i \in 1 .. n : laid[i].offset + laid[i].size = e[i]
  BY LaidOutType, LaidOutPlaces
<1>3. LayoutEnd(list) = e[n]
  BY DEF LayoutEnd
<1>4. \A i \in 1 .. n : e[i] <= e[n]
  <2>1. Shape(list) \in Seq(Piece) /\ Len(Shape(list)) = n
    BY ShapeType
  <2>2. \A i \in 1 .. n : i \in 0 .. Len(Shape(list))
    BY <1>1, <2>1
  <2> QED BY <2>1, <2>2, EndsMonotone
<1>5. DOMAIN laid = 1 .. n
  BY <1>2
<1> HIDE DEF laid, n, e
<1>6. WithinLayout(laid)
  BY <1>2, <1>3, <1>4, <1>5 DEF WithinLayout
<1> QED BY <1>6 DEF laid

(* The words for the last byte of such a list are those of the list padded *)
(* to words, if it is a word long at least.                                *)
LEMMA WithinWords ==
  ASSUME NEW list \in Seq(SizedChunk), Covered(list), WithinLayout(list), LayoutEnd(list) >= W
  PROVE  ((Max({W} \cup ChunkEnds(list)) - 1) \div W + 1) * W = AlignUp(LayoutEnd(list), W)
<1> DEFINE m == Max({W} \cup ChunkEnds(list))
           e == LayoutEnd(list)
<1>1. W \in Nat \ {0} /\ e \in Nat
  BY LayoutEndType, ConnectionAssumption
<1>2. m \in Int /\ m >= W /\ m >= e
  BY CoveredReached
<1>3. m \in {W} \cup ChunkEnds(list)
  <2>1. Nat \in SUBSET Int /\ list \in Seq(ChunkOf(Nat)) /\ W \in Int
    BY <1>1 DEF SizedChunk
  <2> QED BY <2>1, ChunkEndsMax
<1>4. \A k \in ChunkEnds(list) : k <= e
  BY DEF ChunkEnds, WithinLayout
<1> HIDE DEF m
<1>5. m <= e
  <2>1. CASE m = W
    BY <2>1
  <2>2. CASE m \in ChunkEnds(list)
    BY <1>4, <2>2
  <2> QED BY <1>3, <2>1, <2>2
<1> HIDE DEF e
<1>6. m = e
  BY <1>1, <1>2, <1>5
<1>7. AlignUp(m, W) = ((m - 1) \div W + 1) * W
  BY <1>2, RoundedWords
<1> QED BY <1>6, <1>7 DEF m, e

(* A chunk more does not make a layout shorter.                            *)
LEMMA LayoutGrows ==
  ASSUME NEW list \in Seq(SizedChunk), NEW chunk \in SizedChunk, NEW prio \in Nat
  PROVE  LayoutEnd(LaidOut(AddWithPrio(list, chunk, prio))) >= LayoutEnd(list)
<1> DEFINE at == PrioPosition(list, prio)
           added == AddWithPrio(list, chunk, prio)
           n == Len(list)
           short == Shape(list)
           long == Shape(added)
<1>1. n \in Nat
  OBVIOUS
<1>2. /\ added \in Seq(SizedChunk) /\ Len(added) = n + 1 /\ at \in 1 .. n + 1
      /\ \A i \in 1 .. at - 1 : added[i] = list[i]
      /\ \A i \in at .. n : added[i + 1] = list[i]
  BY ChunkAdded, Zenon
<1> HIDE DEF at, added
<1>4. /\ short \in Seq(Piece) /\ Len(short) = n
      /\ \A i \in 1 .. n : short[i] = [size |-> list[i].size, align |-> list[i].align]
  BY ShapeType DEF Shape
<1>5. /\ long \in Seq(Piece) /\ Len(long) = n + 1
      /\ \A i \in 1 .. n + 1 : long[i] = [size |-> added[i].size, align |-> added[i].align]
  <2>1. DOMAIN added = 1 .. n + 1
    BY <1>2
  <2> QED BY <1>2, <2>1, ShapeType DEF Shape
<1>6. LayoutEnd(LaidOut(added)) = Ends(long)[n + 1] /\ LayoutEnd(list) = Ends(short)[n]
  <2>1. LayoutEnd(LaidOut(added)) = LayoutEnd(added)
    BY <1>2, LaidOutPlaces
  <2> QED BY <1>2, <2>1 DEF LayoutEnd
<1> HIDE DEF short, long
<1>7. ASSUME NEW i \in 1 .. at - 1  PROVE long[i] = short[i]
  <2>1. i \in 1 .. n /\ i \in 1 .. n + 1
    BY <1>1, <1>2
  <2>2. added[i] = list[i]
    BY <1>2
  <2> QED BY <1>4, <1>5, <2>1, <2>2
<1>8. ASSUME NEW i \in at .. n  PROVE long[i + 1] = short[i]
  <2>1. i \in 1 .. n /\ i + 1 \in 1 .. n + 1
    BY <1>1, <1>2
  <2>2. added[i + 1] = list[i]
    BY <1>2
  <2> QED BY <1>4, <1>5, <2>1, <2>2
<1>9. at \in 1 .. Len(short) + 1 /\ n \in at - 1 .. Len(short)
  BY <1>1, <1>2, <1>4
<1>10. \A i \in at - 1 .. Len(short) : Ends(long)[i + 1] >= Ends(short)[i]
  BY <1>4, <1>5, <1>7, <1>8, <1>9, InsertedEnds
<1>11. Ends(long)[n + 1] >= Ends(short)[n]
  BY <1>9, <1>10
<1> QED BY <1>6, <1>11 DEF added

(* Chunks that are no shared buffers.                                      *)
DataChunk == {k \in SizedChunk : k.part # "varbuf"}

(* The shared buffer of a memory message is made when its channel has been *)
(* packed.                                                                 *)
NoBufferYet ==
  /\ \A c \in Channel :
       Marshalled \/ Waiting(c) \/ (phase = "fixed" /\ c = chan) => memFixed[c] \in Seq(DataChunk)
  /\ phase = "fixed" => processed \in Seq(DataChunk)

(* The layout of a channel in use begins with the word of its tag.         *)
TagLaidOut ==
  phase \notin {"options", "marshal", "malformed"} =>
    \A c \in Channel : InUse(c) => LayoutEnd(regFixed[c]) >= W

(* The fixed chunks of the pass that found no room so far.                 *)
HeldBack(c) == phase = "fixed" /\ c = chan /\ processed # <<>>

(* The chunks in registers are where their layout has them, unless one was *)
(* tried with them and left behind.                                        *)
PlacedInv ==
  \A c \in Channel : WithinLayout(regFixed[c]) \/ LeftBehind(c) \/ HeldBack(c)

(* There is nothing to place in the beginning.                             *)
LEMMA PlacedInit == Init => NoBufferYet /\ TagLaidOut /\ PlacedInv
<1> SUFFICES ASSUME Init  PROVE NoBufferYet /\ TagLaidOut /\ PlacedInv
  OBVIOUS
<1>1. phase = "options" /\ \A c \in Channel : regFixed[c] = <<>> /\ memFixed[c] = <<>>
  BY DEF Init
<1>2. <<>> \in Seq(DataChunk) /\ DOMAIN <<>> = {}
  OBVIOUS
<1>3. NoBufferYet
  BY <1>1, <1>2 DEF NoBufferYet
<1>4. TagLaidOut
  BY <1>1 DEF TagLaidOut
<1>5. PlacedInv
  BY <1>1, <1>2 DEF PlacedInv, WithinLayout
<1> QED BY <1>3, <1>4, <1>5

(* A chunk of data enters a list of such.                                  *)
LEMMA DataAdded ==
  ASSUME NEW list \in Seq(DataChunk), NEW id \in Nat, NEW part \in Parts \ {"varbuf"},
         NEW size \in Nat, NEW align \in Nat \ {0}, NEW chans \in SUBSET Channel,
         NEW xfer \in BOOLEAN, NEW prio \in Nat
  PROVE  /\ AddWithPrio(list, NewChunk(id, part, size, align, chans, xfer), prio) \in Seq(DataChunk)
         /\ AddLast(list, NewChunk(id, part, size, align, chans, xfer)) \in Seq(DataChunk)
<1> DEFINE chunk == NewChunk(id, part, size, align, chans, xfer)
<1>1. chunk \in ChunkOf(Nat) /\ chunk.part = part
  <2>1. chunk \in ChunkOf(Nat)
    BY NewChunkType, Zenon
  <2> QED BY <2>1 DEF NewChunk
<1> HIDE DEF chunk
<1>2. chunk \in DataChunk
  BY <1>1 DEF DataChunk, SizedChunk
<1>3. Prioritized(chunk, prio) \in DataChunk
  <2>1. Prioritized(chunk, prio) \in ChunkOf(Nat) /\ Prioritized(chunk, prio).part = part
    BY <1>1, PrioritizedChunk
  <2> QED BY <2>1 DEF DataChunk, SizedChunk
<1>4. AddWithPrio(list, chunk, prio) \in Seq(DataChunk)
  BY <1>3, AddedElements, Zenon
<1>5. AddLast(list, chunk) \in Seq(DataChunk)
  BY <1>2 DEF AddLast
<1> QED BY <1>4, <1>5 DEF chunk

(* Marshalling puts no shared buffers into the memory message.             *)
LEMMA NoBufferMarshal ==
  ASSUME TypeOK, NoBufferYet, Marshal
  PROVE  NoBufferYet'
<1>1. Marshalled /\ phase' = "marshal"
  BY DEF Marshal, SetOption, MarshalExceptionCode, GetFixedCopyChunk, GetUnboundedCopyChunk,
         GetBoundedCopyChunk, GetMapChunk, Marshalling, Marshalled
<1>2. /\ \A c \in Channel : memFixed[c] \in Seq(DataChunk)
      /\ chunkID + 1 \in Nat
  BY <1>1 DEF NoBufferYet, TypeOK
<1>3. ASSUME NEW chans \in SUBSET Channel, NEW size \in Nat, NEW align \in Nat \ {0},
             FixedCopyChunk(chans, size, align), NEW c \in Channel
      PROVE  memFixed'[c] \in Seq(DataChunk)
  <2> DEFINE chunk == NewChunk(chunkID + 1, "value", size, align, chans, TRUE)
  <2>1. \/ memFixed'[c] = memFixed[c]
        \/ memFixed'[c] = AddWithPrio(memFixed[c], chunk, AlignmentPrio(align))
    BY <1>3 DEF FixedCopyChunk
  <2>2. "value" \in Parts \ {"varbuf"} /\ AlignmentPrio(align) \in Nat /\ TRUE \in BOOLEAN
    BY AlignmentPrioType DEF Parts
  <2>3. AddWithPrio(memFixed[c], chunk, AlignmentPrio(align)) \in Seq(DataChunk)
    BY <1>2, <2>2, DataAdded, Zenon
  <2> QED BY <1>2, <2>1, <2>3
<1>4. ASSUME NEW c \in Channel  PROVE memFixed'[c] \in Seq(DataChunk)
  <2>1. CASE SetOption \/ GetUnboundedCopyChunk \/ GetMapChunk
    <3>1. memFixed' = memFixed
      BY <2>1 DEF SetOption, GetUnboundedCopyChunk, GetMapChunk, lists
    <3> QED BY <1>2, <3>1
  <2>2. CASE MarshalExceptionCode
    <3>1. FixedCopyChunk(AllOut, 4, W) /\ AllOut \in SUBSET Channel /\ 4 \in Nat /\ W \in Nat \ {0}
      BY <2>2, ChannelType, ConnectionAssumption DEF MarshalExceptionCode
    <3> QED BY <1>3, <3>1
  <2>3. CASE GetFixedCopyChunk
    <3> DEFINE p == sig.params[pos + 1]
    <3>1. FixedCopyChunk(p.chans, p.size, p.align) /\ Marshalling("fixed")
      BY <2>3 DEF GetFixedCopyChunk
    <3>2. p.chans \in SUBSET Channel /\ p.size \in Nat /\ p.align \in Nat \ {0}
      BY <3>1, NextParameter
    <3> QED BY <1>3, <3>1, <3>2
  <2>4. CASE GetBoundedCopyChunk
    <3> DEFINE p == sig.params[pos + 1]
               chunk == NewChunk(chunkID + 1, "count", W, W, p.chans, TRUE)
    <3>1. Marshalling("bounded")
      BY <2>4 DEF GetBoundedCopyChunk
    <3>2. p.chans \in SUBSET Channel /\ W \in Nat /\ W \in Nat \ {0}
      BY <3>1, NextParameter, ConnectionAssumption
    <3>3. memFixed'[c] = memFixed[c] \/ memFixed'[c] = AddLast(memFixed[c], chunk)
      BY <2>4 DEF GetBoundedCopyChunk
    <3>4. "count" \in Parts \ {"varbuf"} /\ TRUE \in BOOLEAN /\ 0 \in Nat
      BY DEF Parts
    <3>5. AddLast(memFixed[c], chunk) \in Seq(DataChunk)
      BY <1>2, <3>2, <3>4, DataAdded, Zenon
    <3> QED BY <1>2, <3>3, <3>5
  <2> QED BY <2>1, <2>2, <2>3, <2>4 DEF Marshal
<1> QED BY <1>1, <1>4 DEF NoBufferYet

(* Nor do the tags and the passes over the fixed chunks.                   *)
LEMMA NoBufferFixed ==
  ASSUME TypeOK, BudgetInv, NoBufferYet,
         AddTags \/ BeginChannel \/ TakeFixed \/ PutBackFixed \/ SkipFixed \/ EndFixedPass
  PROVE  NoBufferYet'
<1>0. chan \in Channel /\ \A c \in Channel : c \in Nat
  BY ChannelType DEF TypeOK
<1>1. CASE AddTags
  <2>1. Marshalled /\ phase' = "budget" /\ memFixed' = memFixed
    BY <1>1 DEF AddTags, Marshalled
  <2> QED BY <2>1 DEF NoBufferYet
<1>2. CASE BeginChannel
  <2>1. /\ phase = "budget" /\ phase' = "fixed" /\ chan' = chan
        /\ memFixed' = memFixed /\ processed' = <<>>
    BY <1>2 DEF BeginChannel, lists
  <2>2. ASSUME NEW c \in Channel, Marshalled' \/ Waiting(c)' \/ (phase' = "fixed" /\ c = chan')
        PROVE  memFixed'[c] \in Seq(DataChunk)
    <3>1. Waiting(c)
      BY <1>0, <2>1, <2>2 DEF Waiting, Marshalled, Packing
    <3> QED BY <2>1, <3>1 DEF NoBufferYet
  <2>3. <<>> \in Seq(DataChunk)
    OBVIOUS
  <2> QED BY <2>1, <2>2, <2>3 DEF NoBufferYet
<1>3. CASE TakeFixed \/ PutBackFixed \/ SkipFixed
  <2> DEFINE mine == memFixed[chan]
  <2>1. /\ phase = "fixed" /\ phase' = phase /\ chan' = chan
        /\ mine # <<>> /\ memFixed' = [memFixed EXCEPT ![chan] = Tail(mine)]
    BY <1>3 DEF TakeFixed, PutBackFixed, SkipFixed, TryingFixed
  <2>2. mine \in Seq(DataChunk) /\ processed \in Seq(DataChunk)
    BY <1>0, <2>1 DEF NoBufferYet
  <2>3. Tail(mine) \in Seq(DataChunk) /\ Candidate \in DataChunk
    BY <2>1, <2>2 DEF Candidate
  <2>4. ASSUME NEW c \in Channel, Marshalled' \/ Waiting(c)' \/ (phase' = "fixed" /\ c = chan')
        PROVE  memFixed'[c] \in Seq(DataChunk)
    <3>1. CASE c = chan
      BY <1>0, <2>1, <2>3, <3>1 DEF TypeOK
    <3>2. CASE c # chan
      <4>1. Waiting(c) /\ memFixed'[c] = memFixed[c]
        BY <1>0, <2>1, <2>4, <3>2 DEF Waiting, Marshalled, Packing, TypeOK
      <4> QED BY <4>1 DEF NoBufferYet
    <3> QED BY <3>1, <3>2
  <2>5. processed' \in Seq(DataChunk)
    <3>1. CASE TakeFixed
      BY <2>2, <3>1 DEF TakeFixed
    <3>2. CASE SkipFixed
      BY <2>2, <2>3, <3>2 DEF SkipFixed, AddLast
    <3>3. CASE PutBackFixed
      <4> DEFINE at == PrioPosition(regFixed[chan], CandidatePrio)
      <4>1. processed' = Append(processed, Tried[at])
        BY <3>3 DEF PutBackFixed, AddLast
      <4>2. /\ Candidate \in SizedChunk /\ CandidatePrio \in Nat
            /\ Tried \in Seq(SizedChunk) /\ at \in 1 .. Len(Tried)
            /\ regFixed[chan] \in Seq(SizedChunk)
        BY <1>0, <2>1, TriedType DEF TypeOK
      <4> DEFINE added == AddWithPrio(regFixed[chan], Candidate, CandidatePrio)
      <4>3. /\ added \in Seq(SizedChunk) /\ Len(added) = Len(regFixed[chan]) + 1
            /\ added[at].part = Candidate.part
        BY <4>2, ChunkAdded, Zenon
      <4> HIDE DEF at, added
      <4>4. Tried = LaidOut(added)
        BY DEF Tried, added
      <4>5. Len(Tried) = Len(added) /\ \A i \in 1 .. Len(added) : LaidOut(added)[i].part = added[i].part
        BY <4>3, <4>4, LaidOutType, LaidOutPlaces
      <4>6. Tried[at].part = Candidate.part /\ Tried[at] \in SizedChunk
        BY <4>2, <4>3, <4>4, <4>5
      <4>7. Tried[at] \in DataChunk
        BY <2>3, <4>6 DEF DataChunk
      <4> QED BY <2>2, <4>1, <4>7
    <3> QED BY <1>3, <3>1, <3>2, <3>3
  <2> QED BY <2>4, <2>5 DEF NoBufferYet
<1>4. CASE EndFixedPass
  <2>1. /\ phase = "fixed" /\ phase' \in {"fixed", "variable"} /\ chan' = chan
        /\ memFixed[chan] = <<>> /\ processed' = <<>>
        /\ memFixed' = [memFixed EXCEPT ![chan] = memFixed[chan] \o processed]
    BY <1>4 DEF EndFixedPass, Merge
  <2>2. processed \in Seq(DataChunk) /\ <<>> \in Seq(DataChunk)
    BY <2>1 DEF NoBufferYet
  <2>3. <<>> \o processed \in Seq(DataChunk)
    BY <2>2
  <2>4. ASSUME NEW c \in Channel, Marshalled' \/ Waiting(c)' \/ (phase' = "fixed" /\ c = chan')
        PROVE  memFixed'[c] \in Seq(DataChunk)
    <3>1. CASE c = chan
      BY <1>0, <2>1, <2>3, <3>1 DEF TypeOK
    <3>2. CASE c # chan
      <4>1. Waiting(c) /\ memFixed'[c] = memFixed[c]
        BY <1>0, <2>1, <2>4, <3>2 DEF Waiting, Marshalled, Packing, TypeOK
      <4> QED BY <4>1 DEF NoBufferYet
    <3> QED BY <3>1, <3>2
  <2> QED BY <2>1, <2>2, <2>4 DEF NoBufferYet
<1> QED BY <1>1, <1>2, <1>3, <1>4

(* Every step of the back end leaves the shared buffers to the end.        *)
LEMMA NoBufferNext == TypeOK /\ BudgetInv /\ NoBufferYet /\ [Next]_vars => NoBufferYet'
<1> SUFFICES ASSUME TypeOK, BudgetInv, NoBufferYet, [Next]_vars  PROVE NoBufferYet'
  OBVIOUS
<1>0. chan \in Channel /\ \A c \in Channel : c \in Nat
  BY ChannelType DEF TypeOK
<1>1. CASE UNCHANGED vars
  <2>1. UNCHANGED <<phase, chan, memFixed, processed>>
    BY <1>1 DEF vars, lists, loop
  <2> QED BY <2>1 DEF NoBufferYet, Marshalled, Waiting, Packing
<1>2. CASE TooManyItems \/ NumberBuffers
  <2>1. phase' \in {"too_many_items", "collect", "number", "done"}
    BY <1>2 DEF TooManyItems, NumberBuffers, CollectBuffer, CollectNextChannel, NumberString,
                NumberNextChannel, Advance
  <2> QED BY <2>1 DEF NoBufferYet, Marshalled, Waiting, Packing
<1>3. CASE MoveVariable \/ PassVariable \/ EndVariablePass \/ AddRegisterBuffer \/ NoRegisterBuffer
  <2>1. /\ phase \in {"variable", "layout"} /\ chan' = chan /\ memFixed' = memFixed
        /\ phase' \in {"variable", "layout", "memory", "varbuf_overflow"}
    BY <1>3 DEF MoveVariable, PassVariable, EndVariablePass, AddRegisterBuffer, NoRegisterBuffer, lists
  <2>2. ASSUME NEW c \in Channel, Waiting(c)'  PROVE memFixed'[c] \in Seq(DataChunk)
    <3>1. Waiting(c)
      BY <2>1, <2>2 DEF Waiting, Packing
    <3> QED BY <2>1, <3>1 DEF NoBufferYet
  <2> QED BY <2>1, <2>2 DEF NoBufferYet, Marshalled
<1>4. CASE LayoutMemory
  <2>1. /\ phase = "memory"
        /\ \A c \in Channel : c # chan => memFixed'[c] = memFixed[c]
        /\ \/ phase' = "collect"
           \/ chan' = chan + 1 /\ phase' = "budget"
    BY <1>4 DEF LayoutMemory, Advance, TypeOK
  <2>2. ASSUME NEW c \in Channel, Waiting(c)'  PROVE memFixed'[c] \in Seq(DataChunk)
    <3>1. Waiting(c) /\ c # chan
      BY <1>0, <2>1, <2>2 DEF Waiting, Packing
    <3> QED BY <2>1, <3>1 DEF NoBufferYet
  <2> QED BY <2>1, <2>2 DEF NoBufferYet, Marshalled
<1>5. CASE Marshal
  BY <1>5, NoBufferMarshal
<1>6. CASE AddTags \/ BeginChannel \/ TakeFixed \/ PutBackFixed \/ SkipFixed \/ EndFixedPass
  BY <1>6, NoBufferFixed
<1> QED BY <1>1, <1>2, <1>3, <1>4, <1>5, <1>6 DEF Next, Step, Finished, PackChannel

(* A step that leaves the layouts and the use of the channels alone.       *)
LEMMA TagStays ==
  ASSUME TagLaidOut, phase \notin {"options", "marshal", "malformed"},
         UNCHANGED <<sig, regFixed>>
  PROVE  TagLaidOut'
  BY DEF TagLaidOut, InUse

(* Every step of the back end keeps the tag in the layout.                 *)
LEMMA TagNext == TypeOK /\ BudgetInv /\ TagLaidOut /\ [Next]_vars => TagLaidOut'
<1> SUFFICES ASSUME TypeOK, BudgetInv, TagLaidOut, [Next]_vars  PROVE TagLaidOut'
  OBVIOUS
<1>0. /\ chan \in Channel /\ regFixed \in [Channel -> Seq(SizedChunk)]
      /\ W \in Nat \ {0} /\ 99 \in Nat
  BY ConnectionAssumption DEF TypeOK
<1>1. CASE Marshal
  <2>1. phase' = "marshal"
    BY <1>1 DEF Marshal, SetOption, MarshalExceptionCode, GetFixedCopyChunk, GetUnboundedCopyChunk,
         GetBoundedCopyChunk, GetMapChunk, Marshalling
  <2> QED BY <2>1 DEF TagLaidOut
<1>2. CASE AddTags
  <2> DEFINE used == IF sig.oneway THEN Channel \ {CHANNEL_OUT} ELSE Channel
             rank(c) == IF sig.oneway /\ c > CHANNEL_OUT THEN c ELSE c + 1
             tag(c) == NewChunk(chunkID + rank(c), "tag", W, W, {c}, FALSE)
  <2>1. /\ phase = "marshal" /\ sig' = sig
        /\ regFixed' = [c \in Channel |-> IF c \in used THEN Append(regFixed[c], tag(c)) ELSE regFixed[c]]
    BY <1>2 DEF AddTags, AddLast, request
  <2>2. ASSUME NEW c \in Channel, ~(sig.oneway /\ c = CHANNEL_OUT)
        PROVE  LayoutEnd(regFixed'[c]) >= W
    <3>1. regFixed[c] = <<>>
      BY <2>1 DEF BudgetInv, Marshalled
    <3>2. c \in used
      BY <2>2
    <3>3. regFixed'[c] = <<tag(c)>>
      <4>1. \A x : Append(<<>>, x) = <<x>>
        OBVIOUS
      <4> HIDE DEF tag, used
      <4>2. regFixed'[c] = Append(<<>>, tag(c))
        BY <2>1, <3>1, <3>2
      <4> QED BY <4>1, <4>2, Zenon
    <3>4. tag(c) \in SizedChunk
      <4>1. chunkID + rank(c) \in Nat
        BY ChannelType DEF TypeOK
      <4>2. "tag" \in Parts /\ W \in Nat /\ W \in Nat \ {0} /\ {c} \in SUBSET Channel /\ FALSE \in BOOLEAN
        BY <1>0 DEF Parts
      <4> HIDE DEF rank
      <4> QED BY <4>1, <4>2, NewChunkType, Zenon DEF SizedChunk
    <3>5. tag(c).size = W /\ tag(c).align = W
      BY DEF NewChunk
    <3> HIDE DEF tag
    <3>6. LayoutEnd(<<tag(c)>>) = W
      BY <3>4, <3>5, LayoutEndOfTag
    <3> QED BY <1>0, <3>3, <3>6
  <2> QED BY <2>1, <2>2 DEF TagLaidOut, InUse
<1>3. ASSUME NEW list, regFixed' = [regFixed EXCEPT ![chan] = list], sig' = sig,
             LayoutEnd(list) \in Nat, LayoutEnd(list) >= LayoutEnd(regFixed[chan]),
             phase \notin {"options", "marshal", "malformed"}
      PROVE  TagLaidOut'
  <2> SUFFICES ASSUME NEW c \in Channel, InUse(c)  PROVE LayoutEnd(regFixed'[c]) >= W
    BY <1>3 DEF TagLaidOut, InUse
  <2>1. LayoutEnd(regFixed[c]) >= W
    BY <1>3 DEF TagLaidOut
  <2>2. CASE c = chan
    <3>1. regFixed'[c] = list /\ LayoutEnd(regFixed[c]) \in Nat
      BY <1>0, <1>3, <2>2, LayoutEndType
    <3> QED BY <1>0, <1>3, <2>1, <2>2, <3>1
  <2>3. CASE c # chan
    BY <1>0, <1>3, <2>1, <2>3
  <2> QED BY <2>2, <2>3
<1>4. CASE TakeFixed \/ PutBackFixed
  <2> DEFINE back == RemoveElement(Tried, PrioPosition(regFixed[chan], CandidatePrio))
  <2>1. /\ memFixed[chan] # <<>> /\ phase = "fixed" /\ sig' = sig
        /\ \/ regFixed' = [regFixed EXCEPT ![chan] = Tried]
           \/ regFixed' = [regFixed EXCEPT ![chan] = back]
    BY <1>4 DEF TakeFixed, PutBackFixed, TryingFixed, request
  <2>2. Candidate \in SizedChunk /\ CandidatePrio \in Nat /\ regFixed[chan] \in Seq(SizedChunk)
        /\ Tried \in Seq(SizedChunk)
    BY <1>0, <2>1, TriedType
  <2>3. LayoutEnd(Tried) >= LayoutEnd(regFixed[chan]) /\ LayoutEnd(Tried) \in Nat
    BY <2>2, LayoutGrows, LayoutEndType DEF Tried
  <2>4. LayoutEnd(back) >= LayoutEnd(regFixed[chan]) /\ LayoutEnd(back) \in Nat
    <3>1. LayoutEnd(back) = LayoutEnd(regFixed[chan])
      BY <2>2, PutBackShape DEF Tried
    <3>2. LayoutEnd(regFixed[chan]) \in Nat
      BY <2>2, LayoutEndType
    <3> HIDE DEF back
    <3> QED BY <3>1, <3>2
  <2> HIDE DEF back
  <2> QED BY <1>3, <2>1, <2>3, <2>4
<1>5. CASE AddRegisterBuffer
  <2> DEFINE varbuf == NewChunk(chunkID + 1, "varbuf", oldRemaining - remaining, W,
                                {chan}, TRUE)
             added == AddWithPrio(regFixed[chan], varbuf, 99)
  <2>1. regFixed' = [regFixed EXCEPT ![chan] = LaidOut(added)] /\ phase = "layout" /\ sig' = sig
    BY <1>5 DEF AddRegisterBuffer, request
  <2>2. varbuf \in SizedChunk /\ regFixed[chan] \in Seq(SizedChunk)
    <3>1. chunkID + 1 \in Nat /\ oldRemaining - remaining \in Nat
      BY <1>5 DEF AddRegisterBuffer, TypeOK
    <3>2. "varbuf" \in Parts /\ {chan} \in SUBSET Channel /\ TRUE \in BOOLEAN /\ W \in Nat \ {0}
      BY <1>0 DEF Parts
    <3>3. varbuf \in ChunkOf(Nat)
      BY <3>1, <3>2, NewChunkType, Zenon
    <3> HIDE DEF varbuf
    <3> QED BY <1>0, <3>3 DEF SizedChunk
  <2> HIDE DEF varbuf
  <2>3. LayoutEnd(LaidOut(added)) >= LayoutEnd(regFixed[chan])
    BY <1>0, <2>2, LayoutGrows
  <2>4. added \in Seq(SizedChunk)
    BY <1>0, <2>2, AddChunkType, Zenon DEF SizedChunk
  <2> HIDE DEF added
  <2>5. LayoutEnd(LaidOut(added)) \in Nat
    BY <2>4, LaidOutType, LayoutEndType
  <2> QED BY <1>3, <2>1, <2>3, <2>5
<1>6. CASE UNCHANGED vars
  <2>1. UNCHANGED <<phase, sig, regFixed>>
    BY <1>6 DEF vars, request, lists
  <2> QED BY <2>1 DEF TagLaidOut, InUse
<1>7. PackChannel =>
        \/ TakeFixed \/ PutBackFixed \/ AddRegisterBuffer
        \/ UNCHANGED <<sig, regFixed>> /\ phase \notin {"options", "marshal", "malformed"}
  BY DEF PackChannel, request, lists, BeginChannel, TooManyItems, TryingFixed,
         SkipFixed, EndFixedPass, MoveVariable, PassVariable, EndVariablePass,
         NoRegisterBuffer, LayoutMemory
<1>8. NumberBuffers =>
        UNCHANGED <<sig, regFixed>> /\ phase \notin {"options", "marshal", "malformed"}
  BY DEF NumberBuffers, request, lists, CollectBuffer, CollectNextChannel,
         NumberString, NumberNextChannel
<1> QED BY <1>1, <1>2, <1>4, <1>5, <1>6, <1>7, <1>8, TagStays DEF Next, Step, Finished

(* A step that leaves the registers alone and loses no chunk that was left *)
(* behind or is held back.                                                 *)
LEMMA PlacedStays ==
  ASSUME PlacedInv, UNCHANGED regFixed,
         \A c \in Channel : LeftBehind(c) => LeftBehind(c)' \/ HeldBack(c)',
         \A c \in Channel : HeldBack(c) => LeftBehind(c)' \/ HeldBack(c)'
  PROVE  PlacedInv'
  BY DEF PlacedInv, WithinLayout

(* Every step of the back end places chunks where their layout has them,   *)
(* or leaves one behind.                                                   *)
LEMMA PlacedNext ==
  TypeOK /\ BudgetInv /\ NoBufferYet /\ PlacedInv /\ [Next]_vars => PlacedInv'
<1> SUFFICES ASSUME TypeOK, BudgetInv, NoBufferYet, PlacedInv, [Next]_vars  PROVE PlacedInv'
  OBVIOUS
<1>0. /\ chan \in Channel /\ regFixed \in [Channel -> Seq(SizedChunk)]
      /\ memFixed \in [Channel -> Seq(SizedChunk)] /\ processed \in Seq(SizedChunk)
      /\ W \in Nat \ {0} /\ 99 \in Nat
  BY ConnectionAssumption DEF TypeOK
<1>1. CASE Marshal
  <2>1. Marshalled /\ regFixed' = regFixed
    BY <1>1 DEF Marshal, SetOption, MarshalExceptionCode, GetFixedCopyChunk, GetUnboundedCopyChunk,
         GetBoundedCopyChunk, GetMapChunk, FixedCopyChunk, Marshalling, Marshalled, lists
  <2>2. \A c \in Channel : regFixed'[c] = <<>>
    BY <2>1 DEF BudgetInv
  <2>3. DOMAIN <<>> = {}
    OBVIOUS
  <2> QED BY <2>2, <2>3 DEF PlacedInv, WithinLayout
<1>2. CASE AddTags
  <2> DEFINE used == IF sig.oneway THEN Channel \ {CHANNEL_OUT} ELSE Channel
             rank(c) == IF sig.oneway /\ c > CHANNEL_OUT THEN c ELSE c + 1
             tag(c) == NewChunk(chunkID + rank(c), "tag", W, W, {c}, FALSE)
  <2>1. /\ phase = "marshal"
        /\ regFixed' = [c \in Channel |-> IF c \in used THEN Append(regFixed[c], tag(c)) ELSE regFixed[c]]
    BY <1>2 DEF AddTags, AddLast
  <2>2. ASSUME NEW c \in Channel  PROVE WithinLayout(regFixed'[c])
    <3>1. regFixed[c] = <<>>
      BY <2>1 DEF BudgetInv, Marshalled
    <3>2. CASE c \notin used
      <4>1. regFixed'[c] = <<>>
        <5> HIDE DEF tag, used
        <5> QED BY <2>1, <3>1, <3>2
      <4> QED BY <4>1 DEF WithinLayout
    <3>3. CASE c \in used
      <4>1. regFixed'[c] = <<tag(c)>>
        <5>1. \A x : Append(<<>>, x) = <<x>>
          OBVIOUS
        <5> HIDE DEF tag, used
        <5>2. regFixed'[c] = Append(<<>>, tag(c))
          BY <2>1, <3>1, <3>3
        <5> QED BY <5>1, <5>2, Zenon
      <4>2. tag(c) \in SizedChunk
        <5>1. chunkID + rank(c) \in Nat
          BY ChannelType DEF TypeOK
        <5>2. "tag" \in Parts /\ W \in Nat /\ W \in Nat \ {0} /\ {c} \in SUBSET Channel /\ FALSE \in BOOLEAN
          BY <1>0 DEF Parts
        <5> HIDE DEF rank
        <5> QED BY <5>1, <5>2, NewChunkType, Zenon DEF SizedChunk
      <4>3. tag(c).size = W /\ tag(c).align = W /\ tag(c).offset = -1
        BY DEF NewChunk, UNKNOWN
      <4> HIDE DEF tag
      <4>4. LayoutEnd(<<tag(c)>>) = W
        BY <4>2, <4>3, LayoutEndOfTag
      <4>5. tag(c).offset + tag(c).size <= W
        BY <1>0, <4>3
      <4> DEFINE list == <<tag(c)>>
      <4>6. DOMAIN list = {1} /\ list[1] = tag(c)
        OBVIOUS
      <4> HIDE DEF list
      <4>7. WithinLayout(list)
        <5>1. LayoutEnd(list) = W
          BY <4>4 DEF list
        <5> QED BY <4>5, <4>6, <5>1 DEF WithinLayout
      <4> QED BY <4>1, <4>7 DEF list
    <3> QED BY <3>2, <3>3
  <2> QED BY <2>2 DEF PlacedInv
<1>3. ASSUME NEW list, regFixed' = [regFixed EXCEPT ![chan] = list], WithinLayout(list),
             chan' = chan, \A c \in Channel : c # chan => memFixed'[c] = memFixed[c]
      PROVE  PlacedInv'
  <2> SUFFICES ASSUME NEW c \in Channel
               PROVE  WithinLayout(regFixed'[c]) \/ LeftBehind(c)' \/ HeldBack(c)'
    BY DEF PlacedInv, WithinLayout
  <2>1. CASE c = chan
    BY <1>0, <1>3, <2>1
  <2>2. CASE c # chan
    <3>1. regFixed'[c] = regFixed[c] /\ memFixed'[c] = memFixed[c]
      BY <1>0, <1>3, <2>2
    <3>2. WithinLayout(regFixed[c]) \/ LeftBehind(c)
      BY <2>2 DEF PlacedInv, HeldBack
    <3>3. LeftBehind(c) => LeftBehind(c)'
      BY <3>1 DEF LeftBehind
    <3> QED BY <3>1, <3>2, <3>3
  <2> QED BY <2>1, <2>2
<1>4. CASE TakeFixed
  <2>1. /\ memFixed[chan] # <<>> /\ regFixed' = [regFixed EXCEPT ![chan] = Tried] /\ chan' = chan
        /\ \A c \in Channel : c # chan => memFixed'[c] = memFixed[c]
    BY <1>0, <1>4 DEF TakeFixed, TryingFixed
  <2>2. Candidate \in SizedChunk /\ CandidatePrio \in Nat /\ regFixed[chan] \in Seq(SizedChunk)
    BY <1>0, <2>1, TriedType
  <2>3. AddWithPrio(regFixed[chan], Candidate, CandidatePrio) \in Seq(SizedChunk)
    BY <2>2, AddChunkType, Zenon DEF SizedChunk
  <2>4. WithinLayout(Tried)
    BY <2>3, LaidOutWithin DEF Tried
  <2> QED BY <1>3, <2>1, <2>4
<1>5. CASE AddRegisterBuffer
  <2> DEFINE varbuf == NewChunk(chunkID + 1, "varbuf", oldRemaining - remaining, W,
                                {chan}, TRUE)
             added == AddWithPrio(regFixed[chan], varbuf, 99)
  <2>1. /\ regFixed' = [regFixed EXCEPT ![chan] = LaidOut(added)] /\ chan' = chan
        /\ memFixed' = memFixed
    BY <1>5 DEF AddRegisterBuffer
  <2>2. added \in Seq(SizedChunk)
    <3>1. chunkID + 1 \in Nat /\ oldRemaining - remaining \in Nat
      BY <1>5 DEF AddRegisterBuffer, TypeOK
    <3>2. "varbuf" \in Parts /\ {chan} \in SUBSET Channel /\ TRUE \in BOOLEAN /\ W \in Nat \ {0}
      BY <1>0 DEF Parts
    <3>3. varbuf \in ChunkOf(Nat)
      BY <3>1, <3>2, NewChunkType, Zenon
    <3> HIDE DEF varbuf
    <3> QED BY <1>0, <3>3, AddChunkType, Zenon DEF SizedChunk
  <2> HIDE DEF added
  <2>3. WithinLayout(LaidOut(added))
    BY <2>2, LaidOutWithin
  <2> QED BY <1>3, <2>1, <2>3
<1>6. CASE PutBackFixed \/ SkipFixed
  <2>1. /\ phase = "fixed" /\ phase' = phase /\ chan' = chan
        /\ \A c \in Channel : c # chan => memFixed'[c] = memFixed[c] /\ regFixed'[c] = regFixed[c]
        /\ \E chunk : processed' = Append(processed, chunk)
    BY <1>0, <1>6 DEF PutBackFixed, SkipFixed, TryingFixed, AddLast
  <2>2. processed' # <<>>
    BY <1>0, <2>1
  <2> SUFFICES ASSUME NEW c \in Channel
               PROVE  WithinLayout(regFixed'[c]) \/ LeftBehind(c)' \/ HeldBack(c)'
    BY DEF PlacedInv, WithinLayout
  <2>3. CASE c = chan
    BY <2>1, <2>2, <2>3 DEF HeldBack
  <2>4. CASE c # chan
    <3>1. WithinLayout(regFixed[c]) \/ LeftBehind(c)
      BY <2>4 DEF PlacedInv, HeldBack
    <3>2. LeftBehind(c) => LeftBehind(c)'
      BY <2>1, <2>4 DEF LeftBehind
    <3> QED BY <2>1, <2>4, <3>1, <3>2
  <2> QED BY <2>3, <2>4
<1>7. CASE EndFixedPass
  <2>1. /\ phase = "fixed" /\ regFixed' = regFixed /\ chan' = chan
        /\ memFixed[chan] = <<>>
        /\ memFixed' = [memFixed EXCEPT ![chan] = memFixed[chan] \o processed]
    BY <1>7 DEF EndFixedPass, Merge
  <2>2. processed \in Seq(DataChunk)
    BY <2>1 DEF NoBufferYet
  <2>3. memFixed'[chan] = processed
    BY <1>0, <2>1
  <2>4. ASSUME NEW c \in Channel, HeldBack(c)  PROVE LeftBehind(c)'
    <3>1. c = chan /\ processed # <<>>
      BY <2>4 DEF HeldBack
    <3>2. 1 \in DOMAIN processed /\ processed[1] \in DataChunk
      BY <2>2, <3>1
    <3>3. processed[1].part # "varbuf"
      BY <3>2 DEF DataChunk
    <3> QED BY <2>3, <3>1, <3>2, <3>3 DEF LeftBehind
  <2>5. ASSUME NEW c \in Channel, LeftBehind(c)  PROVE LeftBehind(c)'
    <3>1. c # chan
      <4>1. DOMAIN memFixed[chan] = {}
        BY <2>1
      <4> QED BY <2>5, <4>1 DEF LeftBehind
    <3>2. memFixed'[c] = memFixed[c]
      BY <1>0, <2>1, <3>1
    <3> QED BY <2>5, <3>2 DEF LeftBehind
  <2> QED BY <2>1, <2>4, <2>5, PlacedStays
<1>8. CASE LayoutMemory
  <2> DEFINE bytes == VarBytes(memVar[chan])
             varbuf == NewChunk(chunkID + 1, "varbuf", bytes, W, {chan}, FALSE)
             mine == memFixed[chan]
             added == IF bytes > 0 THEN AddWithPrio(mine, varbuf, 99) ELSE mine
  <2>1. /\ phase = "memory" /\ regFixed' = regFixed
        /\ memFixed' = [memFixed EXCEPT ![chan] = LaidOut(added)]
    BY <1>8 DEF LayoutMemory
  <2>2. varbuf \in SizedChunk
    <3>1. chunkID + 1 \in Nat /\ bytes \in Nat
      BY <1>0, VarBytesType DEF TypeOK
    <3>2. "varbuf" \in Parts /\ {chan} \in SUBSET Channel /\ FALSE \in BOOLEAN /\ W \in Nat \ {0}
      BY <1>0 DEF Parts
    <3> HIDE DEF bytes
    <3> QED BY <3>1, <3>2, NewChunkType, Zenon DEF SizedChunk
  <2> HIDE DEF bytes, varbuf
  <2>3. mine \in Seq(SizedChunk)
    BY <1>0
  <2> HIDE DEF mine
  <2>4. added \in Seq(SizedChunk)
    <3>1. AddWithPrio(mine, varbuf, 99) \in Seq(SizedChunk)
      BY <1>0, <2>2, <2>3, AddChunkType, Zenon DEF SizedChunk
    <3> QED BY <2>3, <3>1
  <2>5. ASSUME NEW i \in DOMAIN mine, mine[i].part # "varbuf"
        PROVE  \E j \in 1 .. Len(added) : added[j].part # "varbuf"
    <3>1. CASE ~(bytes > 0)
      <4>1. i \in 1 .. Len(mine)
        BY <2>3
      <4> QED BY <2>5, <3>1, <4>1
    <3>2. CASE bytes > 0
      <4> DEFINE at == PrioPosition(mine, 99)
                 more == AddWithPrio(mine, varbuf, 99)
      <4>1. /\ at \in 1 .. Len(mine) + 1
            /\ Len(more) = Len(mine) + 1
            /\ \A j \in 1 .. at - 1 : more[j] = mine[j]
            /\ \A j \in at .. Len(mine) : more[j + 1] = mine[j]
        <5>1. 99 \in Nat
          OBVIOUS
        <5>2. ASSUME NEW list \in Seq(SizedChunk), NEW chunk \in SizedChunk, NEW prio \in Nat
              PROVE  /\ PrioPosition(list, prio) \in 1 .. Len(list) + 1
                     /\ Len(AddWithPrio(list, chunk, prio)) = Len(list) + 1
                     /\ \A j \in 1 .. PrioPosition(list, prio) - 1 :
                          AddWithPrio(list, chunk, prio)[j] = list[j]
                     /\ \A j \in PrioPosition(list, prio) .. Len(list) :
                          AddWithPrio(list, chunk, prio)[j + 1] = list[j]
          BY ChunkAdded, Zenon
        <5> QED BY <2>2, <2>3, <5>1, <5>2
      <4>2. i \in 1 .. Len(mine) /\ Len(mine) \in Nat
        BY <2>3
      <4>3. added = more
        BY <3>2
      <4> HIDE DEF at, more, added
      <4>4. CASE i < at
        <5>1. i \in 1 .. at - 1 /\ i \in 1 .. Len(mine) + 1
          BY <4>1, <4>2, <4>4
        <5> QED BY <2>5, <4>1, <4>3, <5>1
      <4>5. CASE i >= at
        <5>1. i \in at .. Len(mine) /\ i + 1 \in 1 .. Len(mine) + 1
          BY <4>1, <4>2, <4>5
        <5> QED BY <2>5, <4>1, <4>3, <5>1
      <4> QED BY <4>1, <4>2, <4>4, <4>5
    <3> QED BY <3>1, <3>2
  <2> HIDE DEF added
  <2>6. ASSUME NEW c \in Channel, LeftBehind(c)  PROVE LeftBehind(c)'
    <3>1. CASE c # chan
      <4>1. memFixed'[c] = memFixed[c]
        BY <1>0, <2>1, <3>1
      <4> QED BY <2>6, <4>1 DEF LeftBehind
    <3>2. CASE c = chan
      <4>1. PICK i \in DOMAIN mine : mine[i].part # "varbuf"
        BY <2>6, <3>2 DEF LeftBehind, mine
      <4>2. PICK j \in 1 .. Len(added) : added[j].part # "varbuf"
        BY <2>5, <4>1
      <4>3. LaidOut(added)[j].part = added[j].part /\ Len(LaidOut(added)) = Len(added)
            /\ LaidOut(added) \in Seq(SizedChunk)
        BY <2>4, LaidOutPlaces, LaidOutType
      <4>4. memFixed'[c] = LaidOut(added)
        BY <1>0, <2>1, <3>2
      <4>5. j \in DOMAIN memFixed'[c]
        BY <4>3, <4>4
      <4> QED BY <4>2, <4>3, <4>4, <4>5 DEF LeftBehind
    <3> QED BY <3>1, <3>2
  <2>7. \A c \in Channel : ~HeldBack(c)
    BY <2>1 DEF HeldBack
  <2> QED BY <2>1, <2>6, <2>7, PlacedStays
<1>9. ASSUME UNCHANGED <<regFixed, memFixed>>, UNCHANGED <<phase, chan, processed>> \/ phase # "fixed"
      PROVE  PlacedInv'
  <2>1. \A c \in Channel : LeftBehind(c) => LeftBehind(c)'
    BY <1>9 DEF LeftBehind
  <2>2. \A c \in Channel : HeldBack(c) => HeldBack(c)'
    BY <1>9 DEF HeldBack
  <2> QED BY <1>9, <2>1, <2>2, PlacedStays
<1>10. CASE UNCHANGED vars
  BY <1>9, <1>10 DEF vars, lists, loop
<1>11. PackChannel \/ NumberBuffers =>
         \/ TakeFixed \/ PutBackFixed \/ SkipFixed \/ EndFixedPass \/ AddRegisterBuffer \/ LayoutMemory
         \/ UNCHANGED <<regFixed, memFixed>> /\ phase # "fixed"
  BY DEF PackChannel, NumberBuffers, lists, BeginChannel, TooManyItems, MoveVariable,
         PassVariable, EndVariablePass, NoRegisterBuffer, CollectBuffer, CollectNextChannel,
         NumberString, NumberNextChannel
<1> QED BY <1>1, <1>2, <1>4, <1>5, <1>6, <1>7, <1>8, <1>9, <1>10, <1>11 DEF Next, Step, Finished

(* A packed list ends within the words announced for it, and they are no   *)
(* more than its words, if its chunks are where the layout has them.       *)
LEMMA PlacedSuffices ==
  TypeOK /\ RegistersCovered /\ TagLaidOut /\ PlacedInv => TypedItemsWhereAnnounced
<1> SUFFICES ASSUME TypeOK, RegistersCovered, TagLaidOut, PlacedInv, Done,
                    NEW c \in Channel, InUse(c)
             PROVE  /\ ~LeftBehind(c) => AssumedPosition(c) = TypedPartStart(c)
                    /\ AssumedPosition(c) >= TypedPartStart(c)
  BY DEF TypedItemsWhereAnnounced
<1>1. regFixed[c] \in Seq(SizedChunk) /\ Covered(regFixed[c]) /\ LayoutEnd(regFixed[c]) >= W
  BY DEF TypeOK, RegistersCovered, TagLaidOut, Done
<1>2. ~LeftBehind(c) => WithinLayout(regFixed[c])
  BY DEF PlacedInv, HeldBack, Done
<1>3. AssumedPosition(c) >= TypedPartStart(c)
  BY <1>1, CoveredWords DEF AssumedPosition, TypedPartStart, UntypedWords
<1>4. ~LeftBehind(c) => AssumedPosition(c) = TypedPartStart(c)
  BY <1>1, <1>2, WithinWords DEF AssumedPosition, TypedPartStart, UntypedWords
<1> QED BY <1>3, <1>4

-----------------------------------------------------------------------------
(* The shared buffers hold the variable chunks                             *)

(* Each further variable chunk takes its size, rounded up to words.        *)
LEMMA VarBytesAppend ==
  /\ VarBytes(<<>>) = 0
  /\ \A list \in Seq(SizedChunk), chunk \in SizedChunk :
       VarBytes(Append(list, chunk)) = VarBytes(list) + AlignUp(chunk.size, W)
<1> DEFINE Pieces(list) == [i \in DOMAIN list |-> [size |-> AlignUp(list[i].size, W), align |-> 1]]
<1>1. \A list : VarBytes(list) = Ends(Pieces(list))[Len(list)]
  BY DEF VarBytes
<1>2. ASSUME NEW list \in Seq(SizedChunk)
      PROVE  /\ Pieces(list) \in Seq(Piece) /\ Len(Pieces(list)) = Len(list)
             /\ \A i \in 1 .. Len(list) :
                  Pieces(list)[i] = [size |-> AlignUp(list[i].size, W), align |-> 1]
  <2>1. Len(list) \in Nat /\ DOMAIN list = 1 .. Len(list)
    OBVIOUS
  <2>2. ASSUME NEW i \in 1 .. Len(list)
        PROVE  [size |-> AlignUp(list[i].size, W), align |-> 1] \in Piece
    <3>1. list[i] \in ChunkOf(Nat)
      BY DEF SizedChunk
    <3>2. AlignUp(list[i].size, W) \in Nat
      BY <3>1, ChunkFields, AlignUpType, ConnectionAssumption
    <3> QED BY <3>2 DEF Piece
  <2> QED BY <2>1, <2>2
<1> HIDE DEF Pieces
<1>3. VarBytes(<<>>) = 0
  <2>1. <<>> \in Seq(SizedChunk) /\ Len(<<>>) = 0
    OBVIOUS
  <2>2. Ends(Pieces(<<>>))[0] = 0
    BY <1>2, <2>1, EndsEquation
  <2> QED BY <1>1, <2>1, <2>2
<1>4. ASSUME NEW list \in Seq(SizedChunk), NEW chunk \in SizedChunk
      PROVE  VarBytes(Append(list, chunk)) = VarBytes(list) + AlignUp(chunk.size, W)
  <2> DEFINE longer == Append(list, chunk)
             n == Len(list)
             short == Pieces(list)
             long == Pieces(longer)
  <2>1. /\ n \in Nat /\ longer \in Seq(SizedChunk) /\ Len(longer) = n + 1
        /\ longer[n + 1] = chunk /\ \A i \in 1 .. n : longer[i] = list[i]
    OBVIOUS
  <2> HIDE DEF longer
  <2>2. short \in Seq(Piece) /\ Len(short) = n
        /\ \A i \in 1 .. n : short[i] = [size |-> AlignUp(list[i].size, W), align |-> 1]
    BY <1>2
  <2>3. long \in Seq(Piece) /\ Len(long) = n + 1
        /\ \A i \in 1 .. n + 1 : long[i] = [size |-> AlignUp(longer[i].size, W), align |-> 1]
    BY <1>2, <2>1
  <2> HIDE DEF short, long
  <2>4. Ends(long)[n] = Ends(short)[n]
    <3>1. n + 1 \in 1 .. Len(short) + 1 /\ Len(long) = Len(short) + 1 /\ n \in 0 .. (n + 1) - 1
      BY <2>1, <2>2, <2>3
    <3>2. \A i \in 1 .. (n + 1) - 1 : long[i] = short[i]
      <4> TAKE i \in 1 .. (n + 1) - 1
      <4>1. i \in 1 .. n /\ i \in 1 .. n + 1
        BY <2>1
      <4> QED BY <2>1, <2>2, <2>3, <4>1
    <3>3. \A i \in n + 1 .. Len(short) : long[i + 1] = short[i]
      BY <2>1, <2>2
    <3>4. \A i \in 0 .. (n + 1) - 1 : Ends(long)[i] = Ends(short)[i]
      BY <2>2, <2>3, <3>1, <3>2, <3>3, InsertedEnds
    <3> QED BY <3>1, <3>4
  <2>5. Ends(long)[n + 1] = AlignUp(Ends(long)[n], long[n + 1].align) + long[n + 1].size
    <3>1. n + 1 \in 1 .. Len(long) /\ (n + 1) - 1 = n
      BY <2>1, <2>3
    <3>2. Ends(long)[n + 1] = AlignUp(Ends(long)[(n + 1) - 1], long[n + 1].align) + long[n + 1].size
      BY <2>3, <3>1, EndsEquation
    <3> QED BY <3>1, <3>2
  <2>6. long[n + 1].align = 1 /\ long[n + 1].size = AlignUp(chunk.size, W)
    <3>1. n + 1 \in 1 .. n + 1
      BY <2>1
    <3> QED BY <2>1, <2>3, <3>1
  <2>7. AlignUp(Ends(long)[n], 1) = Ends(long)[n]
    <3>1. Ends(short) \in [0 .. n -> Nat]
      BY <2>2, EndsEquation
    <3>2. Ends(short)[n] \in Nat
      BY <2>1, <3>1
    <3>3. \A e \in Nat : AlignUp(e, 1) = e
      BY DEF AlignUp
    <3> QED BY <2>4, <3>2, <3>3
  <2>8. VarBytes(list) = Ends(short)[n] /\ VarBytes(longer) = Ends(long)[n + 1]
    BY <1>1, <2>1 DEF short, long
  <2> QED BY <2>4, <2>5, <2>6, <2>7, <2>8 DEF longer
<1> QED BY <1>3, <1>4

(* Whole words less some bytes, rounded down, are the words less the bytes *)
(* rounded up.                                                             *)
LEMMA AlignDownRest ==
  ASSUME NEW k \in Nat, NEW size \in Nat, size <= k * W
  PROVE  /\ \E r \in Nat : AlignDown(k * W - size, W) = r * W
         /\ AlignDown(k * W - size, W) = k * W - AlignUp(size, W)
<1> DEFINE u == (size + W - 1) \div W
           d == (k * W - size) \div W
           kw == k * W
           uw == u * W
           dw == d * W
<1>1. W \in Nat \ {0} /\ kw \in Nat
  BY ConnectionAssumption
<1>2. u \in Nat /\ uw <= size + W - 1 /\ size + W - 1 < uw + W
  BY <1>1
<1>3. d \in Nat /\ dw <= kw - size /\ kw - size < dw + W
  BY <1>1
<1>4. AlignUp(size, W) = uw /\ AlignDown(k * W - size, W) = dw
  BY DEF AlignUp, AlignDown
<1> HIDE DEF u, d
<1>5. uw \in Nat /\ dw \in Nat
  BY <1>1, <1>2, <1>3
<1>6. (d + u) * W = dw + uw /\ (d + u + 1) * W = dw + uw + W /\ (k + 1) * W = kw + W
  BY <1>1, <1>2, <1>3
<1>7. \A x, y \in Nat : x >= y => x * W >= y * W
  <2>1. \A x, y, z \in Nat : x >= y => x * z >= y * z
    OBVIOUS
  <2> QED BY <1>1, <2>1
<1>8. d + u <= k
  <2>1. CASE d + u >= k + 1
    <3>1. (d + u) * W >= (k + 1) * W
      BY <1>2, <1>3, <1>7, <2>1
    <3>2. dw + uw >= kw + W
      BY <1>6, <3>1
    <3> HIDE DEF dw, uw, kw
    <3> QED BY <1>1, <1>2, <1>3, <1>5, <3>2
  <2> QED BY <1>2, <1>3, <2>1
<1>9. k <= d + u
  <2>1. CASE k >= d + u + 1
    <3>1. k * W >= (d + u + 1) * W
      BY <1>2, <1>3, <1>7, <2>1
    <3>2. kw >= dw + uw + W
      BY <1>6, <3>1
    <3> HIDE DEF dw, uw, kw
    <3> QED BY <1>1, <1>2, <1>3, <1>5, <3>2
  <2> QED BY <1>2, <1>3, <2>1
<1>10. kw = dw + uw
  <2>1. k = d + u
    BY <1>2, <1>3, <1>8, <1>9
  <2> QED BY <1>6, <2>1
<1>11. dw = kw - uw
  <2> HIDE DEF dw, uw, kw
  <2> QED BY <1>1, <1>5, <1>10
<1> QED BY <1>3, <1>4, <1>11

(* The shared buffer is in the list it was added to, with its size.        *)
LEMMA VarbufAdded ==
  ASSUME NEW list \in Seq(SizedChunk), NEW varbuf \in SizedChunk, varbuf.part = "varbuf",
         NEW bytes \in Nat, bytes <= varbuf.size
  PROVE  HoldsVariable(LaidOut(AddWithPrio(list, varbuf, 99)), bytes)
<1> DEFINE at == PrioPosition(list, 99)
           added == AddWithPrio(list, varbuf, 99)
           laid == LaidOut(added)
<1>1. Prioritized(varbuf, 99) \in SizedChunk
      /\ Prioritized(varbuf, 99).part = "varbuf" /\ Prioritized(varbuf, 99).size = varbuf.size
  <2>1. varbuf \in ChunkOf(Nat) /\ 99 \in Nat
    BY DEF SizedChunk
  <2> QED BY <2>1, PrioritizedChunk, ZenonT(60) DEF SizedChunk
<1>2. /\ added \in Seq(SizedChunk) /\ Len(added) = Len(list) + 1 /\ at \in 1 .. Len(list) + 1
      /\ added[at] = Prioritized(varbuf, 99)
  BY <1>1, AddedElements
<1> HIDE DEF at, added
<1>3. /\ laid \in Seq(SizedChunk) /\ Len(laid) = Len(list) + 1
      /\ laid[at].part = "varbuf" /\ laid[at].size = varbuf.size
  BY <1>1, <1>2, LaidOutType, LaidOutPlaces
<1> HIDE DEF laid
<1>4. at \in DOMAIN laid
  BY <1>2, <1>3
<1>5. HoldsVariable(laid, bytes)
  BY <1>3, <1>4 DEF HoldsVariable
<1> QED BY <1>5 DEF laid, added

(* A channel has no variable chunks in its registers before its packing    *)
(* has come to them.                                                       *)
Unpacked(c) == Marshalled \/ Waiting(c) \/ (phase = "fixed" /\ c = chan)

(* A channel whose packing is over.                                        *)
Behind(c) == (phase = "budget" /\ c < chan) \/ (Packing /\ c < chan) \/ AllPacked

(* What the variable chunks were given since the fixed ones were placed    *)
(* are whole words, and enough for those that were moved.                  *)
VariableBudget ==
  /\ \E k \in 0 .. remaining : remaining = k * W
  /\ oldRemaining - remaining >= VarBytes(regVar[chan])

(* No variable chunks in registers before their turn; from the first of    *)
(* them on the budget pays for those that were moved; afterwards a _varbuf *)
(* as large as all of them is in the list.                                 *)
VarbufInv ==
  /\ \A c \in Channel : Unpacked(c) => regVar[c] = <<>>
  /\ phase \in {"variable", "layout"} => VariableBudget
  /\ \A c \in Channel : (phase = "memory" /\ c = chan) \/ Behind(c) =>
       HoldsVariable(regFixed[c], VarBytes(regVar[c]))
  /\ \A c \in Channel : Behind(c) => HoldsVariable(memFixed[c], VarBytes(memVar[c]))

(* A whole number of words has no more words than bytes.                   *)
LEMMA WordsInBytes ==
  ASSUME NEW k \in Nat
  PROVE  k \in 0 .. k * W
<1>1. \A i \in Nat, w \in Nat \ {0} : i * w >= i /\ i * w \in Nat
  OBVIOUS
<1> QED BY <1>1, ConnectionAssumption

(* Nothing is owed before the first variable chunk.                        *)
LEMMA VarbufInit == Init => VarbufInv
<1> SUFFICES ASSUME Init  PROVE VarbufInv
  OBVIOUS
<1>1. phase = "options" /\ \A c \in Channel : regVar[c] = <<>>
  BY DEF Init
<1> QED BY <1>1 DEF VarbufInv, Unpacked, Behind, Packing, AllPacked

(* A step of the packing on the lists of one channel leaves those behind   *)
(* and those ahead alone.                                                  *)
LEMMA VarbufOthers ==
  ASSUME TypeOK, VarbufInv, phase = "budget" \/ Packing, Packing', chan' = chan,
         \A c \in Channel : c # chan =>
           /\ regFixed'[c] = regFixed[c] /\ regVar'[c] = regVar[c]
           /\ memFixed'[c] = memFixed[c] /\ memVar'[c] = memVar[c],
         phase' = "fixed" => regVar'[chan] = <<>>,
         phase' \in {"variable", "layout"} => VariableBudget',
         phase' = "memory" => HoldsVariable(regFixed'[chan], VarBytes(regVar'[chan]))
  PROVE  VarbufInv'
<1>0. chan \in Channel /\ (\A c \in Channel : c \in Nat) /\ ~Marshalled /\ ~Marshalled' /\ ~AllPacked'
  BY ChannelType DEF TypeOK, Packing, Marshalled, AllPacked
<1>1. ASSUME NEW c \in Channel, Unpacked(c)'  PROVE regVar'[c] = <<>>
  <2>1. CASE c = chan
    <3>1. ~Waiting(c)'
      BY <1>0, <2>1 DEF Waiting, Packing
    <3>2. phase' = "fixed"
      BY <1>0, <1>1, <3>1 DEF Unpacked
    <3> QED BY <2>1, <3>2
  <2>2. CASE c # chan
    <3>1. Waiting(c)'
      BY <1>0, <1>1, <2>2 DEF Unpacked
    <3>2. Waiting(c)
      BY <1>0, <2>2, <3>1 DEF Waiting, Packing
    <3> QED BY <2>2, <3>2 DEF VarbufInv, Unpacked
  <2> QED BY <2>1, <2>2
<1>2. ASSUME NEW c \in Channel, Behind(c)'
      PROVE  c # chan /\ Behind(c)
  BY <1>0, <1>2 DEF Behind, Packing
<1>3. ASSUME NEW c \in Channel, (phase' = "memory" /\ c = chan') \/ Behind(c)'
      PROVE  HoldsVariable(regFixed'[c], VarBytes(regVar'[c]))
  <2>1. CASE c = chan
    BY <1>2, <1>3, <2>1
  <2>2. CASE c # chan
    <3>1. Behind(c)
      BY <1>2, <1>3, <2>2
    <3>2. HoldsVariable(regFixed[c], VarBytes(regVar[c]))
      BY <3>1 DEF VarbufInv
    <3> QED BY <2>2, <3>2
  <2> QED BY <2>1, <2>2
<1>4. ASSUME NEW c \in Channel, Behind(c)'
      PROVE  HoldsVariable(memFixed'[c], VarBytes(memVar'[c]))
  <2>1. c # chan /\ HoldsVariable(memFixed[c], VarBytes(memVar[c]))
    BY <1>2, <1>4 DEF VarbufInv
  <2> QED BY <2>1
<1> QED BY <1>1, <1>3, <1>4 DEF VarbufInv

(* Nothing is done to the lists when all channels are packed.              *)
LEMMA VarbufNumbering ==
  ASSUME VarbufInv, AllPacked, AllPacked',
         UNCHANGED <<regFixed, regVar, memFixed, memVar>>
  PROVE  VarbufInv'
<1>1. \A c \in Channel : Behind(c) /\ ~Unpacked(c)'
  BY DEF Behind, Unpacked, AllPacked, Marshalled, Waiting, Packing
<1>2. ~(phase' \in {"variable", "layout"}) /\ phase' # "memory"
  BY DEF AllPacked
<1> QED BY <1>1, <1>2 DEF VarbufInv

(* Steps that end in a phase in which nothing is said of the lists, and    *)
(* those before the packing.                                               *)
LEMMA VarbufStart ==
  ASSUME TypeOK, BudgetInv, VarbufInv, Marshal \/ AddTags \/ TooManyItems
  PROVE  VarbufInv'
<1>1. CASE Marshal
  <2>1. Marshalled /\ phase' = "marshal" /\ regVar' = regVar
    BY <1>1 DEF Marshal, SetOption, MarshalExceptionCode, GetFixedCopyChunk, GetUnboundedCopyChunk,
         GetBoundedCopyChunk, GetMapChunk, Marshalling, FixedCopyChunk, lists, numbering, Marshalled
  <2> QED BY <2>1 DEF VarbufInv, Unpacked, Behind, Packing, AllPacked
<1>2. CASE AddTags
  <2>1. Marshalled /\ phase' = "budget" /\ regVar' = regVar /\ chan' = chan
    BY <1>2 DEF AddTags, Marshalled
  <2>2. chan = CHANNEL_IN
    BY <2>1 DEF BudgetInv
  <2>3. \A c \in Channel : ~Behind(c)'
    BY <2>1, <2>2, ChannelType DEF Behind, Packing, AllPacked, CHANNEL_IN
  <2> QED BY <2>1, <2>3 DEF VarbufInv, Unpacked
<1>3. CASE TooManyItems
  <2>1. phase' = "too_many_items"
    BY <1>3 DEF TooManyItems
  <2> QED BY <2>1 DEF VarbufInv, Unpacked, Behind, Packing, AllPacked, Marshalled, Waiting
<1> QED BY <1>1, <1>2, <1>3

(* While fixed chunks are placed there are no variable ones in registers.  *)
LEMMA VarbufFixed ==
  ASSUME TypeOK, BudgetInv, VarbufInv,
         BeginChannel \/ TakeFixed \/ PutBackFixed \/ SkipFixed
  PROVE  VarbufInv'
<1>0. chan \in Channel /\ chan \in Nat
  BY ChannelType DEF TypeOK
<1>1. /\ phase = "budget" \/ phase = "fixed"
      /\ phase' = "fixed" /\ chan' = chan
      /\ UNCHANGED <<regVar, memVar>>
      /\ \A c \in Channel : c # chan =>
           regFixed'[c] = regFixed[c] /\ memFixed'[c] = memFixed[c]
  BY DEF BeginChannel, TakeFixed, PutBackFixed, SkipFixed, TryingFixed, lists, TypeOK
<1>2. Unpacked(chan)
  BY <1>0, <1>1 DEF Unpacked, Waiting
<1>3. regVar'[chan] = <<>>
  BY <1>0, <1>1, <1>2 DEF VarbufInv
<1>4. (phase = "budget" \/ Packing) /\ Packing'
  BY <1>1 DEF Packing
<1> QED BY <1>1, <1>3, <1>4, VarbufOthers

(* The variable chunks begin with a whole number of words.                 *)
LEMMA VarbufEndFixed ==
  ASSUME TypeOK, BudgetInv, VarbufInv, EndFixedPass
  PROVE  VarbufInv'
<1>0. chan \in Channel
  BY DEF TypeOK
<1>1. /\ phase = "fixed" /\ chan' = chan
      /\ UNCHANGED <<regFixed, regVar, memVar>>
      /\ \A c \in Channel : c # chan => memFixed'[c] = memFixed[c]
  BY DEF EndFixedPass, TypeOK
<1>2. \/ phase' = "fixed"
      \/ phase' = "variable" /\ remaining' = AlignDown(remaining, W) /\ oldRemaining' = remaining'
  BY <1>1 DEF EndFixedPass
<1>3. regVar[chan] = <<>>
  BY <1>0, <1>1 DEF VarbufInv, Unpacked
<1>4. ASSUME phase' = "variable"  PROVE VariableBudget'
  <2>1. remaining' = AlignDown(remaining, W) /\ oldRemaining' = remaining'
    BY <1>2, <1>4
  <2>2. remaining' = (remaining \div W) * W /\ remaining \div W \in Nat
    <3>1. \A r \in Nat, w \in Nat \ {0} : r \div w \in Nat
      OBVIOUS
    <3>2. remaining \in Nat
      BY DEF TypeOK
    <3> QED BY <2>1, <3>1, <3>2, ConnectionAssumption DEF AlignDown
  <2>3. VarBytes(regVar'[chan']) = 0
    BY <1>1, <1>3, VarBytesAppend
  <2>4. remaining' \in Nat
    BY <2>2, ConnectionAssumption
  <2>5. oldRemaining' - remaining' >= 0
    BY <2>1, <2>4
  <2>6. oldRemaining' - remaining' >= VarBytes(regVar'[chan'])
    BY <2>3, <2>5
  <2>7. \E k \in 0 .. remaining' : remaining' = k * W
    BY <2>2, WordsInBytes
  <2> QED BY <2>6, <2>7 DEF VariableBudget
<1>5. Packing /\ Packing'
  BY <1>1, <1>2 DEF Packing
<1> QED BY <1>1, <1>2, <1>3, <1>4, <1>5, VarbufOthers

(* A variable chunk takes from the budget what it needs of the buffer.     *)
LEMMA VarbufMove ==
  ASSUME TypeOK, BudgetInv, VarbufInv, MoveVariable
  PROVE  VarbufInv'
<1> DEFINE chunk == memVar[chan][cursor]
<1>0. /\ chan \in Channel /\ regVar[chan] \in Seq(SizedChunk) /\ memVar[chan] \in Seq(SizedChunk)
      /\ remaining \in Nat /\ oldRemaining \in Nat /\ cursor \in Nat \ {0}
  BY DEF TypeOK
<1>1. /\ phase = "variable" /\ phase' = phase /\ chan' = chan
      /\ cursor <= Len(memVar[chan])
      /\ chunk.size <= remaining
      /\ regVar' = [regVar EXCEPT ![chan] = Append(@, chunk)]
      /\ remaining' = AlignDown(remaining - chunk.size, W)
      /\ UNCHANGED <<regFixed, memFixed, oldRemaining>>
  BY DEF MoveVariable, MayFit, AddLast
<1>2. \A c \in Channel : c # chan => memVar'[c] = memVar[c]
  BY DEF MoveVariable, TypeOK
<1>3. chunk \in SizedChunk /\ chunk.size \in Nat
  <2>1. chunk \in ChunkOf(Nat)
    BY <1>0, <1>1 DEF SizedChunk
  <2> QED BY <2>1, ChunkFields DEF SizedChunk
<1> HIDE DEF chunk
<1>4. PICK k \in 0 .. remaining : remaining = k * W
  BY <1>1 DEF VarbufInv, VariableBudget
<1>5. /\ \E r \in 0 .. remaining' : remaining' = r * W
      /\ remaining' = remaining - AlignUp(chunk.size, W)
  <2>1. \E r \in Nat : remaining' = r * W
    BY <1>1, <1>3, <1>4, AlignDownRest
  <2>2. remaining' = remaining - AlignUp(chunk.size, W)
    BY <1>1, <1>3, <1>4, AlignDownRest
  <2> QED BY <2>1, <2>2, WordsInBytes
<1>6. VarBytes(regVar'[chan]) = VarBytes(regVar[chan]) + AlignUp(chunk.size, W)
  <2>1. regVar'[chan] = Append(regVar[chan], chunk)
    BY <1>0, <1>1 DEF TypeOK
  <2> QED BY <1>0, <1>3, <2>1, VarBytesAppend
<1>7. oldRemaining - remaining >= VarBytes(regVar[chan])
  BY <1>1 DEF VarbufInv, VariableBudget
<1>8. oldRemaining' - remaining' >= VarBytes(regVar'[chan'])
  <2>1. VarBytes(regVar[chan]) \in Nat /\ AlignUp(chunk.size, W) \in Nat
    BY <1>0, <1>3, VarBytesType, AlignUpType, ConnectionAssumption
  <2>2. \A o, r, v, a \in Nat : o - r >= v => o - (r - a) >= v + a
    OBVIOUS
  <2>3. oldRemaining - (remaining - AlignUp(chunk.size, W)) >= VarBytes(regVar[chan]) + AlignUp(chunk.size, W)
    BY <1>0, <1>7, <2>1, <2>2
  <2> QED BY <1>1, <1>5, <1>6, <2>3
<1>9. VariableBudget'
  BY <1>5, <1>8 DEF VariableBudget
<1>10. \A c \in Channel : c # chan => regVar'[c] = regVar[c]
  BY <1>1 DEF TypeOK
<1>11. Packing /\ Packing'
  BY <1>1 DEF Packing
<1> QED BY <1>1, <1>2, <1>9, <1>10, <1>11, VarbufOthers

(* The walks over the variable chunks that move none.                      *)
LEMMA VarbufWalk ==
  ASSUME TypeOK, BudgetInv, VarbufInv, PassVariable \/ EndVariablePass
  PROVE  VarbufInv'
<1>1. /\ phase = "variable" /\ phase' \in {"variable", "layout"} /\ chan' = chan
      /\ UNCHANGED <<regFixed, regVar, memFixed, memVar, remaining, oldRemaining>>
  BY DEF PassVariable, EndVariablePass, lists, loop
<1>2. VariableBudget
  BY <1>1 DEF VarbufInv
<1>3. VariableBudget'
  BY <1>1, <1>2 DEF VariableBudget
<1>4. Packing /\ Packing'
  BY <1>1 DEF Packing
<1> QED BY <1>1, <1>3, <1>4, VarbufOthers

(* The buffer in the registers is what the chunks took from the budget.    *)
LEMMA VarbufLayout ==
  ASSUME TypeOK, BudgetInv, VarbufInv, AddRegisterBuffer \/ NoRegisterBuffer
  PROVE  VarbufInv'
<1> DEFINE varbuf == NewChunk(chunkID + 1, "varbuf", oldRemaining - remaining, W,
                              {chan}, TRUE)
           bytes == VarBytes(regVar[chan])
<1>0. /\ chan \in Channel /\ regFixed[chan] \in Seq(SizedChunk)
      /\ remaining \in Nat /\ oldRemaining \in Nat /\ bytes \in Nat
  BY VarBytesType DEF TypeOK
<1>1. /\ phase = "layout" /\ chan' = chan
      /\ UNCHANGED <<regVar, memFixed, memVar>>
  BY DEF AddRegisterBuffer, NoRegisterBuffer, lists
<1>2. oldRemaining - remaining >= bytes
  BY <1>1 DEF VarbufInv, VariableBudget
<1>3. CASE AddRegisterBuffer
  <2>1. varbuf \in SizedChunk /\ varbuf.part = "varbuf" /\ varbuf.size = oldRemaining - remaining
    <3>1. chunkID + 1 \in Nat /\ oldRemaining - remaining \in Nat
      BY <1>3 DEF AddRegisterBuffer, TypeOK
    <3>2. "varbuf" \in Parts /\ {chan} \in SUBSET Channel /\ TRUE \in BOOLEAN /\ W \in Nat \ {0}
      BY <1>0, ConnectionAssumption DEF Parts
    <3>3. varbuf \in ChunkOf(Nat)
      BY <3>1, <3>2, NewChunkType, Zenon
    <3>4. varbuf.part = "varbuf" /\ varbuf.size = oldRemaining - remaining
      BY DEF NewChunk
    <3> QED BY <3>3, <3>4 DEF SizedChunk
  <2>2. regFixed' = [regFixed EXCEPT ![chan] = LaidOut(AddWithPrio(regFixed[chan], varbuf, 99))]
        /\ phase' \in {"memory", "varbuf_overflow"}
    BY <1>3 DEF AddRegisterBuffer
  <2> HIDE DEF varbuf, bytes
  <2>3. HoldsVariable(regFixed'[chan], bytes)
    <3>1. regFixed'[chan] = LaidOut(AddWithPrio(regFixed[chan], varbuf, 99))
      BY <1>0, <2>2 DEF TypeOK
    <3>2. bytes <= varbuf.size
      BY <1>2, <2>1, <1>0
    <3> QED BY <1>0, <2>1, <3>1, <3>2, VarbufAdded
  <2>4. \A c \in Channel : c # chan => regFixed'[c] = regFixed[c]
    BY <2>2 DEF TypeOK
  <2>5. CASE phase' = "memory"
    <3>1. Packing /\ Packing'
      BY <1>1, <2>5 DEF Packing
    <3> QED BY <1>1, <2>3, <2>4, <2>5, <3>1, VarbufOthers DEF bytes
  <2>6. CASE phase' = "varbuf_overflow"
    BY <2>6 DEF VarbufInv, Unpacked, Behind, Packing, AllPacked, Marshalled, Waiting
  <2> QED BY <2>2, <2>5, <2>6
<1>4. CASE NoRegisterBuffer
  <2>1. phase' = "memory" /\ remaining >= oldRemaining /\ regFixed' = regFixed
    BY <1>4 DEF NoRegisterBuffer, lists
  <2>2. ~(bytes > 0)
    <3> HIDE DEF bytes
    <3> QED BY <1>0, <1>2, <2>1
  <2>3. HoldsVariable(regFixed'[chan], VarBytes(regVar'[chan]))
    BY <1>1, <2>2 DEF HoldsVariable
  <2>4. Packing /\ Packing'
    BY <1>1, <2>1 DEF Packing
  <2> QED BY <1>1, <2>1, <2>3, <2>4, VarbufOthers
<1> QED BY <1>3, <1>4

(* The buffer in the memory message is made for what is left.              *)
LEMMA VarbufMemory ==
  ASSUME TypeOK, BudgetInv, VarbufInv, LayoutMemory
  PROVE  VarbufInv'
<1> DEFINE bytes == VarBytes(memVar[chan])
           varbuf == NewChunk(chunkID + 1, "varbuf", bytes, W, {chan}, FALSE)
<1>0. /\ chan \in Channel /\ memFixed[chan] \in Seq(SizedChunk) /\ bytes \in Nat
      /\ \A c \in Channel : c \in Nat
  BY VarBytesType, ChannelType DEF TypeOK
<1>1. /\ phase = "memory"
      /\ memFixed' = [memFixed EXCEPT ![chan] =
                        LaidOut(IF bytes > 0 THEN AddWithPrio(@, varbuf, 99) ELSE @)]
      /\ UNCHANGED <<regFixed, regVar, memVar>>
      /\ \/ chan = NumExceptions + 1 /\ phase' = "collect"
         \/ chan' = chan + 1 /\ phase' = "budget"
  BY DEF LayoutMemory, Advance
<1>2. varbuf \in SizedChunk /\ varbuf.part = "varbuf" /\ varbuf.size = bytes
  <2>1. chunkID + 1 \in Nat
    BY DEF TypeOK
  <2>2. "varbuf" \in Parts /\ {chan} \in SUBSET Channel /\ FALSE \in BOOLEAN /\ W \in Nat \ {0}
    BY <1>0, ConnectionAssumption DEF Parts
  <2>3. varbuf.part = "varbuf" /\ varbuf.size = bytes
    BY DEF NewChunk
  <2> HIDE DEF bytes
  <2>4. varbuf \in ChunkOf(Nat)
    BY <1>0, <2>1, <2>2, NewChunkType, Zenon
  <2> QED BY <2>3, <2>4 DEF SizedChunk
<1> HIDE DEF varbuf, bytes
<1>3. HoldsVariable(memFixed'[chan], bytes)
  <2>1. CASE bytes > 0
    <3>1. memFixed'[chan] = LaidOut(AddWithPrio(memFixed[chan], varbuf, 99))
      BY <1>0, <1>1, <2>1 DEF TypeOK
    <3> QED BY <1>0, <1>2, <3>1, VarbufAdded
  <2>2. CASE ~(bytes > 0)
    BY <2>2 DEF HoldsVariable
  <2> QED BY <2>1, <2>2
<1>4. \A c \in Channel : c # chan => memFixed'[c] = memFixed[c]
  BY <1>1 DEF TypeOK
<1>5. \A c \in Channel : c \in 0 .. NumExceptions + 1
  BY DEF Channel
<1>6. ASSUME NEW c \in Channel, Behind(c)'  PROVE c = chan \/ Behind(c)
  <2>1. CASE chan = NumExceptions + 1 /\ phase' = "collect"
    BY <1>0, <1>1, <1>5, <2>1, ConnectionAssumption DEF Behind, Packing
  <2>2. CASE chan' = chan + 1 /\ phase' = "budget"
    BY <1>0, <1>1, <1>6, <2>2 DEF Behind, Packing, AllPacked
  <2> QED BY <1>1, <2>1, <2>2
<1>7. ASSUME NEW c \in Channel, Behind(c)'
      PROVE  /\ HoldsVariable(regFixed'[c], VarBytes(regVar'[c]))
             /\ HoldsVariable(memFixed'[c], VarBytes(memVar'[c]))
  <2>1. CASE c = chan
    <3>1. HoldsVariable(regFixed[c], VarBytes(regVar[c]))
      BY <1>1, <2>1 DEF VarbufInv
    <3> QED BY <1>1, <1>3, <2>1, <3>1 DEF bytes
  <2>2. CASE c # chan
    <3>1. Behind(c)
      BY <1>6, <1>7, <2>2
    <3>2. HoldsVariable(regFixed[c], VarBytes(regVar[c])) /\ HoldsVariable(memFixed[c], VarBytes(memVar[c]))
      BY <3>1 DEF VarbufInv
    <3> QED BY <1>1, <1>4, <2>2, <3>2
  <2> QED BY <2>1, <2>2
<1>8. ASSUME NEW c \in Channel, Unpacked(c)'  PROVE regVar'[c] = <<>>
  <2>1. CASE chan' = chan + 1 /\ phase' = "budget"
    <3>1. Waiting(c)
      BY <1>0, <1>1, <1>8, <2>1 DEF Unpacked, Waiting, Packing, Marshalled
    <3> QED BY <1>1, <3>1 DEF VarbufInv, Unpacked
  <2>2. CASE phase' = "collect"
    BY <1>8, <2>2 DEF Unpacked, Waiting, Packing, Marshalled
  <2> QED BY <1>1, <2>1, <2>2
<1>9. phase' \in {"collect", "budget"}
  BY <1>1
<1> QED BY <1>7, <1>8, <1>9 DEF VarbufInv

(* Every step of the back end keeps what is known of the variable chunks.  *)
LEMMA VarbufNext == TypeOK /\ BudgetInv /\ VarbufInv /\ [Next]_vars => VarbufInv'
<1> SUFFICES ASSUME TypeOK, BudgetInv, VarbufInv, [Next]_vars  PROVE VarbufInv'
  OBVIOUS
<1>1. CASE UNCHANGED vars
  <2>1. UNCHANGED <<phase, chan, regFixed, regVar, memFixed, memVar, remaining, oldRemaining>>
    BY <1>1 DEF vars, lists, loop
  <2> QED BY <2>1 DEF VarbufInv, VariableBudget, Unpacked, Behind, Marshalled, Waiting, Packing, AllPacked
<1>2. CASE NumberBuffers
  <2>1. AllPacked /\ AllPacked' /\ UNCHANGED <<regFixed, regVar, memFixed, memVar>>
    BY <1>2 DEF NumberBuffers, CollectBuffer, CollectNextChannel, NumberString, NumberNextChannel,
       Advance, AllPacked, lists
  <2> QED BY <2>1, VarbufNumbering
<1>3. CASE Marshal \/ AddTags \/ PackChannel
  BY <1>3, VarbufStart, VarbufFixed, VarbufEndFixed, VarbufMove, VarbufWalk, VarbufLayout, VarbufMemory
     DEF PackChannel
<1> QED BY <1>1, <1>2, <1>3 DEF Next, Step, Finished

(* When the packing is over the shared buffers hold their chunks.          *)
LEMMA VarbufHolds == VarbufInv => VarbufsSuffice
  BY DEF VarbufInv, VarbufsSuffice, Behind, AllPacked, Done
=============================================================================
