------------------------------ MODULE X0Proofs ------------------------------
(***************************************************************************)
(* Proofs about the layout of X0Connection for operations with any number  *)
(* of parameters and exceptions: the lists hold chunks, the assertions of  *)
(* optimize hold, no two values get the same register, every value is in   *)
(* each of its messages once, both sides of a call find every word at the  *)
(* same distance and the reply overwrites no word of an unpadded request.  *)
(*                                                                         *)
(* The invariant says what each channel's registers hold in every phase,   *)
(* so that the four loops filling them add up, that the reply's            *)
(* displacement is a multiple of the alignment of all its words, and that  *)
(* client and server are that far apart wherever a word is placed.  How    *)
(* often a value is in a message is counted over the registers, the words  *)
(* and what the scan has taken: every loop moves chunks between the three. *)
(* Where the reply overlaps the request, the words they have in common are *)
(* at the same places because each is as close to the one before it as its *)
(* alignment allows, on either side of the displacement.                   *)
(***************************************************************************)
EXTENDS X0Message, CollectionProofs

-----------------------------------------------------------------------------
(* Chunks                                                                  *)

(* What the fields of a chunk range over.                                  *)
Flags == STANDARD \cup {INIT_ZERO, PINNED}
Number == Nat \cup {UNKNOWN}
Alignments == {1, 2, 4, 8}

(* The names of the parts of a message.                                    *)
Parts == {"eid", "fid", "value", "string", "data", "size", "temp", "fpage", "varbuf", "mapPad",
          "strPad", "shared", "_rcv_window", "_size_dope", "_send_dope", "_esp", "_ebp", "_caller"}

(* A value in a register that is shared.                                   *)
Member == [id : Number, part : Parts, size : Nat, align : Alignments]

(* What every list of the connection holds.                                *)
ChunkX == [id : Number, part : Parts, size : Nat, align : Alignments,
           chans : SUBSET Channel, flags : SUBSET Flags, index : Int, prio : Nat,
           members : Seq(Member), client : Int, server : Int,
           clientIndex : Int, serverIndex : Int]

(* Channels are numbers from 0 on, those of request and reply among them.  *)
LEMMA ChannelsX ==
  /\ Channel \subseteq Nat /\ CHANNEL_IN \in Channel /\ CHANNEL_OUT \in Channel
  /\ CHANNEL_OUT \in AllOut /\ AllOut \subseteq Channel /\ CHANNEL_IN \notin AllOut
  /\ IsFiniteSet(Channel)
<1>1. NumExceptions \in Nat
  BY ConnectionXAssumption
<1>2. IsFiniteSet(Channel)
  BY <1>1, FS_Interval DEF Channel
<1> QED BY <1>1, <1>2 DEF Channel, AllOut, CHANNEL_IN, CHANNEL_OUT

(* A new chunk is one, and has what it is given.                           *)
LEMMA NewChunkX ==
  ASSUME NEW id \in Number, NEW part \in Parts, NEW size \in Nat, NEW align \in Alignments,
         NEW chans \in SUBSET Channel, NEW flags \in SUBSET Flags
  PROVE  /\ Chunk(id, part, size, align, chans, flags) \in ChunkX
         /\ Chunk(id, part, size, align, chans, flags).id = id
         /\ Chunk(id, part, size, align, chans, flags).part = part
         /\ Chunk(id, part, size, align, chans, flags).size = size
         /\ Chunk(id, part, size, align, chans, flags).align = align
         /\ Chunk(id, part, size, align, chans, flags).chans = chans
         /\ Chunk(id, part, size, align, chans, flags).flags = flags
<1>1. UNKNOWN \in Int /\ 0 \in Nat /\ <<>> \in Seq(Member)
  BY DEF UNKNOWN
<1> QED BY <1>1 DEF Chunk, ChunkX

(* Another priority leaves the rest of a chunk as it was.                  *)
LEMMA PrioritizedX ==
  ASSUME NEW x \in ChunkX, NEW prio \in Nat
  PROVE  /\ Prioritized(x, prio) \in ChunkX
         /\ Prioritized(x, prio).prio = prio
         /\ Prioritized(x, prio).id = x.id
         /\ Prioritized(x, prio).part = x.part
         /\ Prioritized(x, prio).size = x.size
         /\ Prioritized(x, prio).align = x.align
         /\ Prioritized(x, prio).flags = x.flags
         /\ Prioritized(x, prio).index = x.index
         /\ Prioritized(x, prio).chans = x.chans
  BY DEF Prioritized, ChunkX

(* So does a request for an index.                                         *)
LEMMA PinnedX ==
  ASSUME NEW x \in ChunkX, NEW index \in Int
  PROVE  /\ Pinned(x, index) \in ChunkX
         /\ Pinned(x, index).id = x.id
         /\ Pinned(x, index).part = x.part
         /\ Pinned(x, index).size = x.size
         /\ Pinned(x, index).align = x.align
         /\ Pinned(x, index).flags = x.flags \cup {PINNED}
         /\ Pinned(x, index).index = index
         /\ Pinned(x, index).prio = x.prio
  BY DEF Pinned, ChunkX, Flags

-----------------------------------------------------------------------------
(* Lists of chunks                                                         *)

(* Whatever is added to a list in some channels is there and nothing else  *)
(* changes.                                                                *)
LEMMA AddedTo ==
  ASSUME NEW S, NEW list \in [Channel -> Seq(S)], NEW chans \in SUBSET Channel,
         NEW chunk, NEW prio, Prioritized(chunk, prio) \in S
  PROVE  /\ AddTo(list, chans, chunk, prio) \in [Channel -> Seq(S)]
         /\ \A c \in Channel \ chans : AddTo(list, chans, chunk, prio)[c] = list[c]
         /\ \A c \in chans :
              AddTo(list, chans, chunk, prio)[c] = AddWithPrio(list[c], chunk, prio)
<1>1. \A c \in Channel : AddWithPrio(list[c], chunk, prio) \in Seq(S)
  BY AddedElements
<1> QED BY <1>1 DEF AddTo

(* An element of the list with an addition is the addition or was there.   *)
LEMMA ElementsAdded ==
  ASSUME NEW S, NEW list \in Seq(S), NEW elem, NEW prio, Prioritized(elem, prio) \in S,
         NEW x \in ToSet(AddWithPrio(list, elem, prio))
  PROVE  x \in ToSet(list) \/ x = Prioritized(elem, prio)
<1> DEFINE at == PrioPosition(list, prio)
           added == AddWithPrio(list, elem, prio)
           n == Len(list)
<1>1. /\ at \in 1 .. n + 1 /\ added \in Seq(S) /\ Len(added) = n + 1
      /\ \A i \in 1 .. at - 1 : added[i] = list[i]
      /\ added[at] = Prioritized(elem, prio)
      /\ \A i \in at .. n : added[i + 1] = list[i]
  BY AddedElements
<1>2. n \in Nat /\ DOMAIN list = 1 .. n
  OBVIOUS
<1> HIDE DEF at, added, n
<1>3. PICK i \in 1 .. n + 1 : x = added[i]
  <2>1. DOMAIN added = 1 .. n + 1
    BY <1>1, <1>2
  <2> QED BY <2>1 DEF ToSet, added
<1>4. CASE i < at
  <2>1. i \in 1 .. at - 1 /\ i \in 1 .. n
    BY <1>1, <1>2, <1>4
  <2> QED BY <1>1, <1>2, <1>3, <2>1 DEF ToSet
<1>5. CASE i > at
  <2>1. i - 1 \in at .. n /\ (i - 1) + 1 = i /\ i - 1 \in 1 .. n
    BY <1>1, <1>2, <1>5
  <2>2. added[(i - 1) + 1] = list[i - 1]
    BY <1>1, <2>1
  <2> QED BY <1>2, <1>3, <2>1, <2>2 DEF ToSet
<1>6. CASE i = at
  BY <1>1, <1>3, <1>6
<1> QED BY <1>1, <1>3, <1>4, <1>5, <1>6

(* What is left of a list was in it.                                       *)
LEMMA ElementsLeft ==
  ASSUME NEW S, NEW list \in Seq(S), NEW at \in 1 .. Len(list),
         NEW x \in ToSet(RemoveElement(list, at))
  PROVE  x \in ToSet(list)
<1> DEFINE left == RemoveElement(list, at)
           n == Len(list)
<1>1. /\ left \in Seq(S) /\ Len(left) = n - 1
      /\ \A i \in 1 .. at - 1 : left[i] = list[i]
      /\ \A i \in at .. n - 1 : left[i] = list[i + 1]
  BY RemoveAtElements DEF RemoveElement
<1>2. n \in Nat /\ DOMAIN list = 1 .. n /\ at \in 1 .. n
  OBVIOUS
<1> HIDE DEF left, n
<1>3. PICK i \in 1 .. n - 1 : x = left[i]
  <2>1. DOMAIN left = 1 .. n - 1
    BY <1>1, <1>2
  <2> QED BY <2>1 DEF ToSet, left
<1>4. CASE i < at
  <2>1. i \in 1 .. at - 1 /\ i \in 1 .. n
    BY <1>2, <1>4
  <2> QED BY <1>1, <1>2, <1>3, <2>1 DEF ToSet
<1>5. CASE i >= at
  <2>1. i \in at .. n - 1 /\ i + 1 \in 1 .. n
    BY <1>2, <1>5
  <2> QED BY <1>1, <1>2, <1>3, <2>1 DEF ToSet
<1> QED BY <1>2, <1>4, <1>5

(* Induction up to a bound.                                                *)
LEMMA UpToInduction ==
  ASSUME NEW n \in Nat, NEW S, 0 \in S, \A i \in 0 .. n - 1 : i \in S => i + 1 \in S
  PROVE  0 .. n \subseteq S
<1> DEFINE G == {k \in Nat : k <= n => k \in S}
<1>1. 0 \in G
  OBVIOUS
<1>2. ASSUME NEW k \in Nat, k \in G  PROVE k + 1 \in G
  <2> SUFFICES ASSUME k + 1 <= n  PROVE k + 1 \in S
    OBVIOUS
  <2>1. k \in 0 .. n - 1 /\ k \in S
    BY <1>2
  <2> QED BY <2>1
<1> HIDE DEF G
<1>3. Nat \subseteq G
  BY <1>1, <1>2, NatSetInduction
<1> QED BY <1>3 DEF G

(* f starts with base, and goes from each value to the next by a step.     *)
Follows(f, V, n, base, step) ==
  f \in [0 .. n -> V] /\ f[0] = base /\ \A i \in 1 .. n : f[i] = step[i][f[i - 1]]

(* A function can be defined from each value to the next.                  *)
LEMMA RecursiveFunction ==
  ASSUME NEW V, NEW n \in Nat, NEW base \in V, NEW step \in [1 .. n -> [V -> V]]
  PROVE  \E f : Follows(f, V, n, base, step)
<1> DEFINE Rule(f, k) == f[0] = base /\ \A i \in 1 .. k : f[i] = step[i][f[i - 1]]
           S == {k \in 0 .. n : \E f \in [0 .. k -> V] : Rule(f, k)}
<1>1. 0 \in S
  <2> DEFINE g == [i \in 0 .. 0 |-> base]
  <2>1. g \in [0 .. 0 -> V] /\ Rule(g, 0)
    OBVIOUS
  <2> HIDE DEF g, Rule
  <2> QED BY <2>1
<1>2. ASSUME NEW k \in 0 .. n - 1, k \in S  PROVE k + 1 \in S
  <2>1. PICK f \in [0 .. k -> V] : Rule(f, k)
    BY <1>2
  <2> DEFINE g == [i \in 0 .. k + 1 |-> IF i <= k THEN f[i] ELSE step[k + 1][f[k]]]
  <2>2. step[k + 1][f[k]] \in V
    <3>1. k + 1 \in 1 .. n /\ f[k] \in V
      OBVIOUS
    <3> QED BY <3>1
  <2>3. g \in [0 .. k + 1 -> V]
    BY <2>2
  <2>4. Rule(g, k + 1)
    <3>1. g[0] = base
      BY <2>1
    <3>2. ASSUME NEW i \in 1 .. k + 1  PROVE g[i] = step[i][g[i - 1]]
      <4>1. CASE i <= k
        <5>1. i \in 1 .. k /\ i - 1 \in 0 .. k + 1 /\ i - 1 <= k /\ i \in 0 .. k + 1
          BY <4>1
        <5>2. g[i] = f[i] /\ g[i - 1] = f[i - 1]
          BY <4>1, <5>1
        <5> QED BY <2>1, <5>1, <5>2
      <4>2. CASE i = k + 1
        <5>1. i - 1 = k /\ ~(i <= k) /\ k \in 0 .. k + 1 /\ k <= k /\ i \in 0 .. k + 1
          BY <4>2
        <5>2. g[i - 1] = f[k] /\ g[i] = step[k + 1][f[k]]
          BY <5>1
        <5> QED BY <4>2, <5>2
      <4> QED BY <4>1, <4>2
    <3> QED BY <3>1, <3>2
  <2>5. k + 1 \in 0 .. n
    OBVIOUS
  <2> HIDE DEF Rule, g
  <2> QED BY <2>3, <2>4, <2>5
<1>3. n \in S
  <2> HIDE DEF S
  <2>1. 0 .. n \subseteq S
    BY <1>1, <1>2, UpToInduction
  <2> QED BY <2>1
<1>4. PICK f \in [0 .. n -> V] : Rule(f, n)
  BY <1>3
<1>5. Follows(f, V, n, base, step)
  BY <1>4 DEF Follows
<1> QED BY <1>5

(* sum counts the bytes of a list from its front on.                       *)
Summing(list, sum) ==
  /\ sum \in [0 .. Len(list) -> Nat]
  /\ sum[0] = 0
  /\ \A i \in 1 .. Len(list) : sum[i] = sum[i - 1] + list[i].size

(* The bytes of a list can be counted so.                                  *)
LEMMA BytesSum ==
  ASSUME NEW S, NEW list \in Seq(S), \A x \in S : x.size \in Nat
  PROVE  \E sum : Summing(list, sum) /\ Bytes(list) = sum[Len(list)]
<1> DEFINE n == Len(list)
           Def(f) == [i \in 0 .. n |-> IF i = 0 THEN 0 ELSE f[i - 1] + list[i].size]
           sum == CHOOSE f : f = Def(f)
           step == [i \in 1 .. n |-> [v \in Nat |-> v + list[i].size]]
<1>1. n \in Nat /\ \A i \in 1 .. n : list[i].size \in Nat
  OBVIOUS
<1>2. step \in [1 .. n -> [Nat -> Nat]]
  BY <1>1
<1>3. PICK f : Follows(f, Nat, n, 0, step)
  <2> HIDE DEF step, n
  <2>1. 0 \in Nat
    OBVIOUS
  <2> QED BY <1>1, <1>2, <2>1, RecursiveFunction, Zenon
<1>4. f = Def(f)
  <2>1. ASSUME NEW i \in 1 .. n  PROVE f[i] = f[i - 1] + list[i].size
    <3>1. i - 1 \in 0 .. n
      BY <1>1
    <3>2. f[i - 1] \in Nat
      BY <1>3, <3>1 DEF Follows
    <3>3. step[i][f[i - 1]] = f[i - 1] + list[i].size
      BY <3>2
    <3> QED BY <1>3, <3>3 DEF Follows
  <2> QED BY <1>1, <1>3, <2>1 DEF Follows
<1>5. sum = Def(sum)
  <2> HIDE DEF Def
  <2> QED BY <1>4
<1>6. Bytes(list) = sum[n]
  BY DEF Bytes
<1> HIDE DEF sum
<1>7. sum[0] = 0 /\ \A i \in 1 .. n : sum[i] = sum[i - 1] + list[i].size
  BY <1>1, <1>5
<1> DEFINE G == {i \in 0 .. n : sum[i] \in Nat}
<1>8. ASSUME NEW i \in 0 .. n - 1, i \in G  PROVE i + 1 \in G
  <2>1. i + 1 \in 0 .. n /\ (i + 1) - 1 = i /\ i + 1 \in 1 .. n
    BY <1>1
  <2>2. sum[i + 1] = sum[i] + list[i + 1].size
    BY <1>7, <2>1
  <2> QED BY <1>1, <1>8, <2>1, <2>2
<1>9. 0 .. n \subseteq G
  <2> HIDE DEF n
  <2>1. 0 \in G
    BY <1>1, <1>7
  <2> HIDE DEF G
  <2> QED BY <1>1, <1>8, <2>1, UpToInduction
<1>10. sum \in [0 .. n -> Nat]
  BY <1>5, <1>9
<1> QED BY <1>6, <1>7, <1>10 DEF Summing

(* So they are a number.                                                   *)
LEMMA BytesType ==
  ASSUME NEW S, NEW list \in Seq(S), \A x \in S : x.size \in Nat
  PROVE  Bytes(list) \in Nat
<1>1. PICK sum : Summing(list, sum) /\ Bytes(list) = sum[Len(list)]
  BY BytesSum
<1>2. Len(list) \in 0 .. Len(list)
  OBVIOUS
<1> QED BY <1>1, <1>2 DEF Summing

-----------------------------------------------------------------------------
(* The inductive invariant                                                 *)

(* A chunk among the words has room on both sides and is one value; only   *)
(* the padding behind map items is pinned there, as large as they are.     *)
WordChunk ==
  {x \in ChunkX :
     /\ x.id \in Nat
     /\ ALLOC_CLIENT \in x.flags /\ ALLOC_SERVER \in x.flags
     /\ PINNED \in x.flags \/ x.prio = PRIO_MAP => x.size = 8
     /\ x.part \in Untyped => x.align = WordSize
     /\ x.part # "shared"}

(* A chunk that may go to any register.                                    *)
Loose(x) == PINNED \notin x.flags /\ x.size <= WordSize

(* The phases in the order in which optimize goes through them.            *)
Calls == {"options", "marshal", "varbufs"}
Measured == {"inout", "scan", "offset", "pad", "freeze", "restrict", "finalize", "done",
             "misaligned", "pin_assertion"}
Moved == {"pad", "freeze", "restrict", "finalize", "done", "misaligned", "pin_assertion"}
Frozen == {"restrict", "finalize", "done"}
Looping == {"reserve", "maps", "scan", "freeze", "pad_assertion", "misaligned", "pin_assertion"}

(* The type invariant, for every variable.                                 *)
TypesX ==
  /\ phase \in Calls \cup {"reserve", "maps", "pad_assertion", "align"} \cup Measured
  /\ sig \in Signature
  /\ platform \in {"generic", "ia32"}
  /\ pos \in 0 .. Len(sig.params)
  /\ chunkID \in Nat
  /\ channelInitialized \in SUBSET Channel
  /\ dopes \in [Channel -> Seq(ChunkX)]
  /\ registers \in [Channel -> Seq(ChunkX)]
  /\ dwords \in [Channel -> Seq(WordChunk)]
  /\ vars_ \in [Channel -> Seq(ChunkX)]
  /\ IF phase = "done" THEN \A c \in Channel : \A i \in DOMAIN strings[c] : IsChunk(strings[c][i])
     ELSE strings \in [Channel -> Seq(ChunkX)]
  /\ chan \in Channel
  /\ cursor \in Nat \ {0}
  /\ regsUsed \in [Channel -> 0 .. NumRegs]
  /\ pinIndex \in Nat
  /\ candidates \in Seq(ChunkX)
  /\ regsLeft \in 0 .. NumRegs
  /\ outAlign \in {4, 8}
  /\ svrOutputOffset \in Nat
  /\ clientPos \in Int
  /\ serverPos \in Int

(* The loops over channels and lists begin at the first ones, with nothing *)
(* taken yet.                                                              *)
LoopsX ==
  /\ phase \notin Looping => chan = CHANNEL_IN
  /\ phase \notin {"scan", "freeze", "misaligned", "pin_assertion"} => cursor = 1
  /\ phase # "scan" => candidates = <<>>

(* All channels are initialized by the time the parameters are marshalled, *)
(* and a one-way operation has nothing in any channel but the request.     *)
ChannelsInv ==
  /\ channelInitialized = IF phase = "options" THEN {CHANNEL_IN} ELSE Channel
  /\ sig.oneway => \A c \in AllOut : dwords[c] = <<>> /\ vars_[c] = <<>>

(* Both halves of a value that goes both ways are alike.                   *)
Twins(x, y) == HasOut(x) /\ x.size = y.size /\ x.align = y.align

(* Words have different numbers, unless they are such halves.              *)
IdsInv ==
  /\ \A c \in Channel : IdsDistinct(dwords[c]) /\ \A x \in ToSet(dwords[c]) : x.id <= chunkID
  /\ \A x \in ToSet(dwords[CHANNEL_IN]), y \in ToSet(dwords[CHANNEL_OUT]) :
       x.id = y.id => Twins(x, y)

(* The reply is aligned as strictly as anything in it.                     *)
AlignInv ==
  /\ phase \in Measured => \A x \in ToSet(dwords[CHANNEL_OUT]) : x.align <= outAlign
  /\ phase \in Moved => svrOutputOffset % outAlign = 0

-----------------------------------------------------------------------------
(* Registers                                                               *)

(* The function number and the exception code.                             *)
Ident(x) ==
  x.prio = PRIO_ID /\ PINNED \in x.flags /\ x.index = NumRegs - 1 /\ x.size = WordSize

(* A value of the operation in a register.                                 *)
Value(x) == Loose(x) /\ x.prio \in {PRIO_INOUT_FIXED, PRIO_OUT_FIXED}

(* A map item in the first two registers.                                  *)
MapItem(x) == x.prio = PRIO_MAP /\ PINNED \in x.flags /\ x.index = 0 /\ x.size = 8

(* Values, and behind them one identifier or none.                         *)
Plain(list, idents) ==
  /\ idents \in {0, 1}
  /\ Len(list) >= idents
  /\ \A i \in 1 .. Len(list) - idents : Value(list[i])
  /\ idents = 1 => Ident(list[Len(list)])

(* A map item that left room for the identifier only.                      *)
Mapped(list) == NumRegs = 3 /\ Len(list) = 2 /\ MapItem(list[1]) /\ Ident(list[2])

(* The identifiers in the registers before theirs is reserved.             *)
Identified(c) ==
  IF phase = "options" THEN 0
  ELSE IF c = CHANNEL_IN /\ phase \in {"marshal", "varbufs", "reserve"} THEN 0
  ELSE Reserved(c)

(* No more than the identifier is in the registers of a channel.           *)
Bare(c) == Plain(registers[c], Identified(c)) /\ Len(registers[c]) = Identified(c)

(* regsUsed counts the registers taken.                                    *)
Counted(c) ==
  \/ /\ Plain(registers[c], Reserved(c))
     /\ Len(registers[c]) = regsUsed[c]
  \/ /\ Mapped(registers[c])
     /\ Reserved(c) = 1
     /\ regsUsed[c] = NumRegs

(* The registers of a channel once the scan has added what fits.           *)
Filled(c) ==
  \/ /\ Plain(registers[c], Reserved(c))
     /\ Len(registers[c]) <= NumRegs
  \/ Mapped(registers[c]) /\ Reserved(c) = 1

(* What the registers of a channel hold in every phase.                    *)
RegistersInv ==
  /\ phase \in Calls => \A c \in Channel : Bare(c)
  /\ phase = "reserve" =>
       \A c \in Channel : IF c < chan THEN Counted(c) ELSE Bare(c)
  /\ phase = "maps" =>
       /\ \A c \in Channel : IF c <= chan THEN Counted(c) ELSE Bare(c)
       /\ \/ pinIndex = 0 /\ Bare(chan)
          \/ pinIndex = 2 /\ Mapped(registers[chan])
  /\ phase \in {"align", "inout"} => \A c \in Channel : Counted(c)
  /\ phase = "scan" =>
       /\ \A c \in Channel : IF c < chan THEN Filled(c) ELSE Counted(c)
       /\ regsUsed[chan] + Len(candidates) + regsLeft = NumRegs
       /\ \A i \in DOMAIN candidates : Loose(candidates[i])
  /\ phase \in Moved \cup {"offset"} => \A c \in Channel : Filled(c)

-----------------------------------------------------------------------------
(* Positions                                                               *)

(* How much further a channel's words are on the server.                   *)
Displacement(c) == IF c = CHANNEL_OUT THEN svrOutputOffset ELSE 0

(* A word at the same place of the message on both sides.                  *)
Placed(c, i) == dwords[c][i].server = dwords[c][i].client + Displacement(c)

(* Where a register is: the identifier in the last one.                    *)
Register(c, i) ==
  IF Reserved(c) = 1 /\ i = Len(registers[c]) THEN NumRegs - 1 ELSE i - 1

(* The registers of a channel where Register says.                         *)
Settled(c) ==
  \A i \in DOMAIN registers[c] :
    /\ registers[c][i].clientIndex = Register(c, i)
    /\ registers[c][i].client = DopeSize + WordSize * Register(c, i)

(* What is frozen is where it should be, and the next word will be, too.   *)
PlacesInv ==
  /\ phase = "freeze" =>
       /\ serverPos = clientPos + Displacement(chan)
       /\ \A c \in Channel : c < chan => Settled(c) /\ \A i \in DOMAIN dwords[c] : Placed(c, i)
       /\ \A i \in DOMAIN dwords[chan] : i < cursor => Placed(chan, i)
  /\ phase \in Frozen =>
       \A c \in Channel : Settled(c) /\ \A i \in DOMAIN dwords[c] : Placed(c, i)

(* No assertion of optimize has failed.                                    *)
NoFailure == phase \notin {"pad_assertion", "misaligned", "pin_assertion"}

(* The inductive invariant.                                                *)
LayoutInvX ==
  /\ TypesX
  /\ LoopsX
  /\ ChannelsInv
  /\ IdsInv
  /\ AlignInv
  /\ RegistersInv
  /\ PlacesInv
  /\ NoFailure

(* The priorities are numbers.                                             *)
LEMMA PrioritiesX ==
  /\ \A chans : Priority(chans) \in {PRIO_IN_FIXED, PRIO_INOUT_FIXED, PRIO_OUT_FIXED}
  /\ \A chans : StringPriority(chans) \in {PRIO_IN_STRING, PRIO_INOUT_STRING, PRIO_OUT_STRING}
  BY DEF Priority, StringPriority, ByDirection

(* A chunk given a priority is still one, and one among the words if it    *)
(* has the size of a map item or is no map item.                           *)
LEMMA PrioritizedWord ==
  ASSUME NEW x \in ChunkX, x.id \in Nat, ALLOC_CLIENT \in x.flags, ALLOC_SERVER \in x.flags,
         PINNED \in x.flags => x.size = 8, x.part \in Untyped => x.align = WordSize,
         x.part # "shared", NEW prio \in Nat, prio = PRIO_MAP => x.size = 8
  PROVE  Prioritized(x, prio) \in WordChunk
  BY PrioritizedX DEF WordChunk

(* What a chunk among the words is.                                        *)
LEMMA WordFacts ==
  ASSUME NEW x \in WordChunk
  PROVE  /\ x \in ChunkX /\ x.id \in Nat /\ x.size \in Nat /\ x.align \in Alignments
         /\ x.prio \in Nat /\ x.flags \subseteq Flags /\ x.index \in Int /\ x.part \in Parts
         /\ x.chans \subseteq Channel
         /\ ALLOC_CLIENT \in x.flags /\ ALLOC_SERVER \in x.flags
         /\ PINNED \in x.flags \/ x.prio = PRIO_MAP => x.size = 8
         /\ x.part \in Untyped => x.align = WordSize
         /\ x.part # "shared"
  BY DEF WordChunk, ChunkX

(* The flags of new chunks.                                                *)
LEMMA FlagFacts ==
  /\ STANDARD \subseteq Flags /\ PINNED \in Flags /\ ALLOC_SERVER \in Flags
  /\ ALLOC_CLIENT \in STANDARD /\ ALLOC_SERVER \in STANDARD
  /\ PINNED \notin STANDARD /\ XFER_FIXED # ALLOC_CLIENT /\ XFER_FIXED # ALLOC_SERVER
  BY DEF Flags, STANDARD, PINNED, ALLOC_CLIENT, ALLOC_SERVER, XFER_FIXED, XFER_COPY, INIT_ZERO

(* The invariant holds at first: all lists are empty.                      *)
LEMMA InitX == Init => LayoutInvX
<1> SUFFICES ASSUME Init  PROVE LayoutInvX
  OBVIOUS
<1>1. phase = "options" /\ chan = CHANNEL_IN /\ cursor = 1 /\ candidates = <<>>
  BY DEF Init
<1>2. /\ sig \in Signature /\ platform \in {"generic", "ia32"}
      /\ sig.params \in Seq(Parameter) /\ NumRegs \in Nat
  BY ConnectionXAssumption DEF Init, Signature
<1>3. /\ dopes = [c \in Channel |-> <<>>] /\ registers = [c \in Channel |-> <<>>]
      /\ dwords = [c \in Channel |-> <<>>] /\ vars_ = [c \in Channel |-> <<>>]
      /\ strings = [c \in Channel |-> <<>>]
  BY DEF Init
<1>4. TypesX
  <2>1. /\ pos = 0 /\ chunkID = 0 /\ channelInitialized = {CHANNEL_IN}
        /\ regsUsed = [c \in Channel |-> 0] /\ pinIndex = 0 /\ regsLeft = 0
        /\ outAlign = 4 /\ svrOutputOffset = 0 /\ clientPos = 0 /\ serverPos = 0
    BY DEF Init, WordSize
  <2>2. pos \in 0 .. Len(sig.params)
    BY <1>2, <2>1
  <2> QED BY <1>1, <1>2, <1>3, <2>1, <2>2, ChannelsX DEF TypesX, Calls
<1>5. LoopsX
  BY <1>1 DEF LoopsX, Looping
<1>6. ChannelsInv
  BY <1>1, <1>3, ChannelsX DEF ChannelsInv, Init
<1>7. IdsInv
  <2>1. \A c \in Channel : ToSet(dwords[c]) = {}
    BY <1>3 DEF ToSet
  <2>2. \A c \in Channel : IdsDistinct(dwords[c])
    BY <1>3 DEF IdsDistinct
  <2> QED BY <2>1, <2>2, ChannelsX DEF IdsInv
<1>8. AlignInv
  BY <1>1 DEF AlignInv, Measured, Moved
<1>9. RegistersInv
  <2>1. \A c \in Channel : Bare(c)
    BY <1>1, <1>3 DEF Bare, Plain, Identified
  <2> QED BY <1>1, <2>1 DEF RegistersInv, Moved
<1>10. PlacesInv /\ NoFailure
  BY <1>1 DEF PlacesInv, Frozen, NoFailure
<1> QED BY <1>4, <1>5, <1>6, <1>7, <1>8, <1>9, <1>10 DEF LayoutInvX

-----------------------------------------------------------------------------
(* The types are kept: the calls                                           *)

(* The parameter at hand, while there is one.                              *)
LEMMA ParameterX ==
  ASSUME TypesX, NEW kind, Marshalling(kind)
  PROVE  /\ Parameter_ \in Parameter /\ Parameter_.chans \subseteq {CHANNEL_IN, CHANNEL_OUT}
         /\ Parameter_.chans \subseteq Channel /\ Parameter_.align \in Alignments
         /\ Parameter_.size \in Nat \cup {UNKNOWN}
         /\ Parameter_.kind = kind /\ (kind = "fixed" => Parameter_.size \in Nat)
         /\ pos' \in 0 .. Len(sig.params)
         /\ sig.oneway => CHANNEL_OUT \notin Parameter_.chans
<1>1. sig \in Signature /\ pos \in 0 .. Len(sig.params) /\ pos < Len(sig.params) /\ pos' = pos + 1
  BY DEF TypesX, Marshalling
<1>2. /\ sig.params \in Seq(Parameter)
      /\ sig.oneway => \A i \in DOMAIN sig.params : CHANNEL_OUT \notin sig.params[i].chans
  BY <1>1 DEF Signature
<1>3. Len(sig.params) \in Nat /\ pos + 1 \in DOMAIN sig.params /\ pos' \in 0 .. Len(sig.params)
  BY <1>1, <1>2
<1>4. Parameter_ \in Parameter
  BY <1>2, <1>3 DEF Parameter_
<1>5. sig.oneway => CHANNEL_OUT \notin Parameter_.chans
  BY <1>2, <1>3 DEF Parameter_
<1>6. Parameter_.kind = kind
  BY DEF Marshalling
<1> QED BY <1>3, <1>4, <1>5, <1>6, ChannelsX DEF Parameter, Alignments

(* What a fixed chunk in the words or in the registers looks like.         *)
LEMMA FixedCopyX ==
  ASSUME TypesX, NEW chans \in SUBSET Channel, NEW size \in Nat, NEW align \in Alignments,
         FixedCopyChunk(chans, size, align)
  PROVE  /\ chunkID' \in Nat /\ channelInitialized' \in SUBSET Channel
         /\ registers' \in [Channel -> Seq(ChunkX)] /\ dwords' \in [Channel -> Seq(WordChunk)]
<1>1. /\ chunkID \in Nat /\ channelInitialized \in SUBSET Channel
      /\ registers \in [Channel -> Seq(ChunkX)] /\ dwords \in [Channel -> Seq(WordChunk)]
  BY DEF TypesX
<1> DEFINE fresh == chans \ channelInitialized
           code == Chunk(0, "eid", size, align, {}, STANDARD)
           eid == Pinned(code, NumRegs - 1)
           value == Chunk(chunkID + 1, "value", size, align, chans, STANDARD)
           prio == Priority(chans)
<1>2. /\ registers' = AddTo(registers, fresh, eid, PRIO_ID)
      /\ dwords' = AddTo(dwords, chans \ fresh, value, prio)
      /\ chunkID' = chunkID + 1 /\ channelInitialized' = channelInitialized \cup chans
  BY DEF FixedCopyChunk
<1>3. Prioritized(eid, PRIO_ID) \in ChunkX
  <2>1. 0 \in Number /\ "eid" \in Parts /\ {} \in SUBSET Channel /\ NumRegs - 1 \in Int
    BY ConnectionXAssumption DEF Parts, Number
  <2>2. code \in ChunkX
    BY <2>1, FlagFacts, NewChunkX
  <2>3. eid \in ChunkX
    BY <2>1, <2>2, PinnedX
  <2> HIDE DEF eid
  <2> QED BY <2>3, PrioritizedX DEF PRIO_ID
<1>4. Prioritized(value, prio) \in WordChunk
  <2>1. chunkID + 1 \in Number /\ chunkID + 1 \in Nat /\ "value" \in Parts
    BY <1>1 DEF Parts, Number
  <2>2. /\ value \in ChunkX /\ value.id = chunkID + 1 /\ value.flags = STANDARD
        /\ value.part = "value"
    BY <2>1, FlagFacts, NewChunkX
  <2>3. prio \in Nat /\ prio # PRIO_MAP
    BY PrioritiesX DEF PRIO_IN_FIXED, PRIO_INOUT_FIXED, PRIO_OUT_FIXED, PRIO_MAP
  <2>4. "value" \notin Untyped
    BY DEF Untyped
  <2> HIDE DEF value, prio
  <2> QED BY <2>1, <2>2, <2>3, <2>4, FlagFacts, PrioritizedWord
<1> HIDE DEF value, prio, eid
<1>5. registers' \in [Channel -> Seq(ChunkX)]
  <2>1. fresh \in SUBSET Channel
    OBVIOUS
  <2> QED BY <1>1, <1>2, <1>3, <2>1, AddedTo
<1>6. dwords' \in [Channel -> Seq(WordChunk)]
  <2>1. chans \ fresh \in SUBSET Channel
    OBVIOUS
  <2> QED BY <1>1, <1>2, <1>4, <2>1, AddedTo
<1>7. chunkID' \in Nat /\ channelInitialized' \in SUBSET Channel
  BY <1>1, <1>2
<1> QED BY <1>5, <1>6, <1>7

(* The variables only optimize changes.                                    *)
Passive == <<sig, platform, cursor, regsUsed, pinIndex, candidates, regsLeft, outAlign,
             svrOutputOffset, clientPos, serverPos>>

(* The calls keep the types.                                               *)
LEMMA TypesMarshal == TypesX /\ Marshal => TypesX'
<1> SUFFICES ASSUME TypesX, Marshal  PROVE TypesX'
  OBVIOUS
<1>1. phase \in {"options", "marshal"} /\ phase' = "marshal"
  BY DEF Marshal, SetOption, MarshalExceptionCode, GetFixedCopyChunk, GetStringChunk,
     GetVarbufChunk, GetMapChunk, Marshalling
<1>2. UNCHANGED <<Passive, chan, dopes>>
  BY DEF Marshal, SetOption, MarshalExceptionCode, GetFixedCopyChunk, GetStringChunk,
     GetVarbufChunk, GetMapChunk, Marshalling, FixedCopyChunk, Passive, packing, offsets, place,
     lists
<1>3. /\ chunkID \in Nat /\ channelInitialized \in SUBSET Channel /\ pos \in 0 .. Len(sig.params)
      /\ registers \in [Channel -> Seq(ChunkX)] /\ dwords \in [Channel -> Seq(WordChunk)]
      /\ vars_ \in [Channel -> Seq(ChunkX)] /\ strings \in [Channel -> Seq(ChunkX)]
  BY <1>1 DEF TypesX
<1>4. phase' \in Calls /\ phase' # "done"
  BY <1>1 DEF Calls
<1>5. /\ pos' \in 0 .. Len(sig.params) /\ chunkID' \in Nat
      /\ channelInitialized' \in SUBSET Channel
      /\ registers' \in [Channel -> Seq(ChunkX)] /\ dwords' \in [Channel -> Seq(WordChunk)]
      /\ vars_' \in [Channel -> Seq(ChunkX)] /\ strings' \in [Channel -> Seq(ChunkX)]
  <2>1. CASE SetOption
    BY <1>3, <2>1, ChannelsX DEF SetOption, lists
  <2>2. CASE MarshalExceptionCode
    <3>1. /\ FixedCopyChunk(AllOut, WordSize, WordSize) /\ pos' = pos /\ vars_' = vars_
          /\ strings' = strings
      BY <2>2 DEF MarshalExceptionCode, FixedCopyChunk
    <3>2. AllOut \in SUBSET Channel /\ WordSize \in Nat /\ WordSize \in Alignments
      BY ChannelsX DEF WordSize, Alignments
    <3> QED BY <1>3, <3>1, <3>2, FixedCopyX
  <2>3. CASE GetFixedCopyChunk
    <3>1. /\ Marshalling("fixed") /\ vars_' = vars_ /\ strings' = strings
          /\ FixedCopyChunk(Parameter_.chans, Parameter_.size, Parameter_.align)
      BY <2>3 DEF GetFixedCopyChunk, FixedCopyChunk
    <3>2. /\ Parameter_.chans \in SUBSET Channel /\ Parameter_.size \in Nat
          /\ Parameter_.align \in Alignments /\ pos' \in 0 .. Len(sig.params)
      BY <3>1, ParameterX
    <3> HIDE DEF Parameter_
    <3> QED BY <1>3, <3>1, <3>2, FixedCopyX
  <2>4. CASE GetStringChunk
    <3> DEFINE chans == Parameter_.chans
               string == Chunk(chunkID + 1, "string", SIZEOF_STRINGDOPE, 1, chans, STANDARD)
               prio == StringPriority(chans)
    <3>1. /\ Marshalling("variable") /\ chunkID' = chunkID + 1
          /\ strings' = AddTo(strings, chans, string, prio)
          /\ UNCHANGED <<channelInitialized, registers, dwords, vars_>>
      BY <2>4 DEF GetStringChunk
    <3>2. chans \in SUBSET Channel /\ pos' \in 0 .. Len(sig.params)
      BY <3>1, ParameterX
    <3>3. string \in ChunkX
      <4>1. chunkID + 1 \in Number /\ "string" \in Parts /\ 1 \in Alignments
            /\ SIZEOF_STRINGDOPE \in Nat
        BY <1>3 DEF Parts, Number, Alignments, SIZEOF_STRINGDOPE
      <4> QED BY <3>2, <4>1, FlagFacts, NewChunkX
    <3>4. prio \in Nat
      BY PrioritiesX DEF PRIO_IN_STRING, PRIO_INOUT_STRING, PRIO_OUT_STRING
    <3> HIDE DEF string, prio, chans
    <3>5. Prioritized(string, prio) \in ChunkX
      BY <3>3, <3>4, PrioritizedX
    <3>6. strings' \in [Channel -> Seq(ChunkX)]
      BY <1>3, <3>1, <3>2, <3>5, AddedTo
    <3> QED BY <1>3, <3>1, <3>2, <3>6
  <2>5. CASE GetVarbufChunk
    <3> DEFINE p == Parameter_
               id == chunkID + 1
               data == Chunk(id, "data", AlignUp(p.size, WordSize), 1, p.chans,
                             STANDARD \ {XFER_FIXED})
               size == Chunk(id, "size", WordSize, WordSize, p.chans, STANDARD)
               temp == Chunk(id, "temp", SIZEOF_STRINGDOPE, WordSize, BitsOf(CHANNEL_OUT),
                             {ALLOC_SERVER})
               prio == Priority(p.chans)
    <3>1. /\ Marshalling("variable") /\ chunkID' = id /\ ~WorthString(p)
          /\ vars_' = AddTo(vars_, p.chans, data, PRIO_VARIABLE)
          /\ dwords' = AddTo(dwords, p.chans, size, prio)
          /\ strings' = AddTo(strings, p.chans \cap {CHANNEL_OUT}, temp, PRIO_TEMPORARY)
          /\ UNCHANGED <<channelInitialized, registers>>
      BY <2>5 DEF GetVarbufChunk
    <3>2. /\ p.chans \in SUBSET Channel /\ pos' \in 0 .. Len(sig.params)
          /\ p.size \in Nat
      BY <3>1, ParameterX DEF WorthString
    <3>3. AlignUp(p.size, WordSize) \in Nat
      <4> HIDE DEF p
      <4> QED BY <3>2 DEF AlignUp, WordSize
    <3>4. /\ id \in Number /\ id \in Nat /\ 1 \in Alignments /\ WordSize \in Alignments
          /\ SIZEOF_STRINGDOPE \in Nat /\ WordSize \in Nat
          /\ "data" \in Parts /\ "size" \in Parts /\ "temp" \in Parts
          /\ BitsOf(CHANNEL_OUT) \in SUBSET Channel
          /\ STANDARD \ {XFER_FIXED} \in SUBSET Flags /\ {ALLOC_SERVER} \in SUBSET Flags
          /\ STANDARD \in SUBSET Flags
          /\ PRIO_VARIABLE \in Nat /\ PRIO_TEMPORARY \in Nat
      BY <1>3, FlagFacts DEF Parts, Number, Alignments, SIZEOF_STRINGDOPE, WordSize, BitsOf,
         PRIO_VARIABLE, PRIO_TEMPORARY
    <3>5. prio \in Nat /\ prio # PRIO_MAP
      BY PrioritiesX DEF PRIO_IN_FIXED, PRIO_INOUT_FIXED, PRIO_OUT_FIXED, PRIO_MAP
    <3> HIDE DEF p, id
    <3>6. data \in ChunkX /\ temp \in ChunkX
      BY <3>2, <3>3, <3>4, NewChunkX
    <3>7. /\ size \in ChunkX /\ size.id = id /\ size.part = "size" /\ size.flags = STANDARD
          /\ size.size = WordSize
      BY <3>2, <3>3, <3>4, NewChunkX
    <3>8. "size" \notin Untyped
      BY DEF Untyped
    <3> HIDE DEF data, temp, size, prio
    <3>9. Prioritized(size, prio) \in WordChunk
      BY <3>4, <3>5, <3>7, <3>8, FlagFacts, PrioritizedWord
    <3>10. Prioritized(data, PRIO_VARIABLE) \in ChunkX /\ Prioritized(temp, PRIO_TEMPORARY) \in ChunkX
      BY <3>4, <3>6, PrioritizedX
    <3>11. vars_' \in [Channel -> Seq(ChunkX)]
      BY <1>3, <3>1, <3>2, <3>10, AddedTo
    <3>12. dwords' \in [Channel -> Seq(WordChunk)]
      BY <1>3, <3>1, <3>2, <3>9, AddedTo
    <3>13. strings' \in [Channel -> Seq(ChunkX)]
      <4>1. p.chans \cap {CHANNEL_OUT} \in SUBSET Channel
        BY <3>2
      <4> QED BY <1>3, <3>1, <4>1, <3>10, AddedTo
    <3> QED BY <1>3, <3>1, <3>2, <3>4, <3>11, <3>12, <3>13
  <2>6. CASE GetMapChunk
    <3> DEFINE chans == Parameter_.chans
               map == Chunk(chunkID + 1, "fpage", 8, 8, chans, STANDARD)
    <3>1. /\ Marshalling("fpage") /\ chunkID' = chunkID + 1
          /\ dwords' = AddTo(dwords, chans, map, PRIO_MAP)
          /\ UNCHANGED <<channelInitialized, registers, vars_, strings>>
      BY <2>6 DEF GetMapChunk
    <3>2. chans \in SUBSET Channel /\ pos' \in 0 .. Len(sig.params)
      BY <3>1, ParameterX
    <3>3. /\ map \in ChunkX /\ map.id = chunkID + 1 /\ map.part = "fpage" /\ map.size = 8
          /\ map.flags = STANDARD
      <4>1. chunkID + 1 \in Number /\ "fpage" \in Parts /\ 8 \in Alignments /\ 8 \in Nat
        BY <1>3 DEF Parts, Number, Alignments
      <4>2. STANDARD \in SUBSET Flags
        BY FlagFacts
      <4> DEFINE id == chunkID + 1
      <4> HIDE DEF chans, id
      <4>3. /\ Chunk(id, "fpage", 8, 8, chans, STANDARD) \in ChunkX
            /\ Chunk(id, "fpage", 8, 8, chans, STANDARD).id = id
            /\ Chunk(id, "fpage", 8, 8, chans, STANDARD).part = "fpage"
            /\ Chunk(id, "fpage", 8, 8, chans, STANDARD).size = 8
            /\ Chunk(id, "fpage", 8, 8, chans, STANDARD).flags = STANDARD
        BY <3>2, <4>1, <4>2, NewChunkX DEF id
      <4> QED BY <4>3 DEF id
    <3>4. "fpage" \notin Untyped /\ PRIO_MAP \in Nat
      BY DEF Untyped, PRIO_MAP
    <3> HIDE DEF map, chans
    <3>5. Prioritized(map, PRIO_MAP) \in WordChunk
      <4>1. /\ map.id \in Nat /\ ALLOC_CLIENT \in map.flags /\ ALLOC_SERVER \in map.flags
            /\ map.part \notin Untyped /\ map.part # "shared"
        BY <1>3, <3>3, <3>4, FlagFacts
      <4> QED BY <3>3, <3>4, <4>1, PrioritizedWord
    <3>6. dwords' \in [Channel -> Seq(WordChunk)]
      BY <1>3, <3>1, <3>2, <3>5, AddedTo
    <3> QED BY <1>3, <3>1, <3>2, <3>6
  <2> QED BY <2>1, <2>2, <2>3, <2>4, <2>5, <2>6 DEF Marshal
<1> QED BY <1>2, <1>4, <1>5 DEF TypesX, Passive

-----------------------------------------------------------------------------
(* The types are kept: registers                                           *)

(* A set of positions has a first one.                                     *)
LEMMA FirstOfX ==
  ASSUME NEW S \in SUBSET Nat, S # {}
  PROVE  FirstOf(S) \in S /\ \A j \in S : FirstOf(S) <= j
<1>1. \E i \in S : \A j \in S : i <= j
  BY NatMin
<1> QED BY <1>1 DEF FirstOf

(* The list of one channel changed.                                        *)
LEMMA ListChanged ==
  ASSUME NEW S, NEW list \in [Channel -> Seq(S)], NEW c \in Channel, NEW to \in Seq(S)
  PROVE  /\ [list EXCEPT ![c] = to] \in [Channel -> Seq(S)]
         /\ [list EXCEPT ![c] = to][c] = to
         /\ \A d \in Channel \ {c} : [list EXCEPT ![c] = to][d] = list[d]
  OBVIOUS

(* The phases a loop over channels goes on in.                             *)
LEMMA AdvanceX ==
  ASSUME chan \in Channel, NEW again, NEW next, Advance(again, next)
  PROVE  /\ chan' \in Channel /\ phase' \in {again, next}
         /\ chan = NumExceptions + 1 => chan' = CHANNEL_IN /\ phase' = next
         /\ chan # NumExceptions + 1 => chan' = chan + 1 /\ phase' = again
<1>1. NumExceptions \in Nat
  BY ConnectionXAssumption
<1> QED BY <1>1 DEF Advance, Channel, CHANNEL_IN

(* Adding the dopes keeps the types.                                       *)
LEMMA TypesAddDopes == TypesX /\ AddDopes => TypesX'
<1> SUFFICES ASSUME TypesX, AddDopes  PROVE TypesX'
  OBVIOUS
<1> DEFINE Dope(c, n, name) == Chunk(chunkID + 3 * c + n, name, WordSize, WordSize, {c},
                                     {ALLOC_CLIENT, ALLOC_SERVER})
           three(c) == <<Dope(c, 1, "_rcv_window"), Dope(c, 2, "_size_dope"),
                         Dope(c, 3, "_send_dope")>>
           next == chunkID + 3 * Cardinality(Channel)
           Saved(n, name, flags, index) ==
             Pinned(Chunk(next + n, name, WordSize, WordSize, {CHANNEL_IN}, flags), index)
           saved == IF platform # "ia32" THEN <<>>
                    ELSE <<Saved(1, "_esp", {ALLOC_SERVER}, -2),
                           Saved(2, "_ebp", {ALLOC_SERVER}, -1),
                           Saved(3, "_caller", {}, 2)>>
<1>1. /\ dopes' = [c \in Channel |-> three(c) \o IF c = CHANNEL_IN THEN saved ELSE <<>>]
      /\ chunkID' = next + Len(saved) /\ phase = "marshal" /\ phase' = "varbufs"
  BY DEF AddDopes
<1>2. UNCHANGED <<Passive, pos, chan, channelInitialized, registers, dwords, vars_, strings>>
  BY DEF AddDopes, Passive, packing, offsets, place, request
<1>3. chunkID \in Nat /\ Cardinality(Channel) \in Nat /\ next \in Nat
  <2>1. chunkID \in Nat
    BY DEF TypesX
  <2>2. Cardinality(Channel) \in Nat
    BY FS_CardinalityType, ChannelsX
  <2> QED BY <2>1, <2>2
<1>4. /\ {ALLOC_CLIENT, ALLOC_SERVER} \in SUBSET Flags /\ {ALLOC_SERVER} \in SUBSET Flags
      /\ {} \in SUBSET Flags
      /\ WordSize \in Nat /\ WordSize \in Alignments
      /\ "_rcv_window" \in Parts /\ "_size_dope" \in Parts /\ "_send_dope" \in Parts
      /\ "_esp" \in Parts /\ "_ebp" \in Parts /\ "_caller" \in Parts
      /\ {CHANNEL_IN} \in SUBSET Channel
  BY FlagFacts, ChannelsX DEF Parts, WordSize, Alignments
<1>5. ASSUME NEW c \in Channel, NEW n \in Nat, NEW name \in Parts  PROVE Dope(c, n, name) \in ChunkX
  <2>1. c \in Nat /\ {c} \in SUBSET Channel
    BY ChannelsX
  <2>2. chunkID + 3 * c + n \in Number
    BY <1>3, <2>1 DEF Number
  <2> QED BY <1>4, <2>1, <2>2, NewChunkX
<1>6. ASSUME NEW n \in Nat, NEW name \in Parts, NEW flags \in SUBSET Flags, NEW index \in Int
      PROVE  Saved(n, name, flags, index) \in ChunkX
  <2>1. next + n \in Number
    BY <1>3 DEF Number
  <2> DEFINE x == Chunk(next + n, name, WordSize, WordSize, {CHANNEL_IN}, flags)
  <2> HIDE DEF next
  <2>2. x \in ChunkX
    BY <1>4, <2>1, NewChunkX
  <2> HIDE DEF x
  <2>3. Pinned(x, index) \in ChunkX
    BY <2>2, PinnedX
  <2> QED BY <2>3 DEF x
<1>7. saved \in Seq(ChunkX)
  <2> HIDE DEF Saved
  <2>1. /\ Saved(1, "_esp", {ALLOC_SERVER}, -2) \in ChunkX
        /\ Saved(2, "_ebp", {ALLOC_SERVER}, -1) \in ChunkX
        /\ Saved(3, "_caller", {}, 2) \in ChunkX
    BY <1>4, <1>6
  <2> QED BY <2>1
<1>8. ASSUME NEW c \in Channel  PROVE three(c) \in Seq(ChunkX)
  <2> HIDE DEF Dope
  <2>1. /\ Dope(c, 1, "_rcv_window") \in ChunkX /\ Dope(c, 2, "_size_dope") \in ChunkX
        /\ Dope(c, 3, "_send_dope") \in ChunkX
    BY <1>4, <1>5
  <2> QED BY <2>1
<1> HIDE DEF saved, three, next
<1>9. dopes' \in [Channel -> Seq(ChunkX)]
  <2>1. \A c \in Channel : three(c) \o (IF c = CHANNEL_IN THEN saved ELSE <<>>) \in Seq(ChunkX)
    BY <1>7, <1>8
  <2> QED BY <1>1, <2>1
<1>10. chunkID' \in Nat
  BY <1>1, <1>3, <1>7
<1>11. phase' \in Calls
  BY <1>1 DEF Calls
<1> QED BY <1>1, <1>2, <1>9, <1>10, <1>11 DEF TypesX, Passive

(* The numbers of the variable buffers are new.                            *)
LEMMA VarbufNumbers ==
  ASSUME TypesX, NEW with \in SUBSET Channel, NEW c \in with
  PROVE  /\ Cardinality({d \in with : d <= c}) \in Nat \ {0}
         /\ Cardinality({d \in with : d <= c}) <= Cardinality(with)
         /\ Cardinality(with) \in Nat
<1> DEFINE S == {d \in with : d <= c}
<1>1. IsFiniteSet(with)
  BY ChannelsX, FS_Subset
<1>2. c \in S
  BY ChannelsX
<1>3. S \subseteq with /\ IsFiniteSet(S) /\ Cardinality(S) <= Cardinality(with)
  BY <1>1, FS_Subset
<1>4. Cardinality(S) \in Nat /\ Cardinality(with) \in Nat
  BY <1>1, <1>3, FS_CardinalityType
<1>5. Cardinality(S) # 0
  BY <1>2, <1>3, FS_EmptySet
<1> QED BY <1>3, <1>4, <1>5

(* A variable buffer.                                                      *)
VarbufNumber(with, c) == chunkID + Cardinality({d \in with : d <= c})

(* The chunk of a variable buffer.                                         *)
Varbuf(with, c) ==
  Chunk(VarbufNumber(with, c), "varbuf", Bytes(vars_[c]), WordSize, BitsOf(c),
        STANDARD \ {XFER_FIXED})

(* It is a word of a known size and a number of its own.                   *)
LEMMA VarbufX ==
  ASSUME TypesX, NEW with \in SUBSET Channel, NEW c \in with
  PROVE  /\ Prioritized(Varbuf(with, c), PRIO_VARIABLE) \in WordChunk
         /\ Prioritized(Varbuf(with, c), PRIO_VARIABLE).id = VarbufNumber(with, c)
         /\ Prioritized(Varbuf(with, c), PRIO_VARIABLE).prio = PRIO_VARIABLE
         /\ VarbufNumber(with, c) \in Nat /\ VarbufNumber(with, c) > chunkID
         /\ VarbufNumber(with, c) <= chunkID + Cardinality(with)
<1>1. chunkID \in Nat /\ vars_ \in [Channel -> Seq(ChunkX)] /\ c \in Channel
  BY DEF TypesX
<1>2. /\ VarbufNumber(with, c) \in Nat /\ VarbufNumber(with, c) > chunkID
      /\ VarbufNumber(with, c) <= chunkID + Cardinality(with)
  <2> DEFINE k == Cardinality({d \in with : d <= c})
  <2>1. k \in Nat \ {0} /\ k <= Cardinality(with) /\ Cardinality(with) \in Nat
    BY VarbufNumbers
  <2>2. VarbufNumber(with, c) = chunkID + k
    BY DEF VarbufNumber
  <2> HIDE DEF k
  <2> QED BY <1>1, <2>1, <2>2
<1>3. Bytes(vars_[c]) \in Nat
  <2>1. vars_[c] \in Seq(ChunkX) /\ \A x \in ChunkX : x.size \in Nat
    BY <1>1 DEF ChunkX
  <2> QED BY <2>1, BytesType
<1>4. /\ Varbuf(with, c) \in ChunkX /\ Varbuf(with, c).id = VarbufNumber(with, c)
      /\ Varbuf(with, c).flags = STANDARD \ {XFER_FIXED} /\ Varbuf(with, c).align = WordSize
      /\ Varbuf(with, c).part = "varbuf"
  <2>1. /\ VarbufNumber(with, c) \in Number /\ "varbuf" \in Parts /\ WordSize \in Alignments
        /\ BitsOf(c) \in SUBSET Channel /\ STANDARD \ {XFER_FIXED} \in SUBSET Flags
    BY <1>2, FlagFacts DEF Number, Parts, WordSize, Alignments, BitsOf
  <2> QED BY <1>3, <2>1, NewChunkX DEF Varbuf
<1>5. PRIO_VARIABLE \in Nat /\ PRIO_VARIABLE # PRIO_MAP
  BY DEF PRIO_VARIABLE, PRIO_MAP
<1>6. Prioritized(Varbuf(with, c), PRIO_VARIABLE) \in WordChunk
  BY <1>2, <1>4, <1>5, FlagFacts, PrioritizedWord
<1>7. /\ Prioritized(Varbuf(with, c), PRIO_VARIABLE).id = VarbufNumber(with, c)
      /\ Prioritized(Varbuf(with, c), PRIO_VARIABLE).prio = PRIO_VARIABLE
  BY <1>4, <1>5, PrioritizedX
<1> QED BY <1>2, <1>6, <1>7

(* What AddVarbufs makes of the words.                                     *)
LEMMA AddVarbufsX ==
  ASSUME AddVarbufs
  PROVE  \E with \in SUBSET Channel :
           /\ with = {c \in Channel : vars_[c] # <<>>}
           /\ dwords' = [c \in Channel |-> IF c \notin with THEN dwords[c]
                          ELSE AddWithPrio(dwords[c], Varbuf(with, c), PRIO_VARIABLE)]
           /\ chunkID' = chunkID + Cardinality(with)
  BY DEF AddVarbufs, Varbuf, VarbufNumber

(* Adding the variable buffers keeps the types.                            *)
LEMMA TypesAddVarbufs == TypesX /\ AddVarbufs => TypesX'
<1> SUFFICES ASSUME TypesX, AddVarbufs  PROVE TypesX'
  OBVIOUS
<1>1. PICK with \in SUBSET Channel :
        /\ dwords' = [c \in Channel |-> IF c \notin with THEN dwords[c]
                       ELSE AddWithPrio(dwords[c], Varbuf(with, c), PRIO_VARIABLE)]
        /\ chunkID' = chunkID + Cardinality(with)
  BY AddVarbufsX
<1>2. /\ UNCHANGED <<Passive, pos, chan, channelInitialized, dopes, registers, vars_, strings>>
      /\ phase = "varbufs" /\ phase' = "reserve"
  BY DEF AddVarbufs, Passive, packing, offsets, place, request
<1>3. dwords \in [Channel -> Seq(WordChunk)] /\ chunkID \in Nat
  BY DEF TypesX
<1>4. \A c \in with : AddWithPrio(dwords[c], Varbuf(with, c), PRIO_VARIABLE) \in Seq(WordChunk)
  BY <1>3, VarbufX, AddedElements
<1>5. dwords' \in [Channel -> Seq(WordChunk)]
  BY <1>1, <1>3, <1>4
<1>6. IsFiniteSet(with) /\ Cardinality(with) \in Nat
  BY ChannelsX, FS_Subset, FS_CardinalityType
<1>7. chunkID' \in Nat
  BY <1>1, <1>3, <1>6
<1> QED BY <1>2, <1>5, <1>7 DEF TypesX, Passive

(* The function number.                                                    *)
FunctionNumber == Pinned(Chunk(0, "fid", WordSize, WordSize, {}, STANDARD), NumRegs - 1)

(* The chunk of the exception code.                                        *)
ExceptionCode == Pinned(Chunk(0, "eid", WordSize, WordSize, {}, STANDARD), NumRegs - 1)

(* Both identifiers are chunks pinned to the last register.                *)
LEMMA IdentX ==
  /\ Prioritized(FunctionNumber, PRIO_ID) \in ChunkX /\ Ident(Prioritized(FunctionNumber, PRIO_ID))
  /\ Prioritized(ExceptionCode, PRIO_ID) \in ChunkX /\ Ident(Prioritized(ExceptionCode, PRIO_ID))
<1>1. ASSUME NEW name \in {"fid", "eid"}
      PROVE  LET x == Pinned(Chunk(0, name, WordSize, WordSize, {}, STANDARD), NumRegs - 1)
             IN  Prioritized(x, PRIO_ID) \in ChunkX /\ Ident(Prioritized(x, PRIO_ID))
  <2> DEFINE y == Chunk(0, name, WordSize, WordSize, {}, STANDARD)
             x == Pinned(y, NumRegs - 1)
  <2>1. /\ 0 \in Number /\ name \in Parts /\ {} \in SUBSET Channel /\ NumRegs - 1 \in Int
        /\ WordSize \in Nat /\ WordSize \in Alignments /\ PRIO_ID \in Nat
    BY ConnectionXAssumption DEF Number, Parts, WordSize, Alignments, PRIO_ID
  <2>2. y \in ChunkX /\ y.size = WordSize
    BY <2>1, FlagFacts, NewChunkX
  <2> HIDE DEF y
  <2>3. x \in ChunkX /\ x.size = WordSize /\ x.index = NumRegs - 1 /\ PINNED \in x.flags
    BY <2>1, <2>2, PinnedX
  <2> HIDE DEF x
  <2>4. Prioritized(x, PRIO_ID) \in ChunkX /\ Ident(Prioritized(x, PRIO_ID))
    BY <2>1, <2>3, PrioritizedX DEF Ident
  <2> QED BY <2>4 DEF x, y
<1> QED BY <1>1 DEF FunctionNumber, ExceptionCode

(* Reserving a register keeps the types.                                   *)
LEMMA TypesReserve == TypesX /\ ReserveRegister => TypesX'
<1> SUFFICES ASSUME TypesX, ReserveRegister  PROVE TypesX'
  OBVIOUS
<1>1. /\ phase = "reserve" /\ phase' = "maps" /\ pinIndex' = 0
      /\ registers' = IF chan = CHANNEL_IN
                      THEN AddTo(registers, {CHANNEL_IN}, FunctionNumber, PRIO_ID) ELSE registers
      /\ regsUsed' = [regsUsed EXCEPT ![chan] = Reserved(chan)]
  BY DEF ReserveRegister, FunctionNumber
<1>2. UNCHANGED <<request, chunkID, dopes, dwords, vars_, strings, chan, cursor,
                  candidates, regsLeft, offsets, place>>
  BY DEF ReserveRegister
<1>3. /\ registers \in [Channel -> Seq(ChunkX)] /\ chan \in Channel
      /\ regsUsed \in [Channel -> 0 .. NumRegs]
  BY DEF TypesX
<1>4. registers' \in [Channel -> Seq(ChunkX)]
  <2>1. {CHANNEL_IN} \in SUBSET Channel
    BY ChannelsX
  <2>2. AddTo(registers, {CHANNEL_IN}, FunctionNumber, PRIO_ID) \in [Channel -> Seq(ChunkX)]
    BY <1>3, <2>1, IdentX, AddedTo
  <2> QED BY <1>1, <1>3, <2>2
<1>5. regsUsed' \in [Channel -> 0 .. NumRegs]
  <2>1. Reserved(chan) \in 0 .. NumRegs
    BY ConnectionXAssumption DEF Reserved
  <2> QED BY <1>1, <1>3, <2>1
<1> QED BY <1>1, <1>2, <1>4, <1>5 DEF TypesX, request, offsets, place

(* Where the next map item is.                                             *)
LEMMA FirstMapX ==
  ASSUME TypesX, MapWaits
  PROVE  LET first == FirstOf(WithPrio(dwords[chan], PRIO_MAP)) IN
         /\ first \in 1 .. Len(dwords[chan])
         /\ dwords[chan][first].prio = PRIO_MAP
<1>1. dwords[chan] \in Seq(WordChunk)
  BY DEF TypesX
<1>2. WithPrio(dwords[chan], PRIO_MAP) \in SUBSET Nat /\ WithPrio(dwords[chan], PRIO_MAP) # {}
  BY <1>1 DEF WithPrio, MapWaits
<1>3. FirstOf(WithPrio(dwords[chan], PRIO_MAP)) \in WithPrio(dwords[chan], PRIO_MAP)
  BY <1>2, FirstOfX
<1> QED BY <1>1, <1>3 DEF WithPrio

(* A map item in the registers.                                            *)
LEMMA MapItemX ==
  ASSUME NEW x \in WordChunk, x.prio = PRIO_MAP, NEW index \in Int
  PROVE  LET y == Prioritized(Pinned(x, index), PRIO_MAP) IN
         /\ y \in ChunkX /\ y.prio = PRIO_MAP /\ PINNED \in y.flags /\ y.index = index /\ y.size = 8
<1> DEFINE p == Pinned(x, index)
<1>1. x \in ChunkX /\ x.size = 8 /\ PRIO_MAP \in Nat
  BY WordFacts DEF PRIO_MAP
<1>2. p \in ChunkX /\ PINNED \in p.flags /\ p.index = index /\ p.size = 8
  BY <1>1, PinnedX
<1> HIDE DEF p
<1>3. /\ Prioritized(p, PRIO_MAP) \in ChunkX /\ Prioritized(p, PRIO_MAP).prio = PRIO_MAP
      /\ PINNED \in Prioritized(p, PRIO_MAP).flags /\ Prioritized(p, PRIO_MAP).index = index
      /\ Prioritized(p, PRIO_MAP).size = 8
  BY <1>1, <1>2, PrioritizedX
<1> QED BY <1>3 DEF p

(* Moving a map item into the registers keeps the types.                   *)
LEMMA TypesMoveMap == TypesX /\ MoveMap => TypesX'
<1> SUFFICES ASSUME TypesX, MoveMap  PROVE TypesX'
  OBVIOUS
<1> DEFINE first == FirstOf(WithPrio(dwords[chan], PRIO_MAP))
<1>1. /\ phase = "maps" /\ phase' = "maps" /\ pinIndex' = pinIndex + 2 /\ MapWaits
      /\ NumRegs - regsUsed[chan] >= 2
      /\ dwords' = [dwords EXCEPT ![chan] = RemoveElement(dwords[chan], first)]
      /\ registers' = AddTo(registers, {chan}, Pinned(dwords[chan][first], pinIndex), PRIO_MAP)
      /\ regsUsed' = [regsUsed EXCEPT ![chan] = regsUsed[chan] + 2]
  BY DEF MoveMap, MapFits, MapWaits
<1>2. UNCHANGED <<request, chunkID, dopes, vars_, strings, chan, cursor,
                  candidates, regsLeft, offsets, place>>
  BY DEF MoveMap
<1>3. /\ registers \in [Channel -> Seq(ChunkX)] /\ dwords \in [Channel -> Seq(WordChunk)]
      /\ chan \in Channel /\ regsUsed \in [Channel -> 0 .. NumRegs] /\ pinIndex \in Nat
  BY DEF TypesX
<1>4. /\ first \in 1 .. Len(dwords[chan]) /\ dwords[chan][first] \in WordChunk
      /\ dwords[chan][first].prio = PRIO_MAP
  BY <1>1, <1>3, FirstMapX
<1> HIDE DEF first
<1>5. dwords' \in [Channel -> Seq(WordChunk)]
  <2>1. RemoveElement(dwords[chan], first) \in Seq(WordChunk)
    BY <1>3, <1>4, RemoveAtElements DEF RemoveElement
  <2> QED BY <1>1, <1>3, <2>1, ListChanged
<1>6. registers' \in [Channel -> Seq(ChunkX)]
  <2>1. Prioritized(Pinned(dwords[chan][first], pinIndex), PRIO_MAP) \in ChunkX
    BY <1>3, <1>4, MapItemX
  <2>2. {chan} \in SUBSET Channel
    BY <1>3
  <2> QED BY <1>1, <1>3, <2>1, <2>2, AddedTo
<1>7. regsUsed' \in [Channel -> 0 .. NumRegs]
  <2>1. regsUsed[chan] + 2 \in 0 .. NumRegs
    BY <1>1, <1>3, ConnectionXAssumption
  <2> QED BY <1>1, <1>3, <2>1
<1>8. pinIndex' \in Nat
  BY <1>1, <1>3
<1> QED BY <1>1, <1>2, <1>5, <1>6, <1>7, <1>8 DEF TypesX, request, offsets, place

(* The padding behind map items.                                           *)
MapPad == Chunk(chunkID + 1, "mapPad", 8, 8, {}, STANDARD \cup {INIT_ZERO})

(* It is a word as large as a map item, wherever it is pinned.             *)
LEMMA MapPadX ==
  ASSUME TypesX, NEW index \in Int
  PROVE  /\ Prioritized(Pinned(MapPad, index), PRIO_PAD) \in WordChunk
         /\ Prioritized(Pinned(MapPad, index), PRIO_PAD) \in ChunkX
         /\ Prioritized(Pinned(MapPad, index), PRIO_PAD).id = chunkID + 1
         /\ Prioritized(Pinned(MapPad, index), PRIO_PAD).prio = PRIO_PAD
<1> DEFINE p == Pinned(MapPad, index)
<1>1. chunkID \in Nat
  BY DEF TypesX
<1>2. /\ chunkID + 1 \in Number /\ chunkID + 1 \in Nat /\ "mapPad" \in Parts
      /\ 8 \in Nat /\ 8 \in Alignments /\ {} \in SUBSET Channel
      /\ PRIO_PAD \in Nat /\ PRIO_PAD # PRIO_MAP /\ "mapPad" \notin Untyped
  BY <1>1 DEF Number, Parts, Alignments, PRIO_PAD, PRIO_MAP, Untyped
<1>3. STANDARD \cup {INIT_ZERO} \in SUBSET Flags
  BY DEF Flags
<1>4. /\ MapPad \in ChunkX /\ MapPad.id = chunkID + 1 /\ MapPad.part = "mapPad"
      /\ MapPad.size = 8 /\ MapPad.flags = STANDARD \cup {INIT_ZERO}
  BY <1>2, <1>3, NewChunkX DEF MapPad
<1>5. /\ p \in ChunkX /\ p.id = chunkID + 1 /\ p.part = "mapPad"
      /\ p.size = 8 /\ p.flags = STANDARD \cup {INIT_ZERO} \cup {PINNED}
  BY <1>4, PinnedX
<1> HIDE DEF p
<1>6. ALLOC_CLIENT \in p.flags /\ ALLOC_SERVER \in p.flags
  BY <1>5, FlagFacts
<1>7. Prioritized(p, PRIO_PAD) \in WordChunk
  BY <1>2, <1>5, <1>6, PrioritizedWord
<1>8. Prioritized(p, PRIO_PAD).id = chunkID + 1 /\ Prioritized(p, PRIO_PAD).prio = PRIO_PAD
  BY <1>2, <1>5, PrioritizedX
<1> QED BY <1>7, <1>8, WordFacts DEF p

(* Padding map items keeps the types.                                      *)
LEMMA TypesPadMaps == TypesX /\ PadMaps => TypesX'
<1> SUFFICES ASSUME TypesX, PadMaps  PROVE TypesX'
  OBVIOUS
<1> DEFINE free == NumRegs - regsUsed[chan]
<1>1. UNCHANGED <<request, dopes, vars_, strings, cursor, packing, offsets, place>>
  BY DEF PadMaps
<1>2. /\ registers \in [Channel -> Seq(ChunkX)] /\ dwords \in [Channel -> Seq(WordChunk)]
      /\ chan \in Channel /\ chunkID \in Nat /\ pinIndex \in Nat
  BY DEF TypesX
<1>3. phase = "maps"
  BY DEF PadMaps
<1>4. chan' \in Channel /\ phase' \in {"pad_assertion", "reserve", "align"}
  <2>1. \/ phase' = "pad_assertion" /\ chan' = chan
        \/ Advance("reserve", "align")
    BY DEF PadMaps
  <2> QED BY <1>2, <2>1, AdvanceX
<1>5. \/ UNCHANGED <<chunkID, registers, dwords>>
      \/ /\ chunkID' = chunkID + 1
         /\ registers' = IF free > 0
                         THEN AddTo(registers, {chan}, Pinned(MapPad, pinIndex), PRIO_PAD)
                         ELSE registers
         /\ dwords' = IF free > 0 THEN dwords
                      ELSE [dwords EXCEPT ![chan] = WithPad(dwords[chan], Pinned(MapPad, 0))]
  BY DEF PadMaps, MapPad
<1> HIDE DEF free
<1>6. registers' \in [Channel -> Seq(ChunkX)]
  <2>1. Prioritized(Pinned(MapPad, pinIndex), PRIO_PAD) \in ChunkX
    BY <1>2, MapPadX
  <2>2. {chan} \in SUBSET Channel
    BY <1>2
  <2>3. AddTo(registers, {chan}, Pinned(MapPad, pinIndex), PRIO_PAD) \in [Channel -> Seq(ChunkX)]
    BY <1>2, <2>1, <2>2, AddedTo
  <2> QED BY <1>2, <1>5, <2>3
<1>7. dwords' \in [Channel -> Seq(WordChunk)]
  <2>1. Prioritized(Pinned(MapPad, 0), PRIO_PAD) \in WordChunk
    BY MapPadX
  <2>2. dwords[chan] \in Seq(WordChunk)
    BY <1>2
  <2>3. AddWithPrio(dwords[chan], Pinned(MapPad, 0), PRIO_PAD) \in Seq(WordChunk)
    BY <2>1, <2>2, AddedElements
  <2>4. WithPad(dwords[chan], Pinned(MapPad, 0)) \in Seq(WordChunk)
    BY <2>2, <2>3 DEF WithPad
  <2>5. [dwords EXCEPT ![chan] = WithPad(dwords[chan], Pinned(MapPad, 0))]
          \in [Channel -> Seq(WordChunk)]
    BY <1>2, <2>4, ListChanged
  <2> QED BY <1>2, <1>5, <2>5
<1>8. chunkID' \in Nat
  BY <1>2, <1>5
<1> QED BY <1>1, <1>3, <1>4, <1>6, <1>7, <1>8
        DEF TypesX, request, packing, offsets, place, Calls, Measured

(* The strictest alignment is that of a word or twice that, and no typed   *)
(* chunk is stricter.                                                      *)
LEMMA StrictestX ==
  ASSUME NEW list \in Seq(WordChunk)
  PROVE  /\ Strictest(list) \in {4, 8}
         /\ \A x \in ToSet(list) : x.align <= Strictest(list)
<1> DEFINE typed == {j \in DOMAIN list : list[j].part \notin Untyped}
           aligns == {list[i].align : i \in typed}
           Fine(a) == a >= WordSize /\ \A b \in aligns : b <= a
           strictest == CHOOSE a \in aligns \cup {WordSize} : Fine(a)
<1>1. aligns \subseteq Alignments
  <2>1. \A i \in DOMAIN list : list[i] \in WordChunk
    OBVIOUS
  <2> QED BY <2>1, WordFacts
<1>2. \E a \in aligns \cup {WordSize} : Fine(a)
  <2>1. CASE 8 \in aligns
    <3>1. \A b \in aligns : b \in {1, 2, 4, 8}
      BY <1>1 DEF Alignments
    <3> HIDE DEF aligns
    <3>2. Fine(8)
      BY <3>1 DEF WordSize
    <3> QED BY <2>1, <3>2
  <2>2. CASE 8 \notin aligns
    <3>1. \A b \in aligns : b \in {1, 2, 4}
      BY <1>1, <2>2 DEF Alignments
    <3> HIDE DEF aligns
    <3>2. Fine(WordSize)
      BY <3>1 DEF WordSize
    <3> QED BY <3>2 DEF aligns
  <2> QED BY <2>1, <2>2
<1>3. Strictest(list) = strictest
  BY DEF Strictest
<1> HIDE DEF Fine
<1>4. strictest \in aligns \cup {WordSize} /\ Fine(strictest)
  BY <1>2
<1> HIDE DEF strictest, aligns
<1>5. strictest \in {4, 8} /\ \A b \in aligns : b <= strictest
  BY <1>1, <1>4 DEF Fine, WordSize, Alignments
<1>6. ASSUME NEW x \in ToSet(list)  PROVE x.align <= strictest
  <2>1. PICK i \in DOMAIN list : x = list[i]
    BY DEF ToSet
  <2>2. list[i] \in WordChunk
    BY <2>1
  <2>3. CASE x.part \in Untyped
    <3>1. x.align = 4
      BY <2>1, <2>2, <2>3, WordFacts DEF WordSize
    <3> QED BY <1>5, <3>1
  <2>4. CASE x.part \notin Untyped
    <3>1. i \in typed
      BY <2>1, <2>4
    <3>2. x.align \in aligns
      BY <2>1, <3>1 DEF aligns
    <3> QED BY <1>5, <3>2
  <2> QED BY <2>3, <2>4
<1> QED BY <1>3, <1>5, <1>6

(* The two chunks of a small value that goes both ways.                    *)
InAt == FirstOf(SmallInouts)
OutAt == FirstOf(Matches(dwords[CHANNEL_IN][InAt].id))

(* Both are there, and the value fits into a register.                     *)
LEMMA InoutX ==
  ASSUME TypesX, InoutFits
  PROVE  /\ InAt \in 1 .. Len(dwords[CHANNEL_IN]) /\ OutAt \in 1 .. Len(dwords[CHANNEL_OUT])
         /\ dwords[CHANNEL_IN][InAt] \in WordChunk /\ dwords[CHANNEL_OUT][OutAt] \in WordChunk
         /\ dwords[CHANNEL_IN][InAt].prio = PRIO_INOUT_FIXED
         /\ dwords[CHANNEL_IN][InAt].size <= WordSize
         /\ dwords[CHANNEL_OUT][OutAt].id = dwords[CHANNEL_IN][InAt].id
<1>1. dwords[CHANNEL_IN] \in Seq(WordChunk) /\ dwords[CHANNEL_OUT] \in Seq(WordChunk)
  BY ChannelsX DEF TypesX
<1>2. SmallInouts # {} /\ SmallInouts \in SUBSET Nat
  BY <1>1 DEF InoutFits, SmallInouts, WithPrio
<1>3. InAt \in SmallInouts
  BY <1>2, FirstOfX DEF InAt
<1>4. Matches(dwords[CHANNEL_IN][InAt].id) # {} /\ Matches(dwords[CHANNEL_IN][InAt].id) \in SUBSET Nat
  BY <1>1 DEF InoutFits, Matches, InAt
<1>5. OutAt \in Matches(dwords[CHANNEL_IN][InAt].id)
  BY <1>4, FirstOfX DEF OutAt
<1>6. /\ InAt \in DOMAIN dwords[CHANNEL_IN] /\ dwords[CHANNEL_IN][InAt].prio = PRIO_INOUT_FIXED
      /\ dwords[CHANNEL_IN][InAt].size <= WordSize
  BY <1>3 DEF SmallInouts, WithPrio
<1>7. /\ OutAt \in DOMAIN dwords[CHANNEL_OUT]
      /\ dwords[CHANNEL_OUT][OutAt].id = dwords[CHANNEL_IN][InAt].id
  BY <1>5 DEF Matches
<1> QED BY <1>1, <1>6, <1>7

(* What MoveInout does, channel by channel.                                *)
LEMMA MoveInoutX ==
  ASSUME MoveInout, TypesX
  PROVE  /\ dwords' = [c \in Channel |->
                         IF c = CHANNEL_IN THEN RemoveElement(dwords[CHANNEL_IN], InAt)
                         ELSE IF c = CHANNEL_OUT THEN RemoveElement(dwords[CHANNEL_OUT], OutAt)
                         ELSE dwords[c]]
         /\ registers' = [c \in Channel |->
                            IF c = CHANNEL_IN
                            THEN AddWithPrio(registers[CHANNEL_IN], dwords[CHANNEL_IN][InAt],
                                             PRIO_INOUT_FIXED)
                            ELSE IF c = CHANNEL_OUT
                            THEN AddWithPrio(registers[CHANNEL_OUT], dwords[CHANNEL_OUT][OutAt],
                                             PRIO_INOUT_FIXED)
                            ELSE registers[c]]
         /\ regsUsed' = [c \in Channel |-> IF c \in {CHANNEL_IN, CHANNEL_OUT} THEN regsUsed[c] + 1
                                           ELSE regsUsed[c]]
<1> DEFINE at == [c \in {CHANNEL_IN, CHANNEL_OUT} |-> IF c = CHANNEL_IN THEN InAt ELSE OutAt]
<1>1. DOMAIN at = {CHANNEL_IN, CHANNEL_OUT} /\ at[CHANNEL_IN] = InAt /\ at[CHANNEL_OUT] = OutAt
  BY DEF CHANNEL_IN, CHANNEL_OUT
<1>2. /\ dwords' = [c \in Channel |-> IF c \in DOMAIN at THEN RemoveElement(dwords[c], at[c])
                                      ELSE dwords[c]]
      /\ registers' = [c \in Channel |->
                         IF c \in DOMAIN at
                         THEN AddWithPrio(registers[c], dwords[c][at[c]], PRIO_INOUT_FIXED)
                         ELSE registers[c]]
      /\ regsUsed' = [c \in Channel |-> IF c \in DOMAIN at THEN regsUsed[c] + 1 ELSE regsUsed[c]]
  BY DEF MoveInout, InAt, OutAt
<1> HIDE DEF at
<1>3. dwords' = [c \in Channel |->
                   IF c = CHANNEL_IN THEN RemoveElement(dwords[CHANNEL_IN], InAt)
                   ELSE IF c = CHANNEL_OUT THEN RemoveElement(dwords[CHANNEL_OUT], OutAt)
                   ELSE dwords[c]]
  BY <1>1, <1>2
<1>4. registers' = [c \in Channel |->
                      IF c = CHANNEL_IN
                      THEN AddWithPrio(registers[CHANNEL_IN], dwords[CHANNEL_IN][InAt],
                                       PRIO_INOUT_FIXED)
                      ELSE IF c = CHANNEL_OUT
                      THEN AddWithPrio(registers[CHANNEL_OUT], dwords[CHANNEL_OUT][OutAt],
                                       PRIO_INOUT_FIXED)
                      ELSE registers[c]]
  BY <1>1, <1>2
<1> QED BY <1>1, <1>2, <1>3, <1>4

(* Moving both chunks of a value keeps the types.                          *)
LEMMA TypesMoveInout == TypesX /\ MoveInout => TypesX'
<1> SUFFICES ASSUME TypesX, MoveInout  PROVE TypesX'
  OBVIOUS
<1>1. /\ phase = "inout" /\ phase' = "inout" /\ InoutFits
      /\ UNCHANGED <<request, chunkID, dopes, vars_, strings, chan, cursor,
                     pinIndex, candidates, regsLeft, offsets, place>>
  BY DEF MoveInout
<1>2. /\ registers \in [Channel -> Seq(ChunkX)] /\ dwords \in [Channel -> Seq(WordChunk)]
      /\ regsUsed \in [Channel -> 0 .. NumRegs]
      /\ CHANNEL_IN \in Channel /\ CHANNEL_OUT \in Channel
  BY ChannelsX DEF TypesX
<1>3. /\ InAt \in 1 .. Len(dwords[CHANNEL_IN]) /\ OutAt \in 1 .. Len(dwords[CHANNEL_OUT])
      /\ dwords[CHANNEL_IN][InAt] \in WordChunk /\ dwords[CHANNEL_OUT][OutAt] \in WordChunk
  BY <1>1, InoutX
<1>4. dwords' \in [Channel -> Seq(WordChunk)]
  <2>1. RemoveElement(dwords[CHANNEL_IN], InAt) \in Seq(WordChunk)
    BY <1>2, <1>3, RemoveAtElements DEF RemoveElement
  <2>2. RemoveElement(dwords[CHANNEL_OUT], OutAt) \in Seq(WordChunk)
    BY <1>2, <1>3, RemoveAtElements DEF RemoveElement
  <2> QED BY <1>2, <2>1, <2>2, MoveInoutX
<1>5. registers' \in [Channel -> Seq(ChunkX)]
  <2>1. ASSUME NEW c \in Channel, NEW x \in WordChunk
        PROVE  AddWithPrio(registers[c], x, PRIO_INOUT_FIXED) \in Seq(ChunkX)
    <3>1. Prioritized(x, PRIO_INOUT_FIXED) \in ChunkX
      BY WordFacts, PrioritizedX DEF PRIO_INOUT_FIXED
    <3>2. registers[c] \in Seq(ChunkX)
      BY <1>2
    <3> QED BY <3>1, <3>2, AddedElements
  <2>2. /\ AddWithPrio(registers[CHANNEL_IN], dwords[CHANNEL_IN][InAt], PRIO_INOUT_FIXED)
             \in Seq(ChunkX)
        /\ AddWithPrio(registers[CHANNEL_OUT], dwords[CHANNEL_OUT][OutAt], PRIO_INOUT_FIXED)
             \in Seq(ChunkX)
    BY <1>2, <1>3, <2>1
  <2> QED BY <1>2, <2>2, MoveInoutX
<1>6. regsUsed' \in [Channel -> 0 .. NumRegs]
  <2>1. regsUsed[CHANNEL_IN] < NumRegs /\ regsUsed[CHANNEL_OUT] < NumRegs
    BY <1>1 DEF InoutFits
  <2>2. \A c \in {CHANNEL_IN, CHANNEL_OUT} : regsUsed[c] + 1 \in 0 .. NumRegs
    BY <1>2, <2>1, ConnectionXAssumption
  <2> QED BY <1>2, <2>2, MoveInoutX
<1> QED BY <1>1, <1>4, <1>5, <1>6 DEF TypesX, request, offsets, place

(* Ending that loop keeps the types.                                       *)
LEMMA TypesEndInouts == TypesX /\ EndInouts => TypesX'
<1> SUFFICES ASSUME TypesX, EndInouts  PROVE TypesX'
  OBVIOUS
<1>1. /\ phase = "inout" /\ phase' = "scan" /\ regsLeft' = NumRegs - regsUsed[CHANNEL_IN]
      /\ UNCHANGED <<request, chunkID, lists, chan, cursor, regsUsed, pinIndex,
                     candidates, offsets, place>>
  BY DEF EndInouts
<1>2. regsLeft' \in 0 .. NumRegs
  <2>1. regsUsed[CHANNEL_IN] \in 0 .. NumRegs
    BY ChannelsX DEF TypesX
  <2> QED BY <1>1, <2>1, ConnectionXAssumption
<1> QED BY <1>1, <1>2 DEF TypesX, request, lists, offsets, place, Measured

(* The chunk at the cursor, and what becomes of it in a register.          *)
LEMMA ScannedX ==
  ASSUME TypesX, Scanning
  PROVE  /\ cursor \in 1 .. Len(dwords[chan]) /\ Scanned \in WordChunk
         /\ Scanned = dwords[chan][cursor]
         /\ Taken \in ChunkX /\ Taken.size = Scanned.size
         /\ Taken.flags = Scanned.flags \ {ALLOC_SERVER}
<1>1. /\ dwords[chan] \in Seq(WordChunk) /\ cursor \in Nat \ {0} /\ cursor <= Len(dwords[chan])
  BY DEF TypesX, Scanning
<1>2. cursor \in 1 .. Len(dwords[chan]) /\ Scanned \in WordChunk /\ Scanned = dwords[chan][cursor]
  BY <1>1 DEF Scanned
<1>3. Scanned \in ChunkX
  BY <1>2, WordFacts
<1>4. /\ Taken \in ChunkX /\ Taken.size = Scanned.size
      /\ Taken.flags = Scanned.flags \ {ALLOC_SERVER}
  BY <1>3 DEF Taken, ChunkX
<1> QED BY <1>2, <1>4

(* A register shared by two chunks.                                        *)
LEMMA SharedX ==
  ASSUME NEW low \in ChunkX, NEW high \in ChunkX
  PROVE  /\ Shared(low, high) \in ChunkX
         /\ Shared(low, high).size = low.size + high.size
         /\ Shared(low, high).flags = low.flags \cup high.flags
<1> DEFINE align == IF low.align > high.align THEN low.align ELSE high.align
           size == low.size + high.size
           flags == low.flags \cup high.flags
           base == Chunk(UNKNOWN, "shared", size, align, {}, flags)
           members == MembersOf(low) \o MembersOf(high)
<1>1. ASSUME NEW x \in ChunkX  PROVE MembersOf(x) \in Seq(Member)
  <2>1. /\ x.members \in Seq(Member) /\ x.id \in Number /\ x.part \in Parts /\ x.size \in Nat
        /\ x.align \in Alignments
    BY DEF ChunkX
  <2>2. [id |-> x.id, part |-> x.part, size |-> x.size, align |-> x.align] \in Member
    BY <2>1 DEF Member
  <2> QED BY <2>1, <2>2 DEF MembersOf
<1>2. members \in Seq(Member)
  BY <1>1
<1>3. size \in Nat /\ align \in Alignments /\ flags \in SUBSET Flags /\ UNKNOWN \in Number
      /\ "shared" \in Parts
  <2>1. /\ low.size \in Nat /\ high.size \in Nat /\ low.flags \in SUBSET Flags
        /\ high.flags \in SUBSET Flags /\ low.align \in Alignments /\ high.align \in Alignments
    BY DEF ChunkX
  <2>2. UNKNOWN \in Number /\ "shared" \in Parts
    BY DEF Number, Parts
  <2> QED BY <2>1, <2>2
<1> HIDE DEF size, align, flags
<1>4. base \in ChunkX /\ base.size = size /\ base.flags = flags
  BY <1>3, NewChunkX
<1>5. Shared(low, high) = [base EXCEPT !.members = members]
  BY DEF Shared, size, align, flags
<1> HIDE DEF base, members
<1>6. /\ [base EXCEPT !.members = members] \in ChunkX
      /\ [base EXCEPT !.members = members].size = base.size
      /\ [base EXCEPT !.members = members].flags = base.flags
  BY <1>2, <1>4 DEF ChunkX
<1> QED BY <1>4, <1>5, <1>6 DEF size, flags

(* The register the chunk at the cursor fits into.                         *)
Partner == FirstOf(Sharable(Scanned))

(* There is one, and it has enough room left.                              *)
LEMMA PartnerX ==
  ASSUME TypesX, CanShare
  PROVE  /\ Partner \in 1 .. Len(candidates) /\ candidates[Partner] \in ChunkX
         /\ WordSize - candidates[Partner].size >= Scanned.size
<1>1. candidates \in Seq(ChunkX)
  BY DEF TypesX
<1>2. Sharable(Scanned) \in SUBSET Nat /\ Sharable(Scanned) # {}
  BY <1>1 DEF Sharable, CanShare
<1>3. Partner \in Sharable(Scanned)
  BY <1>2, FirstOfX DEF Partner
<1>4. Partner \in DOMAIN candidates /\ WordSize - candidates[Partner].size >= Scanned.size
  BY <1>3 DEF Sharable
<1> QED BY <1>1, <1>4

(* What taking a chunk does to everything but the registers.               *)
LEMMA TakeScannedX ==
  ASSUME TypesX, Scanning, NEW to \in Seq(ChunkX), TakeScanned(to), regsLeft' \in 0 .. NumRegs
  PROVE  TypesX'
<1>1. /\ candidates' = to /\ cursor' = 1 /\ phase = "scan"
      /\ dwords' = [dwords EXCEPT ![chan] = RemoveElement(dwords[chan], cursor)]
      /\ UNCHANGED <<phase, request, chunkID, dopes, registers, vars_, strings,
                     chan, regsUsed, pinIndex, offsets, place>>
  BY DEF TakeScanned, Scanning
<1>2. dwords \in [Channel -> Seq(WordChunk)] /\ chan \in Channel
  BY DEF TypesX
<1>3. RemoveElement(dwords[chan], cursor) \in Seq(WordChunk)
  BY <1>2, ScannedX, RemoveAtElements DEF RemoveElement
<1>4. dwords' \in [Channel -> Seq(WordChunk)]
  BY <1>1, <1>2, <1>3, ListChanged
<1> QED BY <1>1, <1>4 DEF TypesX, request, offsets, place

(* Sharing a register keeps the types.                                     *)
LEMMA TypesShare == TypesX /\ ShareRegister => TypesX'
<1> SUFFICES ASSUME TypesX, ShareRegister  PROVE TypesX'
  OBVIOUS
<1> DEFINE to == AddLast(RemoveElement(candidates, Partner), Shared(Taken, candidates[Partner]))
<1>1. /\ Scanning /\ CanShare /\ regsLeft' = regsLeft
      /\ TakeScanned(to)
  BY DEF ShareRegister, Partner
<1>2. candidates \in Seq(ChunkX) /\ regsLeft \in 0 .. NumRegs
  BY DEF TypesX
<1>3. RemoveElement(candidates, Partner) \in Seq(ChunkX)
  BY <1>1, <1>2, PartnerX, RemoveAtElements DEF RemoveElement
<1>4. Shared(Taken, candidates[Partner]) \in ChunkX
  BY <1>1, PartnerX, ScannedX, SharedX
<1>5. to \in Seq(ChunkX)
  BY <1>3, <1>4 DEF AddLast
<1> HIDE DEF to
<1> QED BY <1>1, <1>2, <1>5, TakeScannedX

(* Taking a register keeps the types.                                      *)
LEMMA TypesTake == TypesX /\ TakeRegister => TypesX'
<1> SUFFICES ASSUME TypesX, TakeRegister  PROVE TypesX'
  OBVIOUS
<1> DEFINE to == AddLast(candidates, Taken)
<1>1. /\ Scanning /\ regsLeft > 0 /\ regsLeft' = regsLeft - 1 /\ TakeScanned(to)
  BY DEF TakeRegister
<1>2. candidates \in Seq(ChunkX) /\ regsLeft \in 0 .. NumRegs
  BY DEF TypesX
<1>3. to \in Seq(ChunkX)
  BY <1>1, <1>2, ScannedX DEF AddLast
<1>4. regsLeft' \in 0 .. NumRegs
  BY <1>1, <1>2, ConnectionXAssumption
<1> HIDE DEF to
<1> QED BY <1>1, <1>3, <1>4, TakeScannedX

(* Passing a chunk by keeps the types.                                     *)
LEMMA TypesPass == TypesX /\ PassChunk => TypesX'
<1> SUFFICES ASSUME TypesX, PassChunk  PROVE TypesX'
  OBVIOUS
<1>1. cursor' = cursor + 1 /\ UNCHANGED <<phase, request, chunkID, lists, chan, packing, offsets, place>>
  BY DEF PassChunk
<1>2. cursor' \in Nat \ {0}
  BY <1>1 DEF TypesX
<1> QED BY <1>1, <1>2 DEF TypesX, request, lists, packing, offsets, place

(* Chunks are added to a list one by one.                                  *)
AddedAll(list, elems, prio) ==
  LET merged[i \in 0 .. Len(elems)] ==
        IF i = 0 THEN list ELSE AddWithPrio(merged[i - 1], elems[i], prio)
  IN  merged[Len(elems)]

(* The list stays what an added chunk does not change, and grows by each.  *)
LEMMA AddedAllX ==
  ASSUME NEW elems \in Seq(ChunkX), NEW prio,
         \A i \in DOMAIN elems : Prioritized(elems[i], prio) \in ChunkX,
         NEW G \in SUBSET Seq(ChunkX), NEW list \in G,
         \A l \in G : \A i \in DOMAIN elems : AddWithPrio(l, elems[i], prio) \in G
  PROVE  /\ AddedAll(list, elems, prio) \in G
         /\ Len(AddedAll(list, elems, prio)) = Len(list) + Len(elems)
<1> DEFINE n == Len(elems)
           Def(f) == [i \in 0 .. n |-> IF i = 0 THEN list
                                       ELSE AddWithPrio(f[i - 1], elems[i], prio)]
           sum == CHOOSE f : f = Def(f)
           step == [i \in 1 .. n |-> [l \in G |-> AddWithPrio(l, elems[i], prio)]]
<1>1. n \in Nat /\ DOMAIN elems = 1 .. n
  OBVIOUS
<1>2. step \in [1 .. n -> [G -> G]]
  BY <1>1
<1>3. PICK f : Follows(f, G, n, list, step)
  <2> HIDE DEF step, n
  <2> QED BY <1>1, <1>2, RecursiveFunction, Zenon
<1>4. f = Def(f)
  <2>1. ASSUME NEW i \in 1 .. n  PROVE f[i] = AddWithPrio(f[i - 1], elems[i], prio)
    <3>1. i - 1 \in 0 .. n
      BY <1>1
    <3>2. f[i - 1] \in G
      BY <1>3, <3>1 DEF Follows
    <3>3. step[i][f[i - 1]] = AddWithPrio(f[i - 1], elems[i], prio)
      BY <3>2
    <3> QED BY <1>3, <3>3 DEF Follows
  <2> QED BY <1>1, <1>3, <2>1 DEF Follows
<1>5. sum = Def(sum)
  <2> HIDE DEF Def
  <2> QED BY <1>4
<1>6. AddedAll(list, elems, prio) = sum[n]
  BY DEF AddedAll
<1> DEFINE H == {i \in 0 .. n : sum[i] \in G /\ Len(sum[i]) = Len(list) + i}
<1>7. 0 \in H
  <2>1. sum[0] = list
    <3> HIDE DEF sum
    <3> QED BY <1>1, <1>5
  <2>2. Len(list) \in Nat
    OBVIOUS
  <2> HIDE DEF sum
  <2> QED BY <1>1, <2>1, <2>2
<1>8. ASSUME NEW i \in 0 .. n - 1, i \in H  PROVE i + 1 \in H
  <2>1. i + 1 \in 0 .. n /\ i + 1 # 0 /\ (i + 1) - 1 = i /\ i + 1 \in DOMAIN elems
    BY <1>1
  <2> HIDE DEF sum
  <2>2. sum[i + 1] = AddWithPrio(sum[i], elems[i + 1], prio)
    BY <1>5, <2>1
  <2>3. sum[i] \in G /\ Len(sum[i]) = Len(list) + i /\ sum[i] \in Seq(ChunkX) /\ list \in Seq(ChunkX)
    BY <1>8
  <2>4. sum[i + 1] \in G
    BY <2>1, <2>2, <2>3
  <2>5. Prioritized(elems[i + 1], prio) \in ChunkX
    BY <2>1
  <2>6. Len(sum[i + 1]) = Len(sum[i]) + 1
    <3>1. ASSUME NEW l \in Seq(ChunkX)  PROVE Len(AddWithPrio(l, elems[i + 1], prio)) = Len(l) + 1
      BY <2>5, AddedElements
    <3> HIDE DEF Def, step, n
    <3> QED BY <2>2, <2>3, <3>1
  <2>7. Len(sum[i + 1]) = Len(list) + (i + 1)
    BY <2>3, <2>6, <1>1
  <2> QED BY <2>1, <2>4, <2>7
<1>9. n \in H
  <2> HIDE DEF H, n
  <2>1. 0 .. n \subseteq H
    BY <1>1, <1>7, <1>8, UpToInduction
  <2> QED BY <1>1, <2>1
<1> QED BY <1>6, <1>9

(* Merging what was found into the registers keeps the types.              *)
LEMMA TypesMerge == TypesX /\ MergeRegisters => TypesX'
<1> SUFFICES ASSUME TypesX, MergeRegisters  PROVE TypesX'
  OBVIOUS
<1>1. /\ phase = "scan" /\ candidates' = <<>> /\ cursor' = 1 /\ Advance("scan", "offset")
      /\ registers' = [registers EXCEPT ![chan] =
                         AddedAll(registers[chan], candidates, PRIO_OUT_FIXED)]
      /\ regsLeft' = IF phase' = "scan" THEN NumRegs - regsUsed[chan'] ELSE 0
      /\ UNCHANGED <<request, chunkID, dopes, dwords, vars_, strings, regsUsed,
                     pinIndex, offsets, place>>
  BY DEF MergeRegisters, AddedAll
<1>2. /\ registers \in [Channel -> Seq(ChunkX)] /\ candidates \in Seq(ChunkX) /\ chan \in Channel
      /\ regsUsed \in [Channel -> 0 .. NumRegs]
  BY DEF TypesX
<1>3. chan' \in Channel /\ phase' \in {"scan", "offset"}
  BY <1>1, <1>2, AdvanceX
<1>4. AddedAll(registers[chan], candidates, PRIO_OUT_FIXED) \in Seq(ChunkX)
  <2>1. \A i \in DOMAIN candidates : Prioritized(candidates[i], PRIO_OUT_FIXED) \in ChunkX
    <3> SUFFICES ASSUME NEW i \in DOMAIN candidates
                 PROVE  Prioritized(candidates[i], PRIO_OUT_FIXED) \in ChunkX
      OBVIOUS
    <3>1. candidates[i] \in ChunkX /\ PRIO_OUT_FIXED \in Nat
      BY <1>2 DEF PRIO_OUT_FIXED
    <3> QED BY <3>1, PrioritizedX
  <2>2. \A l \in Seq(ChunkX) : \A i \in DOMAIN candidates :
           AddWithPrio(l, candidates[i], PRIO_OUT_FIXED) \in Seq(ChunkX)
    BY <2>1, AddedElements
  <2>3. registers[chan] \in Seq(ChunkX) /\ Seq(ChunkX) \in SUBSET Seq(ChunkX)
    BY <1>2
  <2> QED BY <1>2, <2>1, <2>2, <2>3, AddedAllX
<1>5. registers' \in [Channel -> Seq(ChunkX)]
  BY <1>1, <1>2, <1>4, ListChanged
<1>6. regsLeft' \in 0 .. NumRegs
  <2>1. regsUsed[chan'] \in 0 .. NumRegs
    BY <1>2, <1>3
  <2> QED BY <1>1, <2>1, ConnectionXAssumption
<1>7. candidates' \in Seq(ChunkX) /\ cursor' \in Nat \ {0} /\ phase' \in Measured /\ phase' # "done"
  BY <1>1, <1>3 DEF Measured
<1>8. /\ sig' = sig /\ platform' = platform /\ pos' = pos /\ channelInitialized' = channelInitialized
      /\ UNCHANGED <<chunkID, dopes, dwords, vars_, strings, regsUsed, pinIndex>>
      /\ UNCHANGED <<outAlign, svrOutputOffset, clientPos, serverPos>>
  BY <1>1 DEF request, offsets, place
<1> QED BY <1>1, <1>3, <1>5, <1>6, <1>7, <1>8 DEF TypesX

-----------------------------------------------------------------------------
(* The types are kept: the reply's place, and every chunk's                *)

(* Rounding up gives a multiple, not below what is rounded.                *)
LEMMA AlignUpX ==
  ASSUME NEW x \in Int, NEW a \in Alignments
  PROVE  /\ AlignUp(x, a) \in Int /\ AlignUp(x, a) >= x /\ AlignUp(x, a) % a = 0
         /\ x \in Nat => AlignUp(x, a) \in Nat
<1>1. CASE a = 1
  BY <1>1 DEF AlignUp
<1>2. CASE a = 2
  BY <1>2 DEF AlignUp
<1>3. CASE a = 4
  BY <1>3 DEF AlignUp
<1>4. CASE a = 8
  BY <1>4 DEF AlignUp
<1> QED BY <1>1, <1>2, <1>3, <1>4 DEF Alignments

(* Positions counted are numbers.                                          *)
LEMMA CountedX ==
  ASSUME NEW n \in Nat, NEW S \in SUBSET (1 .. n)
  PROVE  Cardinality(S) \in 0 .. n
<1>1. IsFiniteSet(1 .. n) /\ Cardinality(1 .. n) = n
  BY UpToCardinality
<1>2. IsFiniteSet(S) /\ Cardinality(S) <= n
  BY <1>1, FS_Subset
<1>3. Cardinality(S) \in Nat
  BY <1>2, FS_CardinalityType
<1> QED BY <1>2, <1>3

(* The sizes of the request are numbers.                                   *)
LEMMA RequestSizes ==
  ASSUME TypesX
  PROVE  /\ Bytes(In) \in Nat /\ PlainInSize \in Nat /\ VarbufSize \in Nat /\ HeaderSize \in Nat
<1>1. /\ In \in Seq(WordChunk) /\ vars_[CHANNEL_IN] \in Seq(ChunkX)
  BY ChannelsX DEF TypesX, In
<1>2. (\A x \in WordChunk : x.size \in Nat) /\ (\A x \in ChunkX : x.size \in Nat)
  BY WordFacts DEF ChunkX
<1>3. Bytes(In) \in Nat
  BY <1>1, <1>2, BytesType
<1>4. VarbufSize \in Nat
  BY <1>1, <1>2, BytesType DEF VarbufSize
<1>5. PureIn \in 0 .. Len(In)
  <2>1. Len(In) \in Nat /\ {i \in DOMAIN In : \A j \in 1 .. i : ~HasOut(In[j])} \in SUBSET (1 .. Len(In))
    BY <1>1
  <2> QED BY <2>1, CountedX DEF PureIn
<1>6. SubSeq(In, 1, PureIn) \in Seq(WordChunk)
  <2>1. \A i \in 1 .. PureIn : In[i] \in WordChunk
    BY <1>1, <1>5
  <2> QED BY <1>1, <1>5, <2>1
<1>7. PlainInSize \in Nat
  BY <1>2, <1>6, BytesType DEF PlainInSize
<1>8. HeaderSize \in Nat
  BY ConnectionXAssumption DEF HeaderSize, WordSize
<1> QED BY <1>3, <1>4, <1>7, <1>8

(* The offsets chosen for the reply are numbers, and multiples of its      *)
(* alignment.                                                              *)
LEMMA OffsetX ==
  ASSUME TypesX, PlaceReply
  PROVE  /\ svrOutputOffset' \in Nat /\ svrOutputOffset' % outAlign = 0
         /\ phase = "offset" /\ phase' = "pad"
         /\ UNCHANGED <<request, chunkID, lists, chan, cursor, packing, outAlign, place>>
<1>1. outAlign \in {4, 8} /\ outAlign \in Alignments
  BY DEF TypesX, Alignments
<1>2. /\ phase = "offset" /\ phase' = "pad"
      /\ UNCHANGED <<request, chunkID, lists, chan, cursor, packing, outAlign, place>>
  BY DEF PlaceReply, OverlapReply, ReplyBehindInouts, ReplyBehindRequest, Choosing
<1>3. CASE OverlapReply
  <2>1. svrOutputOffset' = PlainInSize /\ PlainInSize % outAlign = 0
    BY <1>3 DEF OverlapReply, Choosing, CanOverlap
  <2> QED BY <1>2, <2>1, RequestSizes
<1>4. CASE ReplyBehindInouts
  <2>1. svrOutputOffset' = AlignUp(Bytes(In) + VarbufSize, outAlign)
    BY <1>4 DEF ReplyBehindInouts, Choosing
  <2>2. Bytes(In) + VarbufSize \in Nat
    BY RequestSizes
  <2> QED BY <1>1, <1>2, <2>1, <2>2, AlignUpX
<1>5. CASE ReplyBehindRequest
  <2>1. svrOutputOffset' = AlignUp(PlainInSize + HeaderSize + VarbufSize, outAlign)
    BY <1>5 DEF ReplyBehindRequest, Choosing
  <2>2. PlainInSize + HeaderSize + VarbufSize \in Nat
    BY RequestSizes
  <2> QED BY <1>1, <1>2, <2>1, <2>2, AlignUpX
<1> QED BY <1>3, <1>4, <1>5 DEF PlaceReply

(* Placing the reply keeps the types.                                      *)
LEMMA TypesPlaceReply == TypesX /\ PlaceReply => TypesX'
<1> SUFFICES ASSUME TypesX, PlaceReply  PROVE TypesX'
  OBVIOUS
<1> QED BY OffsetX DEF TypesX, request, lists, packing, place, Measured

(* Padding strings can be added.                                           *)
LEMMA WithPadsX ==
  ASSUME NEW list \in Seq(ChunkX), NEW c \in Channel, NEW prio \in Nat, NEW n \in Nat
  PROVE  WithPads(list, c, prio, n) \in Seq(ChunkX)
<1> DEFINE pad == Chunk(UNKNOWN, "strPad", SIZEOF_STRINGDOPE, WordSize, {c}, {ALLOC_SERVER})
           Def(f) == [i \in 0 .. n |-> IF i = 0 THEN list ELSE AddWithPrio(f[i - 1], pad, prio)]
           sum == CHOOSE f : f = Def(f)
           step == [i \in 1 .. n |-> [l \in Seq(ChunkX) |-> AddWithPrio(l, pad, prio)]]
<1>1. pad \in ChunkX
  <2>1. /\ UNKNOWN \in Number /\ "strPad" \in Parts /\ SIZEOF_STRINGDOPE \in Nat
        /\ WordSize \in Alignments /\ {c} \in SUBSET Channel /\ {ALLOC_SERVER} \in SUBSET Flags
    BY FlagFacts DEF Number, Parts, SIZEOF_STRINGDOPE, WordSize, Alignments
  <2> QED BY <2>1, NewChunkX
<1>2. WithPads(list, c, prio, n) = sum[n]
  BY DEF WithPads
<1> HIDE DEF pad
<1>3. \A l \in Seq(ChunkX) : AddWithPrio(l, pad, prio) \in Seq(ChunkX)
  BY <1>1, PrioritizedX, AddedElements
<1>4. step \in [1 .. n -> [Seq(ChunkX) -> Seq(ChunkX)]]
  BY <1>3
<1>5. PICK f : Follows(f, Seq(ChunkX), n, list, step)
  <2> HIDE DEF step
  <2> QED BY <1>4, RecursiveFunction, Zenon
<1>6. f = Def(f)
  <2>1. ASSUME NEW i \in 1 .. n  PROVE f[i] = AddWithPrio(f[i - 1], pad, prio)
    <3>1. i - 1 \in 0 .. n
      OBVIOUS
    <3>2. f[i - 1] \in Seq(ChunkX)
      BY <1>5, <3>1 DEF Follows
    <3>3. step[i][f[i - 1]] = AddWithPrio(f[i - 1], pad, prio)
      BY <3>2
    <3> QED BY <1>5, <3>3 DEF Follows
  <2> QED BY <1>5, <2>1 DEF Follows
<1>7. sum = Def(sum)
  <2> HIDE DEF Def
  <2> QED BY <1>6
<1> DEFINE H == {i \in 0 .. n : sum[i] \in Seq(ChunkX)}
<1>8. 0 \in H
  <2> HIDE DEF sum
  <2>1. sum[0] = list
    BY <1>7
  <2> QED BY <2>1
<1>9. ASSUME NEW i \in 0 .. n - 1, i \in H  PROVE i + 1 \in H
  <2> HIDE DEF sum
  <2>1. i + 1 \in 0 .. n /\ i + 1 # 0 /\ (i + 1) - 1 = i
    OBVIOUS
  <2>2. sum[i + 1] = AddWithPrio(sum[i], pad, prio)
    BY <1>7, <2>1
  <2> QED BY <1>3, <1>9, <2>1, <2>2
<1>10. n \in H
  <2> HIDE DEF H
  <2>1. 0 .. n \subseteq H
    BY <1>8, <1>9, UpToInduction
  <2> QED BY <2>1
<1> QED BY <1>2, <1>10

(* As many strings as any message of the server has.                       *)
LEMMA MaxOutStringsX ==
  ASSUME TypesX, phase # "done"
  PROVE  /\ \A c \in Channel : OutStrings(c) \in Nat
         /\ MaxOutStrings \in Nat
         /\ \A c \in AllOut : MaxOutStrings - OutStrings(c) \in Nat
         /\ PureInStrings \in Nat /\ InoutStrings \in Nat
<1>1. strings \in [Channel -> Seq(ChunkX)]
  BY DEF TypesX
<1>2. ASSUME NEW c \in Channel, NEW S \in SUBSET Strings(c)  PROVE Cardinality(S) \in Nat
  <2>1. Len(strings[c]) \in Nat /\ S \in SUBSET (1 .. Len(strings[c]))
    BY <1>1, <1>2 DEF Strings
  <2> QED BY <2>1, CountedX
<1>3. ASSUME NEW c \in Channel  PROVE OutStrings(c) \in Nat
  <2>1. {i \in Strings(c) : ~HasIn(strings[c][i])} \in SUBSET Strings(c)
    OBVIOUS
  <2> QED BY <1>2, <2>1 DEF OutStrings
<1>4. PureInStrings \in Nat /\ InoutStrings \in Nat
  <2>1. /\ {i \in Strings(CHANNEL_IN) : ~HasOut(strings[CHANNEL_IN][i])} \in SUBSET Strings(CHANNEL_IN)
        /\ {i \in Strings(CHANNEL_IN) : HasOut(strings[CHANNEL_IN][i])} \in SUBSET Strings(CHANNEL_IN)
        /\ CHANNEL_IN \in Channel
    BY ChannelsX
  <2> QED BY <1>2, <2>1 DEF PureInStrings, InoutStrings
<1> DEFINE out == [c \in AllOut |-> OutStrings(c)]
           T == {out[c] : c \in AllOut}
           U == {OutStrings(c) : c \in AllOut}
           most == CHOOSE n \in U : \A c \in AllOut : OutStrings(c) <= n
<1>5. T = U
  OBVIOUS
<1>6. IsFiniteSet(T)
  <2>1. IsFiniteSet(AllOut)
    BY ChannelsX, FS_Subset
  <2> HIDE DEF out
  <2> QED BY <2>1, FiniteValues
<1>7. U \in SUBSET Nat /\ U # {}
  BY <1>3, ChannelsX
<1>8. Max(U) \in U /\ \A y \in U : y <= Max(U)
  <2> HIDE DEF T, U
  <2>1. U \in SUBSET Int
    BY <1>7
  <2> QED BY <1>5, <1>6, <1>7, <2>1, MaxExists
<1>9. \E n \in U : \A c \in AllOut : OutStrings(c) <= n
  BY <1>8
<1>10. most \in U /\ \A c \in AllOut : OutStrings(c) <= most
  <2> HIDE DEF U
  <2> QED BY <1>9
<1>11. MaxOutStrings = most
  BY DEF MaxOutStrings
<1> HIDE DEF most, U
<1>12. most \in Nat
  BY <1>7, <1>10
<1>13. ASSUME NEW c \in AllOut  PROVE most - OutStrings(c) \in Nat
  BY <1>3, <1>10, <1>12, ChannelsX
<1> QED BY <1>3, <1>4, <1>11, <1>12, <1>13

(* Padding the strings keeps the types.                                    *)
LEMMA TypesPadStrings == TypesX /\ PadStrings => TypesX'
<1> SUFFICES ASSUME TypesX, PadStrings  PROVE TypesX'
  OBVIOUS
<1> DEFINE in(c) == WithPads(strings[c], c, PRIO_IN_PAD_STRING, PureInStrings)
           inouts(c) == IF c = CHANNEL_OUT THEN 0 ELSE InoutStrings
           inout(c) == WithPads(in(c), c, PRIO_INOUT_PAD_STRING, inouts(c))
           out(c) == WithPads(inout(c), c, PRIO_OUT_PAD_STRING, MaxOutStrings - OutStrings(c))
<1>1. /\ phase = "pad" /\ phase' = "freeze"
      /\ strings' = [c \in Channel |-> IF c = CHANNEL_IN THEN strings[c] ELSE out(c)]
      /\ clientPos' = HeaderSize /\ serverPos' = HeaderSize
      /\ UNCHANGED <<request, chunkID, dopes, registers, dwords, vars_, chan, cursor,
                     packing, offsets>>
  BY DEF PadStrings
<1>2. strings \in [Channel -> Seq(ChunkX)]
  BY <1>1 DEF TypesX
<1>3. ASSUME NEW c \in Channel, c # CHANNEL_IN  PROVE out(c) \in Seq(ChunkX)
  <2>1. /\ PureInStrings \in Nat /\ InoutStrings \in Nat /\ MaxOutStrings - OutStrings(c) \in Nat
        /\ strings[c] \in Seq(ChunkX)
    BY <1>1, <1>2, <1>3, MaxOutStringsX DEF AllOut
  <2>2. PRIO_IN_PAD_STRING \in Nat /\ PRIO_INOUT_PAD_STRING \in Nat /\ PRIO_OUT_PAD_STRING \in Nat
    BY DEF PRIO_IN_PAD_STRING, PRIO_INOUT_PAD_STRING, PRIO_OUT_PAD_STRING
  <2>3. in(c) \in Seq(ChunkX)
    BY <2>1, <2>2, WithPadsX
  <2>4. inouts(c) \in Nat
    BY <2>1
  <2> HIDE DEF in, inouts
  <2>5. inout(c) \in Seq(ChunkX)
    BY <2>2, <2>3, <2>4, WithPadsX
  <2> HIDE DEF inout
  <2> QED BY <2>1, <2>2, <2>5, WithPadsX
<1> HIDE DEF out
<1>4. strings' \in [Channel -> Seq(ChunkX)]
  BY <1>1, <1>2, <1>3
<1>5. clientPos' \in Int /\ serverPos' \in Int
  BY <1>1, RequestSizes
<1> QED BY <1>1, <1>4, <1>5 DEF TypesX, request, packing, offsets, Measured

(* A chunk whose positions have been chosen.                               *)
Positioned(x, client, server) == [x EXCEPT !.client = client, !.server = server]

(* Nothing else about the chunk changes.                                   *)
LEMMA PositionedX ==
  ASSUME NEW x \in ChunkX, NEW client \in Int, NEW server \in Int
  PROVE  LET y == Positioned(x, client, server) IN
         /\ y \in ChunkX /\ y.client = client /\ y.server = server
         /\ y.id = x.id /\ y.part = x.part /\ y.size = x.size /\ y.align = x.align
         /\ y.flags = x.flags /\ y.prio = x.prio /\ y.index = x.index /\ y.chans = x.chans
         /\ y.clientIndex = x.clientIndex /\ y.serverIndex = x.serverIndex
  BY DEF Positioned, ChunkX

(* A positioned word is still one.                                         *)
LEMMA PositionedWord ==
  ASSUME NEW x \in WordChunk, NEW client \in Int, NEW server \in Int
  PROVE  Positioned(x, client, server) \in WordChunk
<1> DEFINE y == Positioned(x, client, server)
<1>1. x \in ChunkX
  BY WordFacts
<1>2. /\ y \in ChunkX /\ y.id = x.id /\ y.part = x.part /\ y.size = x.size /\ y.align = x.align
      /\ y.flags = x.flags /\ y.prio = x.prio
  BY <1>1, PositionedX
<1> HIDE DEF y
<1> QED BY <1>2, WordFacts DEF WordChunk, y

(* Where the chunk at the cursor is put.                                   *)
ClientPad == Padding(clientPos, dwords[chan][cursor], ALLOC_CLIENT)
ServerPad == Padding(serverPos + ClientPad, dwords[chan][cursor], ALLOC_SERVER)
WordClient == clientPos + ClientPad + ServerPad
WordServer == serverPos + ClientPad + ServerPad

(* The step in terms of these positions, a word having room on both sides. *)
LEMMA FreezeChunkX ==
  ASSUME TypesX, FreezeChunk
  PROVE  /\ cursor \in 1 .. Len(dwords[chan]) /\ dwords[chan][cursor] \in WordChunk
         /\ WordClient \in Int /\ WordServer \in Int
         /\ dwords' = [dwords EXCEPT ![chan] = [dwords[chan] EXCEPT ![cursor] =
                         Positioned(dwords[chan][cursor], WordClient, WordServer)]]
         /\ clientPos' = WordClient + dwords[chan][cursor].size
         /\ serverPos' = WordServer + dwords[chan][cursor].size
         /\ phase = "freeze"
         /\ phase' = IF /\ WordClient % dwords[chan][cursor].align = 0
                        /\ WordServer % dwords[chan][cursor].align = 0
                     THEN phase ELSE "misaligned"
         /\ cursor' = cursor + 1
         /\ UNCHANGED <<request, chunkID, dopes, registers, vars_, strings, chan,
                        packing, offsets>>
<1> DEFINE chunk == dwords[chan][cursor]
<1>1. dwords \in [Channel -> Seq(WordChunk)] /\ chan \in Channel /\ cursor \in Nat \ {0}
      /\ clientPos \in Int /\ serverPos \in Int
  BY DEF TypesX
<1>2. cursor \in 1 .. Len(dwords[chan]) /\ chunk \in WordChunk
  BY <1>1 DEF FreezeChunk
<1>3. ALLOC_CLIENT \in chunk.flags /\ ALLOC_SERVER \in chunk.flags /\ chunk.align \in Alignments
  BY <1>2, WordFacts
<1>4. ClientPad \in Int
  BY <1>1, <1>3, AlignUpX DEF ClientPad, Padding
<1>5. ServerPad \in Int
  BY <1>1, <1>3, <1>4, AlignUpX DEF ServerPad, Padding
<1>6. WordClient \in Int /\ WordServer \in Int
  BY <1>1, <1>4, <1>5 DEF WordClient, WordServer
<1>7. dwords' = [dwords EXCEPT ![chan][cursor] =
                   [@ EXCEPT !.client = IF ALLOC_CLIENT \in chunk.flags THEN WordClient ELSE UNKNOWN,
                             !.server = IF ALLOC_SERVER \in chunk.flags THEN WordServer ELSE UNKNOWN]]
  BY DEF FreezeChunk, WordClient, WordServer, ClientPad, ServerPad
<1>8. dwords' = [dwords EXCEPT ![chan] = [dwords[chan] EXCEPT ![cursor] =
                   Positioned(chunk, WordClient, WordServer)]]
  BY <1>3, <1>7 DEF Positioned
<1>9. /\ clientPos' = WordClient + (IF ALLOC_CLIENT \in chunk.flags THEN chunk.size ELSE 0)
      /\ serverPos' = WordServer + (IF ALLOC_SERVER \in chunk.flags THEN chunk.size ELSE 0)
      /\ phase' = IF /\ ALLOC_CLIENT \in chunk.flags => WordClient % chunk.align = 0
                     /\ ALLOC_SERVER \in chunk.flags => WordServer % chunk.align = 0
                  THEN phase ELSE "misaligned"
  BY DEF FreezeChunk, WordClient, WordServer, ClientPad, ServerPad
<1>10. /\ phase = "freeze" /\ cursor' = cursor + 1
       /\ UNCHANGED <<request, chunkID, dopes, registers, vars_, strings, chan, packing, offsets>>
  BY DEF FreezeChunk
<1> QED BY <1>2, <1>3, <1>6, <1>8, <1>9, <1>10

(* One chunk of a list replaced.                                           *)
LEMMA ElementChanged ==
  ASSUME NEW S, NEW list \in Seq(S), NEW at \in 1 .. Len(list), NEW x \in S
  PROVE  /\ [list EXCEPT ![at] = x] \in Seq(S) /\ Len([list EXCEPT ![at] = x]) = Len(list)
         /\ DOMAIN [list EXCEPT ![at] = x] = DOMAIN list
         /\ [list EXCEPT ![at] = x][at] = x
         /\ \A i \in DOMAIN list : i # at => [list EXCEPT ![at] = x][i] = list[i]
  OBVIOUS

(* The words of the channel after that.                                    *)
LEMMA FrozenWords ==
  ASSUME TypesX, FreezeChunk
  PROVE  /\ dwords' \in [Channel -> Seq(WordChunk)]
         /\ \A c \in Channel : c # chan => dwords'[c] = dwords[c]
         /\ DOMAIN dwords'[chan] = DOMAIN dwords[chan]
         /\ dwords'[chan][cursor] = Positioned(dwords[chan][cursor], WordClient, WordServer)
         /\ \A i \in DOMAIN dwords[chan] : i # cursor => dwords'[chan][i] = dwords[chan][i]
<1> DEFINE x == Positioned(dwords[chan][cursor], WordClient, WordServer)
           list == [dwords[chan] EXCEPT ![cursor] = x]
<1>1. dwords \in [Channel -> Seq(WordChunk)] /\ chan \in Channel
  BY DEF TypesX
<1>2. x \in WordChunk /\ cursor \in 1 .. Len(dwords[chan])
  BY FreezeChunkX, PositionedWord
<1>3. dwords' = [dwords EXCEPT ![chan] = list]
  BY FreezeChunkX
<1> HIDE DEF x
<1>4. /\ list \in Seq(WordChunk) /\ DOMAIN list = DOMAIN dwords[chan] /\ list[cursor] = x
      /\ \A i \in DOMAIN dwords[chan] : i # cursor => list[i] = dwords[chan][i]
  BY <1>1, <1>2, ElementChanged
<1> HIDE DEF list
<1>5. /\ dwords' \in [Channel -> Seq(WordChunk)] /\ dwords'[chan] = list
      /\ \A c \in Channel \ {chan} : dwords'[c] = dwords[c]
  BY <1>1, <1>3, <1>4, ListChanged
<1> QED BY <1>4, <1>5 DEF x

(* Freezing a word keeps the types.                                        *)
LEMMA TypesFreezeChunk == TypesX /\ FreezeChunk => TypesX'
<1> SUFFICES ASSUME TypesX, FreezeChunk  PROVE TypesX'
  OBVIOUS
<1>1. dwords[chan][cursor].size \in Nat
  BY FreezeChunkX, WordFacts
<1>2. clientPos' \in Int /\ serverPos' \in Int
  BY <1>1, FreezeChunkX
<1>3. phase = "freeze" /\ phase' \in {"freeze", "misaligned"}
  BY FreezeChunkX
<1>4. cursor' \in Nat \ {0}
  <2>1. cursor \in Nat \ {0}
    BY DEF TypesX
  <2>2. cursor' = cursor + 1
    BY FreezeChunkX
  <2> QED BY <2>1, <2>2
<1>5. UNCHANGED <<request, chunkID, dopes, registers, vars_, strings, chan, packing, offsets>>
  BY FreezeChunkX
<1>6. dwords' \in [Channel -> Seq(WordChunk)]
  BY FrozenWords
<1> QED BY <1>2, <1>3, <1>4, <1>5, <1>6 DEF TypesX, request, packing, offsets, Measured

(* How many come before is a number.                                       *)
LEMMA BeforeX ==
  ASSUME NEW S, NEW list \in Seq(S), NEW i \in DOMAIN list, NEW P \in SUBSET (1 .. i - 1)
  PROVE  Cardinality(P) \in Nat
<1>1. i - 1 \in Nat
  OBVIOUS
<1> QED BY <1>1, CountedX

(* The registers' places, one after the other.                             *)
LEMMA RegisterIndexX ==
  ASSUME NEW list \in Seq(ChunkX)
  PROVE  /\ RegisterIndex(list)[0] = -1
         /\ \A i \in 0 .. Len(list) : RegisterIndex(list)[i] \in Int
         /\ \A i \in 1 .. Len(list) :
              RegisterIndex(list)[i] = IF PINNED \in list[i].flags THEN list[i].index
                                       ELSE RegisterIndex(list)[i - 1] + 1
<1> DEFINE n == Len(list)
           next(i, v) == IF PINNED \in list[i].flags THEN list[i].index ELSE v + 1
           Def(f) == [i \in 0 .. n |-> IF i = 0 THEN -1 ELSE next(i, f[i - 1])]
           index == CHOOSE f : f = Def(f)
           step == [i \in 1 .. n |-> [v \in Int |-> next(i, v)]]
<1>1. n \in Nat /\ \A i \in 1 .. n : list[i].index \in Int
  <2>1. \A i \in 1 .. n : list[i] \in ChunkX
    OBVIOUS
  <2>2. \A x \in ChunkX : x.index \in Int
    BY DEF ChunkX
  <2> QED BY <2>1, <2>2
<1>2. step \in [1 .. n -> [Int -> Int]]
  <2>1. ASSUME NEW i \in 1 .. n, NEW v \in Int  PROVE next(i, v) \in Int
    <3>1. list[i].index \in Int
      BY <1>1
    <3> QED BY <3>1
  <2> HIDE DEF next
  <2> QED BY <2>1
<1>3. PICK f : Follows(f, Int, n, -1, step)
  <2> HIDE DEF step, n
  <2>1. -1 \in Int
    OBVIOUS
  <2> QED BY <1>1, <1>2, <2>1, RecursiveFunction, Zenon
<1>4. f = Def(f)
  <2>1. ASSUME NEW i \in 1 .. n  PROVE f[i] = next(i, f[i - 1])
    <3>1. i - 1 \in 0 .. n
      BY <1>1
    <3>2. f[i - 1] \in Int
      BY <1>3, <3>1 DEF Follows
    <3> HIDE DEF next
    <3>3. step[i][f[i - 1]] = next(i, f[i - 1])
      BY <3>2
    <3> QED BY <1>3, <3>3 DEF Follows
  <2> HIDE DEF next
  <2> QED BY <1>1, <1>3, <2>1 DEF Follows
<1>5. index = Def(index)
  <2> HIDE DEF Def
  <2> QED BY <1>4
<1>6. RegisterIndex(list) = index
  BY DEF RegisterIndex
<1>7. /\ index[0] = -1
      /\ \A i \in 1 .. n : index[i] = next(i, index[i - 1])
  <2> HIDE DEF index
  <2> QED BY <1>1, <1>5
<1> HIDE DEF index, next
<1> DEFINE H == {i \in 0 .. n : index[i] \in Int}
<1>8. 0 \in H
  BY <1>1, <1>7
<1>9. ASSUME NEW i \in 0 .. n - 1, i \in H  PROVE i + 1 \in H
  <2>1. i + 1 \in 1 .. n /\ i + 1 \in 0 .. n /\ (i + 1) - 1 = i
    BY <1>1
  <2>2. index[i + 1] = next(i + 1, index[i])
    BY <1>7, <2>1
  <2>3. list[i + 1].index \in Int
    BY <1>1, <2>1
  <2> QED BY <1>9, <2>1, <2>2, <2>3 DEF next
<1>10. 0 .. n \subseteq H
  <2> HIDE DEF H, n
  <2> QED BY <1>1, <1>8, <1>9, UpToInduction
<1> QED BY <1>6, <1>7, <1>10 DEF next

(* A chunk in a register.                                                  *)
InRegister(x, index, shift) ==
  [x EXCEPT !.clientIndex = index, !.serverIndex = index,
            !.client = DopeSize + WordSize * index, !.server = DopeSize + WordSize * index + shift]

(* Nothing about the chunk changes but where it is.                        *)
LEMMA InRegisterX ==
  ASSUME NEW x \in ChunkX, NEW index \in Int, NEW shift \in Int
  PROVE  LET y == InRegister(x, index, shift) IN
         /\ y \in ChunkX /\ y.clientIndex = index /\ y.client = DopeSize + WordSize * index
         /\ y.id = x.id /\ y.part = x.part /\ y.size = x.size /\ y.align = x.align
         /\ y.flags = x.flags /\ y.prio = x.prio /\ y.index = x.index
<1> DEFINE a == DopeSize + WordSize * index
           b == a + shift
<1>1. a \in Int /\ b \in Int
  BY DEF DopeSize, WordSize
<1>2. InRegister(x, index, shift) =
        [x EXCEPT !.clientIndex = index, !.serverIndex = index, !.client = a, !.server = b]
  BY DEF InRegister
<1> HIDE DEF a, b
<1>3. x.prio \in Nat /\ x.members \in Seq(Member)
  BY DEF ChunkX
<1>4. LET y == [x EXCEPT !.clientIndex = index, !.serverIndex = index, !.client = a, !.server = b]
      IN  /\ y \in ChunkX /\ y.clientIndex = index /\ y.client = a
          /\ y.id = x.id /\ y.part = x.part /\ y.size = x.size /\ y.align = x.align
          /\ y.flags = x.flags /\ y.prio = x.prio /\ y.index = x.index
  BY <1>1 DEF ChunkX
<1> QED BY <1>2, <1>4 DEF a

(* The displacement of a channel is a number.                              *)
LEMMA ShiftX == TypesX => Shift \in Int
  BY DEF TypesX, Shift

(* Freezing the registers puts every chunk into one.                       *)
LEMMA FrozenRegistersX ==
  ASSUME TypesX, NEW list \in Seq(ChunkX)
  PROVE  /\ FrozenRegisters(list) \in Seq(ChunkX) /\ Len(FrozenRegisters(list)) = Len(list)
         /\ \A i \in 1 .. Len(list) :
              FrozenRegisters(list)[i] = InRegister(list[i], RegisterIndex(list)[i], Shift)
<1>1. FrozenRegisters(list) =
        [i \in DOMAIN list |-> InRegister(list[i], RegisterIndex(list)[i], Shift)]
  BY DEF FrozenRegisters, InRegister
<1>2. ASSUME NEW i \in DOMAIN list
      PROVE  InRegister(list[i], RegisterIndex(list)[i], Shift) \in ChunkX
  <2>1. i \in 0 .. Len(list) /\ list[i] \in ChunkX
    OBVIOUS
  <2>2. RegisterIndex(list)[i] \in Int
    BY <2>1, RegisterIndexX
  <2> QED BY <2>1, <2>2, ShiftX, InRegisterX
<1>3. DOMAIN list = 1 .. Len(list) /\ Len(list) \in Nat
  OBVIOUS
<1> QED BY <1>1, <1>2, <1>3

(* A dope's place depends on how many come before it.                      *)
LEMMA FrozenDopesX ==
  ASSUME TypesX, NEW list \in Seq(ChunkX)
  PROVE  FrozenDopes(list) \in Seq(ChunkX)
<1> DEFINE k(i) == Cardinality({j \in 1 .. i - 1 : ALLOC_SERVER \in list[j].flags
                                                    /\ PINNED \notin list[j].flags})
           client(i) == IF ALLOC_CLIENT \in list[i].flags
                        THEN WordSize * Before(list, i, ALLOC_CLIENT) ELSE list[i].client
           server(i) == IF ALLOC_SERVER \notin list[i].flags THEN list[i].server
                        ELSE IF PINNED \in list[i].flags THEN WordSize * list[i].index
                        ELSE WordSize * (k(i) - LocalVars) + Shift
<1>1. FrozenDopes(list) = [i \in DOMAIN list |-> Positioned(list[i], client(i), server(i))]
  BY DEF FrozenDopes, Positioned
<1>2. ASSUME NEW i \in DOMAIN list  PROVE Positioned(list[i], client(i), server(i)) \in ChunkX
  <2>1. list[i] \in ChunkX
    OBVIOUS
  <2>2. list[i].client \in Int /\ list[i].server \in Int /\ list[i].index \in Int
    BY <2>1 DEF ChunkX
  <2>3. Before(list, i, ALLOC_CLIENT) \in Nat
    <3>1. {j \in 1 .. i - 1 : ALLOC_CLIENT \in list[j].flags} \in SUBSET (1 .. i - 1)
      OBVIOUS
    <3> QED BY <3>1, BeforeX DEF Before
  <2>4. k(i) \in Nat
    <3>1. {j \in 1 .. i - 1 : ALLOC_SERVER \in list[j].flags /\ PINNED \notin list[j].flags}
            \in SUBSET (1 .. i - 1)
      OBVIOUS
    <3> QED BY <3>1, BeforeX
  <2> HIDE DEF k
  <2>5. client(i) \in Int
    BY <2>2, <2>3 DEF WordSize
  <2>6. server(i) \in Int
    <3>1. LocalVars \in Int /\ Shift \in Int
      BY ShiftX DEF LocalVars
    <3> QED BY <2>2, <2>4, <3>1 DEF WordSize
  <2> HIDE DEF client, server
  <2> QED BY <2>1, <2>5, <2>6, PositionedX
<1>3. DOMAIN list = 1 .. Len(list) /\ Len(list) \in Nat
  OBVIOUS
<1> HIDE DEF client, server
<1> QED BY <1>1, <1>2, <1>3

(* So does a string's.                                                     *)
Numbered(x, clientIndex, client, serverIndex, server) ==
  [x EXCEPT !.clientIndex = clientIndex, !.client = client,
            !.serverIndex = serverIndex, !.server = server]

(* Frozen strings are chunks.                                              *)
LEMMA FrozenStringsX ==
  ASSUME NEW list \in Seq(ChunkX)
  PROVE  FrozenStrings(list) \in Seq(ChunkX)
<1> DEFINE At(i, side) == IF side \in list[i].flags THEN Before(list, i, side) ELSE UNKNOWN
           Offset(i, side) == IF side \in list[i].flags
                              THEN SIZEOF_STRINGDOPE * Before(list, i, side) ELSE UNKNOWN
           frozen(i) == Numbered(list[i], At(i, ALLOC_CLIENT), Offset(i, ALLOC_CLIENT),
                                 At(i, ALLOC_SERVER), Offset(i, ALLOC_SERVER))
<1>1. FrozenStrings(list) = [i \in DOMAIN list |-> frozen(i)]
  BY DEF FrozenStrings, Numbered
<1>2. ASSUME NEW i \in DOMAIN list  PROVE frozen(i) \in ChunkX
  <2>1. list[i] \in ChunkX
    OBVIOUS
  <2>2. ASSUME NEW side  PROVE At(i, side) \in Int /\ Offset(i, side) \in Int
    <3>1. {j \in 1 .. i - 1 : side \in list[j].flags} \in SUBSET (1 .. i - 1)
      OBVIOUS
    <3>2. Before(list, i, side) \in Nat
      BY <3>1, BeforeX DEF Before
    <3> QED BY <3>2 DEF UNKNOWN, SIZEOF_STRINGDOPE
  <2> HIDE DEF At, Offset
  <2>3. ASSUME NEW a \in Int, NEW b \in Int, NEW c \in Int, NEW d \in Int
        PROVE  Numbered(list[i], a, b, c, d) \in ChunkX
    BY <2>1 DEF Numbered, ChunkX
  <2> QED BY <2>2, <2>3
<1>3. DOMAIN list = 1 .. Len(list) /\ Len(list) \in Nat
  OBVIOUS
<1> HIDE DEF frozen
<1> QED BY <1>1, <1>2, <1>3

(* Freezing a channel keeps the types.                                     *)
LEMMA TypesFreezeChannel == TypesX /\ FreezeChannel => TypesX'
<1> SUFFICES ASSUME TypesX, FreezeChannel  PROVE TypesX'
  OBVIOUS
<1>1. /\ phase = "freeze" /\ cursor' = 1
      /\ dopes' = [dopes EXCEPT ![chan] = FrozenDopes(dopes[chan])]
      /\ registers' = [registers EXCEPT ![chan] = FrozenRegisters(registers[chan])]
      /\ strings' = [strings EXCEPT ![chan] = FrozenStrings(strings[chan])]
      /\ clientPos' = HeaderSize /\ serverPos' = ServerStart(chan')
      /\ UNCHANGED <<request, chunkID, dwords, vars_, packing, offsets>>
  BY DEF FreezeChannel
<1>2. /\ dopes \in [Channel -> Seq(ChunkX)] /\ registers \in [Channel -> Seq(ChunkX)]
      /\ strings \in [Channel -> Seq(ChunkX)] /\ chan \in Channel /\ svrOutputOffset \in Nat
  BY <1>1 DEF TypesX
<1>3. chan' \in Channel /\ phase' \in {"freeze", "restrict", "pin_assertion"}
  <2>1. \/ Advance("freeze", "restrict")
        \/ phase' = "pin_assertion" /\ UNCHANGED chan
    BY DEF FreezeChannel
  <2> QED BY <1>2, <2>1, AdvanceX
<1>4. dopes[chan] \in Seq(ChunkX) /\ registers[chan] \in Seq(ChunkX) /\ strings[chan] \in Seq(ChunkX)
  BY <1>2
<1>5. /\ FrozenDopes(dopes[chan]) \in Seq(ChunkX)
      /\ FrozenRegisters(registers[chan]) \in Seq(ChunkX)
      /\ FrozenStrings(strings[chan]) \in Seq(ChunkX)
  BY <1>4, FrozenDopesX, FrozenRegistersX, FrozenStringsX
<1>6. /\ dopes' \in [Channel -> Seq(ChunkX)] /\ registers' \in [Channel -> Seq(ChunkX)]
      /\ strings' \in [Channel -> Seq(ChunkX)]
  BY <1>1, <1>2, <1>5, ListChanged
<1>7. clientPos' \in Int /\ serverPos' \in Int
  <2>1. HeaderSize \in Nat
    BY RequestSizes
  <2> QED BY <1>1, <1>2, <2>1 DEF ServerStart
<1>8. /\ UNCHANGED <<chunkID, dwords, vars_, packing, outAlign, svrOutputOffset>>
      /\ UNCHANGED <<sig, platform, pos, channelInitialized>>
      /\ cursor' \in Nat \ {0} /\ phase' \in Measured /\ phase' # "done"
  BY <1>1, <1>3 DEF request, offsets, Measured
<1> QED BY <1>3, <1>6, <1>7, <1>8 DEF TypesX, packing

(* Taking the server's room away changes flags only.                       *)
Unallocated(x) == [x EXCEPT !.flags = x.flags \ {ALLOC_SERVER}]

(* The chunk stays one, at the same place.                                 *)
LEMMA UnallocatedX ==
  ASSUME NEW x \in ChunkX
  PROVE  LET y == Unallocated(x) IN
         /\ y \in ChunkX /\ y.flags = x.flags \ {ALLOC_SERVER}
         /\ y.id = x.id /\ y.part = x.part /\ y.size = x.size /\ y.align = x.align
         /\ y.prio = x.prio /\ y.index = x.index
         /\ y.clientIndex = x.clientIndex /\ y.client = x.client
  BY DEF Unallocated, ChunkX

(* A list some of whose chunks lost their room.                            *)
LEMMA WithoutX ==
  ASSUME NEW list \in Seq(ChunkX), NEW keep
  PROVE  /\ Without(list, keep) \in Seq(ChunkX) /\ Len(Without(list, keep)) = Len(list)
         /\ \A i \in 1 .. Len(list) :
              Without(list, keep)[i] = IF i \in keep THEN list[i] ELSE Unallocated(list[i])
<1>1. Without(list, keep) =
        [i \in DOMAIN list |-> IF i \in keep THEN list[i] ELSE Unallocated(list[i])]
  BY DEF Without, Unallocated
<1>2. \A i \in DOMAIN list : list[i] \in ChunkX /\ Unallocated(list[i]) \in ChunkX
  BY UnallocatedX
<1>3. DOMAIN list = 1 .. Len(list) /\ Len(list) \in Nat
  OBVIOUS
<1> QED BY <1>1, <1>2, <1>3

(* What keeps its room on the server.                                      *)
KeptRegisters(c) ==
  {i \in DOMAIN registers[c] :
     registers[c][i].part \in {"fid", "eid"} \/ registers[c][i].prio = PRIO_MAP}
KeptDopes(c) == {i \in DOMAIN dopes[c] : dopes[c][i].part \in {"_esp", "_ebp"}}

(* The step in terms of the chunks that keep their room.                   *)
LEMMA RestrictServerX ==
  ASSUME RestrictServer
  PROVE  /\ \/ registers' = registers /\ dopes' = dopes
            \/ /\ registers' = [c \in Channel |-> Without(registers[c], KeptRegisters(c))]
               /\ dopes' = [c \in Channel |-> Without(dopes[c], KeptDopes(c))]
         /\ phase = "restrict" /\ phase' = "finalize"
         /\ UNCHANGED <<request, chunkID, dwords, vars_, strings, chan, cursor, packing,
                        offsets, place>>
  BY DEF RestrictServer, KeptRegisters, KeptDopes

(* Restricting the server keeps the types.                                 *)
LEMMA TypesRestrict == TypesX /\ RestrictServer => TypesX'
<1> SUFFICES ASSUME TypesX, RestrictServer  PROVE TypesX'
  OBVIOUS
<1>1. dopes \in [Channel -> Seq(ChunkX)] /\ registers \in [Channel -> Seq(ChunkX)]
  BY DEF TypesX
<1>2. /\ \A c \in Channel : Without(registers[c], KeptRegisters(c)) \in Seq(ChunkX)
      /\ \A c \in Channel : Without(dopes[c], KeptDopes(c)) \in Seq(ChunkX)
  BY <1>1, WithoutX
<1>3. dopes' \in [Channel -> Seq(ChunkX)] /\ registers' \in [Channel -> Seq(ChunkX)]
  BY <1>1, <1>2, RestrictServerX
<1>4. /\ phase = "restrict" /\ phase' = "finalize"
      /\ UNCHANGED <<request, chunkID, dwords, vars_, strings, chan, cursor, packing,
                     offsets, place>>
  BY RestrictServerX
<1> QED BY <1>3, <1>4 DEF TypesX, request, packing, offsets, place, Measured

(* Placing the strings behind the messages keeps the types.                *)
LEMMA TypesFinalize == TypesX /\ Finalize => TypesX'
<1> SUFFICES ASSUME TypesX, Finalize  PROVE TypesX'
  OBVIOUS
<1> DEFINE moved(x) == [x EXCEPT
             !.client = IF ALLOC_CLIENT \in x.flags
                        THEN x.client + AlignUp(MaxBytes("client"), WordSize) ELSE x.client,
             !.server = IF ALLOC_SERVER \in x.flags THEN x.server + MessageBytes ELSE x.server]
<1>1. /\ phase = "finalize" /\ phase' = "done"
      /\ strings' = [c \in Channel |-> [i \in DOMAIN strings[c] |-> moved(strings[c][i])]]
      /\ UNCHANGED <<request, chunkID, dopes, registers, dwords, vars_, chan, cursor,
                     packing, offsets, place>>
  BY DEF Finalize
<1>2. strings \in [Channel -> Seq(ChunkX)]
  BY <1>1 DEF TypesX
<1>3. ASSUME NEW x \in ChunkX  PROVE IsChunk(moved(x))
  BY DEF ChunkX, IsChunk, Number, Alignments, Flags
<1> HIDE DEF moved
<1>4. \A c \in Channel : \A i \in DOMAIN strings'[c] : IsChunk(strings'[c][i])
  <2> SUFFICES ASSUME NEW c \in Channel, NEW i \in DOMAIN strings'[c]
               PROVE  IsChunk(strings'[c][i])
    OBVIOUS
  <2>1. strings'[c] = [k \in DOMAIN strings[c] |-> moved(strings[c][k])]
    BY <1>1
  <2>2. i \in DOMAIN strings[c] /\ strings'[c][i] = moved(strings[c][i])
    BY <2>1
  <2>3. strings[c][i] \in ChunkX
    BY <1>2, <2>2
  <2> QED BY <1>3, <2>2, <2>3
<1> QED BY <1>1, <1>4 DEF TypesX, request, packing, offsets, place, Measured, IsChunk

(* Measuring the alignment of the reply keeps the types.                   *)
LEMMA TypesMeasure == TypesX /\ MeasureAlignment => TypesX'
<1> SUFFICES ASSUME TypesX, MeasureAlignment  PROVE TypesX'
  OBVIOUS
<1>1. /\ phase = "align" /\ phase' = "inout" /\ outAlign' = Strictest(dwords[CHANNEL_OUT])
      /\ UNCHANGED <<request, chunkID, lists, chan, cursor, packing, svrOutputOffset, place>>
  BY DEF MeasureAlignment
<1>2. dwords[CHANNEL_OUT] \in Seq(WordChunk)
  BY ChannelsX DEF TypesX
<1>3. outAlign' \in {4, 8}
  BY <1>1, <1>2, StrictestX
<1> QED BY <1>1, <1>3 DEF TypesX, request, lists, packing, place, Measured

(* Every step keeps the types.                                             *)
LEMMA TypesStep == TypesX /\ [Next]_vars => TypesX'
<1> SUFFICES ASSUME TypesX, [Next]_vars  PROVE TypesX'
  OBVIOUS
<1>1. CASE UNCHANGED vars
  BY <1>1 DEF TypesX, vars, request, lists, packing, offsets, place, IsChunk
<1>2. CASE Finished
  BY <1>1, <1>2 DEF Finished
<1> QED BY <1>1, <1>2, TypesMarshal, TypesAddDopes, TypesAddVarbufs, TypesReserve, TypesMoveMap,
           TypesPadMaps, TypesMeasure, TypesMoveInout, TypesEndInouts, TypesShare, TypesTake, TypesPass,
           TypesMerge, TypesPlaceReply, TypesPadStrings, TypesFreezeChunk, TypesFreezeChannel,
           TypesRestrict, TypesFinalize DEF Next, FillRegisters, Freeze

-----------------------------------------------------------------------------
(* Loops and channels                                                      *)

(* Every loop begins at the first channel, and the scan with no candidate. *)
LEMMA LoopsStep == TypesX /\ LoopsX /\ [Next]_vars => LoopsX'
<1> SUFFICES ASSUME TypesX, LoopsX, [Next]_vars  PROVE LoopsX'
  OBVIOUS
<1>1. CASE UNCHANGED vars
  BY <1>1 DEF LoopsX, vars, packing
<1>2. CASE Finished
  BY <1>1, <1>2 DEF Finished
<1>3. chan \in Channel
  BY DEF TypesX
<1>4. CASE Marshal
  <2>1. phase \in {"options", "marshal"} /\ phase' = "marshal" /\ UNCHANGED <<chan, cursor, candidates>>
    BY <1>4 DEF Marshal, SetOption, MarshalExceptionCode, GetFixedCopyChunk, GetStringChunk,
       GetVarbufChunk, GetMapChunk, Marshalling, packing
  <2> QED BY <2>1 DEF LoopsX, Looping
<1>5. CASE AddDopes
  BY <1>5 DEF AddDopes, LoopsX, Looping, packing
<1>6. CASE AddVarbufs
  BY <1>6 DEF AddVarbufs, LoopsX, Looping, packing
<1>7. CASE ReserveRegister
  BY <1>7 DEF ReserveRegister, LoopsX, Looping
<1>8. CASE MoveMap
  BY <1>8 DEF MoveMap, LoopsX, Looping
<1>9. CASE PadMaps
  <2>1. phase = "maps" /\ UNCHANGED <<cursor, candidates>>
    BY <1>9 DEF PadMaps, packing
  <2>2. \/ phase' = "pad_assertion" /\ UNCHANGED chan
        \/ Advance("reserve", "align")
    BY <1>9 DEF PadMaps
  <2> QED BY <1>3, <2>1, <2>2, AdvanceX DEF LoopsX, Looping
<1>10. CASE MeasureAlignment
  BY <1>10 DEF MeasureAlignment, LoopsX, Looping, packing
<1>11. CASE MoveInout
  BY <1>11 DEF MoveInout, LoopsX, Looping
<1>12. CASE EndInouts
  BY <1>12 DEF EndInouts, LoopsX, Looping
<1>13. CASE ShareRegister \/ TakeRegister
  BY <1>13 DEF ShareRegister, TakeRegister, TakeScanned, Scanning, LoopsX, Looping
<1>14. CASE PassChunk
  BY <1>14 DEF PassChunk, Scanning, LoopsX, Looping
<1>15. CASE MergeRegisters
  <2>1. candidates' = <<>> /\ cursor' = 1 /\ Advance("scan", "offset")
    BY <1>15 DEF MergeRegisters
  <2> QED BY <1>3, <2>1, AdvanceX DEF LoopsX, Looping
<1>16. CASE PlaceReply
  <2>1. phase = "offset" /\ phase' = "pad" /\ UNCHANGED <<chan, cursor, packing>>
    BY <1>16, OffsetX
  <2> QED BY <2>1 DEF LoopsX, Looping, packing
<1>17. CASE PadStrings
  BY <1>17 DEF PadStrings, LoopsX, Looping, packing
<1>18. CASE FreezeChunk
  <2>1. phase = "freeze" /\ phase' \in {"freeze", "misaligned"} /\ UNCHANGED <<chan, packing>>
    BY <1>18, FreezeChunkX
  <2> QED BY <2>1 DEF LoopsX, Looping, packing
<1>19. CASE FreezeChannel
  <2>1. phase = "freeze" /\ cursor' = 1 /\ UNCHANGED packing
    BY <1>19 DEF FreezeChannel
  <2>2. \/ phase' = "pin_assertion" /\ UNCHANGED chan
        \/ Advance("freeze", "restrict")
    BY <1>19 DEF FreezeChannel
  <2> QED BY <1>3, <2>1, <2>2, AdvanceX DEF LoopsX, Looping, packing
<1>20. CASE RestrictServer
  BY <1>20 DEF RestrictServer, LoopsX, Looping, packing
<1>21. CASE Finalize
  BY <1>21 DEF Finalize, LoopsX, Looping, packing
<1> QED BY <1>1, <1>2, <1>4, <1>5, <1>6, <1>7, <1>8, <1>9, <1>10, <1>11, <1>12, <1>13, <1>14,
           <1>15, <1>16, <1>17, <1>18, <1>19, <1>20, <1>21 DEF Next, FillRegisters, Freeze

(* What the calls do to the channels.                                      *)
LEMMA ChannelsMarshal == TypesX /\ ChannelsInv /\ Marshal => ChannelsInv'
<1> SUFFICES ASSUME TypesX, ChannelsInv, Marshal  PROVE ChannelsInv'
  OBVIOUS
<1>1. sig' = sig /\ phase \in {"options", "marshal"} /\ phase' = "marshal"
  BY DEF Marshal, SetOption, MarshalExceptionCode, GetFixedCopyChunk, GetStringChunk,
     GetVarbufChunk, GetMapChunk, Marshalling
<1>2. channelInitialized' = Channel
  <2>1. channelInitialized = IF phase = "options" THEN {CHANNEL_IN} ELSE Channel
    BY DEF ChannelsInv
  <2>2. {CHANNEL_IN} \cup AllOut = Channel
    BY ChannelsX DEF AllOut
  <2>3. CASE SetOption
    BY <2>1, <2>2, <2>3 DEF SetOption
  <2>4. CASE MarshalExceptionCode
    BY <2>1, <2>2, <2>4 DEF MarshalExceptionCode, FixedCopyChunk
  <2>5. CASE GetFixedCopyChunk
    <3>1. /\ phase = "marshal" /\ Marshalling("fixed")
          /\ channelInitialized' = channelInitialized \cup Parameter_.chans
      BY <2>5 DEF GetFixedCopyChunk, FixedCopyChunk, Marshalling
    <3>2. Parameter_.chans \subseteq Channel
      BY <3>1, ParameterX
    <3> QED BY <2>1, <3>1, <3>2
  <2>6. CASE GetStringChunk \/ GetVarbufChunk \/ GetMapChunk
    <3>1. phase = "marshal" /\ channelInitialized' = channelInitialized
      BY <2>6 DEF GetStringChunk, GetVarbufChunk, GetMapChunk, Marshalling
    <3> QED BY <2>1, <3>1
  <2> QED BY <2>3, <2>4, <2>5, <2>6 DEF Marshal
<1>3. ASSUME sig.oneway, NEW c \in AllOut  PROVE dwords'[c] = <<>> /\ vars_'[c] = <<>>
  <2>1. dwords[c] = <<>> /\ vars_[c] = <<>> /\ c \in Channel /\ c # CHANNEL_IN
    BY <1>3, ChannelsX DEF ChannelsInv, AllOut
  <2>2. CASE SetOption
    BY <2>1, <2>2 DEF SetOption, lists
  <2>3. CASE MarshalExceptionCode
    BY <1>3, <2>3 DEF MarshalExceptionCode
  <2>4. ASSUME NEW kind, Marshalling(kind)
        PROVE  c \notin Parameter_.chans /\ Parameter_.chans \in SUBSET Channel
    BY <1>3, <2>1, <2>4, ParameterX
  <2>5. CASE GetFixedCopyChunk
    <3>1. /\ Marshalling("fixed") /\ vars_' = vars_
          /\ FixedCopyChunk(Parameter_.chans, Parameter_.size, Parameter_.align)
      BY <2>5 DEF GetFixedCopyChunk, FixedCopyChunk
    <3> DEFINE chans == Parameter_.chans
               old == chans \ (chans \ channelInitialized)
               value == Chunk(chunkID + 1, "value", Parameter_.size, Parameter_.align, chans,
                              STANDARD)
    <3>2. dwords' = AddTo(dwords, old, value, Priority(chans))
      BY <3>1 DEF FixedCopyChunk
    <3>3. c \notin old
      BY <2>4, <3>1
    <3> HIDE DEF old, value
    <3> QED BY <2>1, <3>1, <3>2, <3>3 DEF AddTo
  <2>6. CASE GetStringChunk
    BY <2>1, <2>6 DEF GetStringChunk
  <2>7. CASE GetVarbufChunk
    <3>1. c \notin Parameter_.chans
      BY <2>4, <2>7 DEF GetVarbufChunk
    <3> HIDE DEF Parameter_
    <3> QED BY <2>1, <2>7, <3>1 DEF GetVarbufChunk, AddTo
  <2>8. CASE GetMapChunk
    <3>1. c \notin Parameter_.chans
      BY <2>4, <2>8 DEF GetMapChunk
    <3> HIDE DEF Parameter_
    <3> QED BY <2>1, <2>8, <3>1 DEF GetMapChunk, AddTo
  <2> QED BY <2>2, <2>3, <2>5, <2>6, <2>7, <2>8 DEF Marshal
<1> QED BY <1>1, <1>2, <1>3 DEF ChannelsInv

(* The lists of words and of variable data stay empty if they are.         *)
StillEmpty == \A c \in Channel : dwords[c] = <<>> /\ vars_[c] = <<>>
                                   => dwords'[c] = <<>> /\ vars_'[c] = <<>>

(* No loop of optimize puts words into a channel without any.              *)
LEMMA OptimizeEmpty ==
  ASSUME TypesX, FillRegisters \/ PlaceReply \/ Freeze
  PROVE  StillEmpty /\ phase # "options" /\ phase' # "options" /\ UNCHANGED <<sig, channelInitialized>>
<1>1. dwords \in [Channel -> Seq(WordChunk)] /\ chan \in Channel
  BY DEF TypesX
<1>2. CASE AddDopes
  BY <1>2 DEF AddDopes, StillEmpty, request
<1>3. CASE AddVarbufs
  <2>1. PICK with \in SUBSET Channel :
          /\ with = {c \in Channel : vars_[c] # <<>>}
          /\ dwords' = [c \in Channel |-> IF c \notin with THEN dwords[c]
                         ELSE AddWithPrio(dwords[c], Varbuf(with, c), PRIO_VARIABLE)]
    BY <1>3, AddVarbufsX
  <2>2. phase = "varbufs" /\ phase' = "reserve" /\ UNCHANGED <<sig, channelInitialized, vars_>>
    BY <1>3 DEF AddVarbufs, request
  <2> QED BY <2>1, <2>2 DEF StillEmpty
<1>4. CASE ReserveRegister
  BY <1>4 DEF ReserveRegister, StillEmpty, request
<1>5. CASE MoveMap
  <2> DEFINE first == FirstOf(WithPrio(dwords[chan], PRIO_MAP))
  <2>1. /\ MapWaits /\ phase = "maps" /\ phase' = "maps"
        /\ dwords' = [dwords EXCEPT ![chan] = RemoveElement(dwords[chan], first)]
        /\ UNCHANGED <<sig, channelInitialized, vars_>>
    BY <1>5 DEF MoveMap, MapFits, MapWaits, request
  <2>2. dwords[chan] # <<>>
    BY <2>1 DEF MapWaits, WithPrio
  <2> HIDE DEF first
  <2>3. \A c \in Channel : c # chan => dwords'[c] = dwords[c]
    BY <1>1, <2>1
  <2> QED BY <2>1, <2>2, <2>3 DEF StillEmpty
<1>6. CASE PadMaps
  <2>1. /\ dwords' = dwords \/ dwords' = [dwords EXCEPT ![chan] = WithPad(dwords[chan], Pinned(MapPad, 0))]
        /\ UNCHANGED <<sig, channelInitialized, vars_>> /\ phase = "maps"
        /\ phase' = "pad_assertion" \/ Advance("reserve", "align")
    BY <1>6 DEF PadMaps, MapPad, request
  <2>2. dwords[chan] = <<>> => WithPad(dwords[chan], Pinned(MapPad, 0)) = <<>>
    BY DEF WithPad, HasPrioOrAbove
  <2>3. \A c \in Channel : dwords[c] = <<>> => dwords'[c] = <<>>
    BY <1>1, <2>1, <2>2
  <2> QED BY <1>1, <2>1, <2>3, AdvanceX DEF StillEmpty
<1>7. CASE MeasureAlignment \/ EndInouts
  BY <1>7 DEF MeasureAlignment, EndInouts, StillEmpty, request, lists
<1>8. CASE MoveInout
  <2>1. /\ InoutFits /\ phase = "inout" /\ phase' = "inout"
        /\ UNCHANGED <<sig, channelInitialized, vars_>>
    BY <1>8 DEF MoveInout, request
  <2>2. dwords[CHANNEL_IN] # <<>> /\ dwords[CHANNEL_OUT] # <<>>
    BY <2>1, InoutX
  <2>3. \A c \in Channel : c \notin {CHANNEL_IN, CHANNEL_OUT} => dwords'[c] = dwords[c]
    BY <1>8, MoveInoutX
  <2> QED BY <2>1, <2>2, <2>3 DEF StillEmpty
<1>9. CASE ShareRegister \/ TakeRegister
  <2>1. /\ Scanning /\ phase = "scan" /\ phase' = "scan"
        /\ dwords' = [dwords EXCEPT ![chan] = RemoveElement(dwords[chan], cursor)]
        /\ UNCHANGED <<sig, channelInitialized, vars_>>
    BY <1>9 DEF ShareRegister, TakeRegister, TakeScanned, Scanning, request
  <2>2. dwords[chan] # <<>>
    BY <2>1, ScannedX
  <2>3. \A c \in Channel : c # chan => dwords'[c] = dwords[c]
    BY <1>1, <2>1
  <2> QED BY <2>1, <2>2, <2>3 DEF StillEmpty
<1>10. CASE PassChunk
  BY <1>10 DEF PassChunk, Scanning, StillEmpty, request, lists
<1>11. CASE MergeRegisters
  <2>1. phase = "scan" /\ Advance("scan", "offset") /\ UNCHANGED <<sig, channelInitialized, dwords, vars_>>
    BY <1>11 DEF MergeRegisters, request
  <2> QED BY <1>1, <2>1, AdvanceX DEF StillEmpty
<1>12. CASE PlaceReply
  BY <1>12, OffsetX DEF StillEmpty, request, lists
<1>13. CASE PadStrings \/ RestrictServer \/ Finalize
  BY <1>13 DEF PadStrings, RestrictServer, Finalize, StillEmpty, request
<1>14. CASE FreezeChunk
  <2>1. /\ phase = "freeze" /\ phase' \in {"freeze", "misaligned"}
        /\ UNCHANGED <<sig, channelInitialized, vars_>>
    BY <1>14, FreezeChunkX DEF request
  <2>2. dwords[chan] # <<>>
    BY <1>14, FreezeChunkX
  <2> QED BY <1>14, <2>1, <2>2, FrozenWords DEF StillEmpty
<1>15. CASE FreezeChannel
  <2>1. /\ phase = "freeze"
        /\ phase' = "pin_assertion" \/ Advance("freeze", "restrict")
        /\ UNCHANGED <<sig, channelInitialized, dwords, vars_>>
    BY <1>15 DEF FreezeChannel, request
  <2>2. phase' # "options"
    BY <1>1, <2>1, AdvanceX
  <2> QED BY <2>1, <2>2 DEF StillEmpty
<1> QED BY <1>2, <1>3, <1>4, <1>5, <1>6, <1>7, <1>8, <1>9, <1>10, <1>11, <1>12, <1>13, <1>14,
           <1>15 DEF FillRegisters, Freeze

(* Every step keeps one-way operations without replies.                    *)
LEMMA ChannelsStep == TypesX /\ ChannelsInv /\ [Next]_vars => ChannelsInv'
<1> SUFFICES ASSUME TypesX, ChannelsInv, [Next]_vars  PROVE ChannelsInv'
  OBVIOUS
<1>1. CASE UNCHANGED vars
  BY <1>1 DEF ChannelsInv, vars, request, lists
<1>2. CASE Finished
  BY <1>1, <1>2 DEF Finished
<1>3. CASE FillRegisters \/ PlaceReply \/ Freeze
  <2>1. /\ StillEmpty /\ phase # "options" /\ phase' # "options"
        /\ sig' = sig /\ channelInitialized' = channelInitialized
    BY <1>3, OptimizeEmpty
  <2> QED BY <2>1, ChannelsX DEF ChannelsInv, StillEmpty
<1> QED BY <1>1, <1>2, <1>3, ChannelsMarshal DEF Next

-----------------------------------------------------------------------------
(* Numbers and alignments of the words                                     *)

(* What two chunks have in common if one became the other among the words. *)
Like(x, y) ==
  /\ x.id = y.id /\ x.prio = y.prio /\ x.size = y.size /\ x.align = y.align
  /\ x.chans = y.chans

(* No words but those there were, and none twice.                          *)
Kept(list, from) ==
  /\ \A x \in ToSet(list) : \E y \in ToSet(from) : Like(x, y)
  /\ IdsDistinct(from) => IdsDistinct(list)

(* So in every channel.                                                    *)
WordsLike == \A c \in Channel : Kept(dwords'[c], dwords[c])

(* New words have new numbers, and are alike in both channels.             *)
LEMMA IdsAdded ==
  ASSUME TypesX, TypesX', IdsInv, chunkID' >= chunkID,
         \A c \in Channel : IdsDistinct(dwords'[c]),
         \A c \in Channel : \A x \in ToSet(dwords'[c]) :
           x \in ToSet(dwords[c]) \/ (x.id > chunkID /\ x.id <= chunkID'),
         \A x \in ToSet(dwords'[CHANNEL_IN]), y \in ToSet(dwords'[CHANNEL_OUT]) :
           x.id > chunkID /\ y.id > chunkID /\ x.id = y.id => Twins(x, y)
  PROVE  IdsInv'
<1>1. chunkID \in Nat /\ chunkID' \in Nat
  BY DEF TypesX
<1>2. ASSUME NEW c \in Channel, NEW x \in ToSet(dwords'[c])  PROVE x.id \in Nat
  <2>1. dwords'[c] \in Seq(WordChunk)
    BY DEF TypesX
  <2>2. x \in WordChunk
    BY <2>1 DEF ToSet
  <2> QED BY <2>2, WordFacts
<1>3. ASSUME NEW c \in Channel, NEW x \in ToSet(dwords'[c])  PROVE x.id <= chunkID'
  <2>1. x \in ToSet(dwords[c]) => x.id <= chunkID
    BY DEF IdsInv
  <2>2. x.id \in Nat
    BY <1>2
  <2>3. x \in ToSet(dwords[c]) \/ (x.id > chunkID /\ x.id <= chunkID')
    OBVIOUS
  <2> QED BY <1>1, <2>1, <2>2, <2>3
<1>4. ASSUME NEW x \in ToSet(dwords'[CHANNEL_IN]), NEW y \in ToSet(dwords'[CHANNEL_OUT]),
             x.id = y.id
      PROVE  Twins(x, y)
  <2>1. /\ x \in ToSet(dwords[CHANNEL_IN]) \/ x.id > chunkID
        /\ y \in ToSet(dwords[CHANNEL_OUT]) \/ y.id > chunkID
    BY ChannelsX
  <2>2. /\ x \in ToSet(dwords[CHANNEL_IN]) => x.id <= chunkID
        /\ y \in ToSet(dwords[CHANNEL_OUT]) => y.id <= chunkID
    BY ChannelsX DEF IdsInv
  <2>3. x.id \in Nat /\ y.id \in Nat
    BY <1>2, ChannelsX
  <2>4. CASE x.id > chunkID
    <3>1. y.id > chunkID
      BY <1>4, <2>4
    <3> QED BY <1>4, <2>4, <3>1
  <2>5. CASE ~(x.id > chunkID)
    <3>1. x \in ToSet(dwords[CHANNEL_IN]) /\ y \in ToSet(dwords[CHANNEL_OUT])
      BY <1>4, <2>1, <2>5
    <3> QED BY <1>4, <3>1 DEF IdsInv
  <2> QED BY <2>4, <2>5
<1>5. \A x \in ToSet(dwords'[CHANNEL_IN]), y \in ToSet(dwords'[CHANNEL_OUT]) :
        x.id = y.id => Twins(x, y)
  BY <1>4
<1>6. \A c \in Channel : IdsDistinct(dwords'[c]) /\ \A x \in ToSet(dwords'[c]) : x.id <= chunkID'
  BY <1>3
<1>7. IdsInv' <=>
        /\ \A c \in Channel : IdsDistinct(dwords'[c]) /\ \A x \in ToSet(dwords'[c]) : x.id <= chunkID'
        /\ \A x \in ToSet(dwords'[CHANNEL_IN]), y \in ToSet(dwords'[CHANNEL_OUT]) :
             x.id = y.id => Twins(x, y)
  BY DEF IdsInv, IdsDistinct, Twins, HasOut
<1> QED BY <1>5, <1>6, <1>7

(* A word with a new number is the only one with it.                       *)
LEMMA DistinctAdded ==
  ASSUME TypesX, IdsInv, NEW c \in Channel, NEW chunk, NEW prio \in Nat,
         Prioritized(chunk, prio) \in WordChunk, Prioritized(chunk, prio).prio = prio,
         Prioritized(chunk, prio).id > chunkID
  PROVE  IdsDistinct(AddWithPrio(dwords[c], chunk, prio))
<1> DEFINE new == Prioritized(chunk, prio)
<1>1. dwords[c] \in Seq(WordChunk) /\ chunkID \in Nat
  BY DEF TypesX
<1>2. \A x \in WordChunk : x.prio \in Nat
  BY WordFacts DEF ChunkX
<1>3. IdsDistinct(dwords[c]) /\ \A x \in ToSet(dwords[c]) : x.id <= chunkID
  BY DEF IdsInv
<1>4. ASSUME NEW x \in ToSet(dwords[c])  PROVE x.id # new.id
  <2>1. x \in WordChunk
    BY <1>1 DEF ToSet
  <2>2. x.id \in Nat /\ new.id \in Nat
    BY <2>1, WordFacts
  <2> HIDE DEF new
  <2>3. new.id > chunkID
    BY DEF new
  <2> QED BY <1>1, <1>3, <2>2, <2>3
<1> QED BY <1>1, <1>2, <1>3, <1>4, AddWithPrioKeeps

(* A chunk of a new number added in some channels.                         *)
LEMMA IdsAddTo ==
  ASSUME TypesX, TypesX', IdsInv, NEW chans \in SUBSET Channel, NEW chunk \in ChunkX,
         NEW prio \in Nat, Prioritized(chunk, prio) \in WordChunk,
         dwords' = AddTo(dwords, chans, chunk, prio), chans \subseteq chunk.chans,
         chunk.id = chunkID + 1, chunkID' = chunkID + 1
  PROVE  IdsInv'
<1> DEFINE new == Prioritized(chunk, prio)
<1>1. /\ new.id = chunkID + 1 /\ new.prio = prio /\ new.chans = chunk.chans
      /\ chunkID \in Nat
  BY PrioritizedX DEF TypesX
<1>2. new \in WordChunk
  OBVIOUS
<1> HIDE DEF new
<1>3. dwords \in [Channel -> Seq(WordChunk)]
  BY DEF TypesX
<1>4. ASSUME NEW c \in Channel, NEW x \in ToSet(dwords'[c])
      PROVE  x \in ToSet(dwords[c]) \/ (x = new /\ c \in chans)
  <2>1. dwords[c] \in Seq(WordChunk)
    BY <1>3
  <2>2. \/ dwords'[c] = dwords[c]
        \/ dwords'[c] = AddWithPrio(dwords[c], chunk, prio) /\ c \in chans
    BY DEF AddTo
  <2>3. CASE dwords'[c] = dwords[c]
    BY <2>3
  <2>4. CASE dwords'[c] = AddWithPrio(dwords[c], chunk, prio) /\ c \in chans
    BY <1>2, <2>1, <2>4, ElementsAdded DEF new
  <2> QED BY <2>2, <2>3, <2>4
<1>5. \A c \in Channel : \A x \in ToSet(dwords'[c]) :
        x \in ToSet(dwords[c]) \/ (x.id > chunkID /\ x.id <= chunkID')
  BY <1>1, <1>4
<1>6. ASSUME NEW x \in ToSet(dwords'[CHANNEL_IN]), NEW y \in ToSet(dwords'[CHANNEL_OUT]),
             x.id > chunkID, y.id > chunkID
      PROVE  Twins(x, y)
  <2>1. /\ x \in ToSet(dwords[CHANNEL_IN]) => x.id <= chunkID
        /\ y \in ToSet(dwords[CHANNEL_OUT]) => y.id <= chunkID
    BY ChannelsX DEF IdsInv
  <2>2. x \in ToSet(dwords[CHANNEL_IN]) \/ x = new
    BY <1>4, ChannelsX
  <2>3. y \in ToSet(dwords[CHANNEL_OUT]) \/ (y = new /\ CHANNEL_OUT \in chans)
    BY <1>4, ChannelsX
  <2>4. x.id \in Nat /\ y.id \in Nat
    <3>1. dwords'[CHANNEL_IN] \in Seq(WordChunk) /\ dwords'[CHANNEL_OUT] \in Seq(WordChunk)
      BY ChannelsX DEF TypesX
    <3>2. x \in WordChunk /\ y \in WordChunk
      BY <3>1 DEF ToSet
    <3> QED BY <3>2, WordFacts
  <2>5. x = new /\ y = new /\ CHANNEL_OUT \in chans
    BY <1>1, <1>6, <2>1, <2>2, <2>3, <2>4
  <2> QED BY <1>1, <2>5 DEF Twins, HasOut
<1>7. ASSUME NEW c \in Channel  PROVE IdsDistinct(dwords'[c])
  <2>1. dwords'[c] = dwords[c] \/ dwords'[c] = AddWithPrio(dwords[c], chunk, prio)
    BY DEF AddTo
  <2>2. IdsDistinct(AddWithPrio(dwords[c], chunk, prio))
    <3>1. new.id > chunkID
      BY <1>1
    <3> QED BY <1>1, <1>2, <3>1, DistinctAdded DEF new
  <2>3. IdsDistinct(dwords[c])
    BY DEF IdsInv
  <2> QED BY <2>1, <2>2, <2>3
<1>8. chunkID' >= chunkID
  BY <1>1
<1> QED BY <1>5, <1>6, <1>7, <1>8, IdsAdded

(* The calls give both halves of a value the same chunk.                   *)
LEMMA IdsMarshal == TypesX /\ TypesX' /\ IdsInv /\ Marshal => IdsInv'
<1> SUFFICES ASSUME TypesX, TypesX', IdsInv, Marshal  PROVE IdsInv'
  OBVIOUS
<1>1. chunkID \in Nat
  BY DEF TypesX
<1>2. ASSUME NEW chans \in SUBSET Channel, NEW size \in Nat, NEW align \in Alignments,
             FixedCopyChunk(chans, size, align)
      PROVE  IdsInv'
  <2> DEFINE old == chans \ (chans \ channelInitialized)
             value == Chunk(chunkID + 1, "value", size, align, chans, STANDARD)
             prio == Priority(chans)
  <2>1. chunkID' = chunkID + 1 /\ dwords' = AddTo(dwords, old, value, prio)
    BY <1>2 DEF FixedCopyChunk
  <2>2. chunkID + 1 \in Number /\ chunkID + 1 \in Nat /\ "value" \in Parts /\ "value" \notin Untyped
    BY <1>1 DEF Parts, Number, Untyped
  <2>3. /\ value \in ChunkX /\ value.id = chunkID + 1 /\ value.flags = STANDARD
        /\ value.part = "value" /\ value.chans = chans
    BY <2>2, FlagFacts, NewChunkX
  <2>4. prio \in Nat /\ prio # PRIO_MAP
    BY PrioritiesX DEF PRIO_IN_FIXED, PRIO_INOUT_FIXED, PRIO_OUT_FIXED, PRIO_MAP
  <2>5. old \in SUBSET Channel /\ old \subseteq chans
    OBVIOUS
  <2> HIDE DEF value, prio, old
  <2>6. Prioritized(value, prio) \in WordChunk
    BY <2>2, <2>3, <2>4, FlagFacts, PrioritizedWord
  <2> QED BY <2>1, <2>3, <2>4, <2>5, <2>6, IdsAddTo
<1>3. CASE SetOption
  BY <1>3 DEF SetOption, lists, IdsInv
<1>4. CASE MarshalExceptionCode
  <2>1. AllOut \in SUBSET Channel /\ WordSize \in Nat /\ WordSize \in Alignments
    BY ChannelsX DEF WordSize, Alignments
  <2> QED BY <1>2, <1>4, <2>1 DEF MarshalExceptionCode
<1>5. CASE GetFixedCopyChunk
  <2>1. /\ Marshalling("fixed")
        /\ FixedCopyChunk(Parameter_.chans, Parameter_.size, Parameter_.align)
    BY <1>5 DEF GetFixedCopyChunk
  <2>2. /\ Parameter_.chans \in SUBSET Channel /\ Parameter_.size \in Nat
        /\ Parameter_.align \in Alignments
    BY <2>1, ParameterX
  <2> HIDE DEF Parameter_
  <2> QED BY <1>2, <2>1, <2>2
<1>6. CASE GetStringChunk
  <2>1. chunkID' = chunkID + 1 /\ dwords' = dwords
    BY <1>6 DEF GetStringChunk
  <2>2. chunkID' >= chunkID
    BY <1>1, <2>1
  <2>3. \A c \in Channel : \A x \in ToSet(dwords[c]) : x.id <= chunkID'
    <3> SUFFICES ASSUME NEW c \in Channel, NEW x \in ToSet(dwords[c])  PROVE x.id <= chunkID'
      OBVIOUS
    <3>1. x.id <= chunkID
      BY DEF IdsInv
    <3>2. dwords[c] \in Seq(WordChunk)
      BY DEF TypesX
    <3>3. x \in WordChunk
      BY <3>2 DEF ToSet
    <3> QED BY <1>1, <2>1, <3>1, <3>3, WordFacts
  <2>4. \A c \in Channel : IdsDistinct(dwords[c])
    BY DEF IdsInv
  <2>5. \A x \in ToSet(dwords[CHANNEL_IN]), y \in ToSet(dwords[CHANNEL_OUT]) :
          x.id = y.id => Twins(x, y)
    BY DEF IdsInv
  <2> QED BY <2>1, <2>3, <2>4, <2>5 DEF IdsInv, IdsDistinct, Twins, HasOut
<1>7. CASE GetVarbufChunk
  <2> DEFINE chans == Parameter_.chans
             id == chunkID + 1
             size == Chunk(id, "size", WordSize, WordSize, chans, STANDARD)
             prio == Priority(chans)
  <2>1. /\ Marshalling("variable") /\ chunkID' = id
        /\ dwords' = AddTo(dwords, chans, size, prio)
    BY <1>7 DEF GetVarbufChunk
  <2>2. chans \in SUBSET Channel
    BY <2>1, ParameterX
  <2>3. /\ id \in Number /\ id \in Nat /\ "size" \in Parts /\ "size" \notin Untyped
        /\ WordSize \in Nat /\ WordSize \in Alignments
    BY <1>1 DEF Parts, Number, Untyped, Alignments, WordSize
  <2> HIDE DEF chans
  <2>4. /\ size \in ChunkX /\ size.id = id /\ size.part = "size" /\ size.flags = STANDARD
        /\ size.chans = chans
    BY <2>2, <2>3, FlagFacts, NewChunkX
  <2>5. prio \in Nat /\ prio # PRIO_MAP
    BY PrioritiesX DEF PRIO_IN_FIXED, PRIO_INOUT_FIXED, PRIO_OUT_FIXED, PRIO_MAP
  <2> HIDE DEF size, prio
  <2>6. Prioritized(size, prio) \in WordChunk
    BY <2>3, <2>4, <2>5, FlagFacts, PrioritizedWord
  <2> QED BY <2>1, <2>2, <2>4, <2>5, <2>6, IdsAddTo
<1>8. CASE GetMapChunk
  <2> DEFINE chans == Parameter_.chans
             map == Chunk(chunkID + 1, "fpage", 8, 8, chans, STANDARD)
  <2>1. /\ Marshalling("fpage") /\ chunkID' = chunkID + 1
        /\ dwords' = AddTo(dwords, chans, map, PRIO_MAP)
    BY <1>8 DEF GetMapChunk
  <2>2. chans \in SUBSET Channel
    BY <2>1, ParameterX
  <2>3. /\ chunkID + 1 \in Number /\ chunkID + 1 \in Nat /\ "fpage" \in Parts
        /\ "fpage" \notin Untyped /\ 8 \in Nat /\ 8 \in Alignments /\ PRIO_MAP \in Nat
    BY <1>1 DEF Parts, Number, Untyped, Alignments, PRIO_MAP
  <2> HIDE DEF chans
  <2>4. /\ map \in ChunkX /\ map.id = chunkID + 1 /\ map.part = "fpage" /\ map.flags = STANDARD
        /\ map.size = 8 /\ map.chans = chans
    BY <2>2, <2>3, FlagFacts, NewChunkX
  <2> HIDE DEF map
  <2>5. Prioritized(map, PRIO_MAP) \in WordChunk
    BY <2>3, <2>4, FlagFacts, PrioritizedWord
  <2> QED BY <2>1, <2>2, <2>3, <2>4, <2>5, IdsAddTo
<1> QED BY <1>3, <1>4, <1>5, <1>6, <1>7, <1>8 DEF Marshal

(* Request and reply have variable buffers with different numbers.         *)
LEMMA VarbufApart ==
  ASSUME TypesX, NEW with \in SUBSET Channel, CHANNEL_IN \in with, CHANNEL_OUT \in with
  PROVE  VarbufNumber(with, CHANNEL_IN) # VarbufNumber(with, CHANNEL_OUT)
<1> DEFINE S == {d \in with : d <= CHANNEL_IN}
           T == {d \in with : d <= CHANNEL_OUT}
<1>1. chunkID \in Nat
  BY DEF TypesX
<1>2. IsFiniteSet(with)
  BY ChannelsX, FS_Subset
<1>3. IsFiniteSet(S) /\ IsFiniteSet(T)
  <2>1. S \subseteq with /\ T \subseteq with
    OBVIOUS
  <2> HIDE DEF S, T
  <2> QED BY <1>2, <2>1, FS_Subset
<1>4. S \subseteq T /\ CHANNEL_OUT \in T /\ CHANNEL_OUT \notin S
  <2>1. \A d \in with : d \in Nat
    BY ChannelsX
  <2>2. CHANNEL_IN = 0 /\ CHANNEL_OUT = 1
    BY DEF CHANNEL_IN, CHANNEL_OUT
  <2>3. \A d \in with : d <= CHANNEL_IN => d <= CHANNEL_OUT
    BY <2>1, <2>2
  <2>4. S \subseteq T
    BY <2>3
  <2>5. CHANNEL_OUT <= CHANNEL_OUT /\ ~(CHANNEL_OUT <= CHANNEL_IN)
    BY <2>2
  <2>6. CHANNEL_OUT \in T /\ CHANNEL_OUT \notin S
    BY <2>5
  <2> QED BY <2>4, <2>6
<1> HIDE DEF S, T
<1>5. Cardinality(S) # Cardinality(T)
  BY <1>3, <1>4, FS_Subset
<1>6. Cardinality(S) \in Nat /\ Cardinality(T) \in Nat
  BY <1>3, FS_CardinalityType
<1> QED BY <1>1, <1>5, <1>6 DEF VarbufNumber, S, T

(* Variable buffers have new numbers, the reply's another than the         *)
(* request's.                                                              *)
LEMMA IdsAddVarbufs == TypesX /\ TypesX' /\ IdsInv /\ AddVarbufs => IdsInv'
<1> SUFFICES ASSUME TypesX, TypesX', IdsInv, AddVarbufs  PROVE IdsInv'
  OBVIOUS
<1>1. PICK with \in SUBSET Channel :
        /\ dwords' = [c \in Channel |-> IF c \notin with THEN dwords[c]
                       ELSE AddWithPrio(dwords[c], Varbuf(with, c), PRIO_VARIABLE)]
        /\ chunkID' = chunkID + Cardinality(with)
  BY AddVarbufsX
<1>2. dwords \in [Channel -> Seq(WordChunk)] /\ chunkID \in Nat
  BY DEF TypesX
<1>3. Cardinality(with) \in Nat
  BY ChannelsX, FS_Subset, FS_CardinalityType
<1>4. ASSUME NEW c \in Channel, NEW x \in ToSet(dwords'[c])
      PROVE  \/ x \in ToSet(dwords[c])
             \/ /\ x.id > chunkID /\ x.id <= chunkID'
                /\ c \in with /\ x.id = VarbufNumber(with, c)
  <2>1. CASE c \notin with
    BY <1>1, <2>1
  <2>2. CASE c \in with
    <3>1. dwords'[c] = AddWithPrio(dwords[c], Varbuf(with, c), PRIO_VARIABLE)
      BY <1>1, <2>2
    <3> DEFINE new == Prioritized(Varbuf(with, c), PRIO_VARIABLE)
    <3>2. /\ new \in WordChunk /\ new.id > chunkID /\ new.id <= chunkID'
          /\ new.id = VarbufNumber(with, c)
      BY <1>1, <2>2, VarbufX
    <3>3. dwords[c] \in Seq(WordChunk)
      BY <1>2
    <3>4. x \in ToSet(dwords[c]) \/ x = new
      BY <3>1, <3>2, <3>3, ElementsAdded
    <3> HIDE DEF new
    <3> QED BY <2>2, <3>2, <3>4
  <2> QED BY <2>1, <2>2
<1>5. \A c \in Channel : \A x \in ToSet(dwords'[c]) :
        x \in ToSet(dwords[c]) \/ (x.id > chunkID /\ x.id <= chunkID')
  BY <1>4
<1>6. ASSUME NEW x \in ToSet(dwords'[CHANNEL_IN]), NEW y \in ToSet(dwords'[CHANNEL_OUT]),
             x.id > chunkID, y.id > chunkID
      PROVE  x.id # y.id
  <2>1. /\ x \in ToSet(dwords[CHANNEL_IN]) => x.id <= chunkID
        /\ y \in ToSet(dwords[CHANNEL_OUT]) => y.id <= chunkID
    BY ChannelsX DEF IdsInv
  <2>2. x.id \in Nat /\ y.id \in Nat
    <3>1. dwords'[CHANNEL_IN] \in Seq(WordChunk) /\ dwords'[CHANNEL_OUT] \in Seq(WordChunk)
      BY ChannelsX DEF TypesX
    <3>2. x \in WordChunk /\ y \in WordChunk
      BY <3>1 DEF ToSet
    <3> QED BY <3>2, WordFacts
  <2>3. CHANNEL_IN \in with /\ x.id = VarbufNumber(with, CHANNEL_IN)
    BY <1>2, <1>4, <1>6, <2>1, <2>2, ChannelsX
  <2>4. CHANNEL_OUT \in with /\ y.id = VarbufNumber(with, CHANNEL_OUT)
    BY <1>2, <1>4, <1>6, <2>1, <2>2, ChannelsX
  <2> QED BY <1>2, <2>3, <2>4, VarbufApart
<1>7. ASSUME NEW c \in Channel  PROVE IdsDistinct(dwords'[c])
  <2>1. c \notin with => dwords'[c] = dwords[c]
    BY <1>1
  <2>2. c \in with => dwords'[c] = AddWithPrio(dwords[c], Varbuf(with, c), PRIO_VARIABLE)
    BY <1>1
  <2>3. IdsDistinct(dwords[c])
    BY DEF IdsInv
  <2>4. ASSUME c \in with  PROVE IdsDistinct(AddWithPrio(dwords[c], Varbuf(with, c), PRIO_VARIABLE))
    <3> DEFINE new == Prioritized(Varbuf(with, c), PRIO_VARIABLE)
    <3>1. new \in WordChunk /\ new.id > chunkID /\ new.prio = PRIO_VARIABLE
      BY <2>4, VarbufX
    <3>2. PRIO_VARIABLE \in Nat
      BY DEF PRIO_VARIABLE
    <3> QED BY <3>1, <3>2, DistinctAdded
  <2> QED BY <2>1, <2>2, <2>3, <2>4
<1>8. chunkID' >= chunkID
  BY <1>1, <1>2, <1>3
<1> QED BY <1>5, <1>6, <1>7, <1>8, IdsAdded

(* The padding of map items has a new number, too.                         *)
LEMMA IdsPadMaps == TypesX /\ TypesX' /\ IdsInv /\ PadMaps => IdsInv'
<1> SUFFICES ASSUME TypesX, TypesX', IdsInv, PadMaps  PROVE IdsInv'
  OBVIOUS
<1> DEFINE pad == Pinned(MapPad, 0)
           new == Prioritized(pad, PRIO_PAD)
<1>1. dwords \in [Channel -> Seq(WordChunk)] /\ chunkID \in Nat /\ chan \in Channel
  BY DEF TypesX
<1>2. \/ chunkID' = chunkID /\ dwords' = dwords
      \/ /\ chunkID' = chunkID + 1
         /\ dwords' = dwords \/ dwords' = [dwords EXCEPT ![chan] = WithPad(dwords[chan], pad)]
  BY DEF PadMaps, MapPad
<1>3. new \in WordChunk /\ new.id = chunkID + 1 /\ new.prio = PRIO_PAD
  BY MapPadX
<1> HIDE DEF new
<1>4. ASSUME NEW c \in Channel, NEW x \in ToSet(dwords'[c])
      PROVE  x \in ToSet(dwords[c]) \/ (x = new /\ chunkID' = chunkID + 1 /\ c = chan)
  <2>1. CASE dwords' = dwords
    BY <2>1
  <2>2. CASE chunkID' = chunkID + 1 /\ dwords' = [dwords EXCEPT ![chan] = WithPad(dwords[chan], pad)]
    <3>1. CASE c # chan
      BY <1>1, <2>2, <3>1
    <3>2. CASE c = chan
      <4>1. dwords'[c] = dwords[c] \/ dwords'[c] = AddWithPrio(dwords[c], pad, PRIO_PAD)
        BY <1>1, <2>2, <3>2 DEF WithPad
      <4>2. dwords[c] \in Seq(WordChunk)
        BY <1>1
      <4> HIDE DEF pad
      <4>3. dwords'[c] = AddWithPrio(dwords[c], pad, PRIO_PAD) => x \in ToSet(dwords[c]) \/ x = new
        BY <1>3, <4>2, ElementsAdded DEF new
      <4> QED BY <2>2, <3>2, <4>1, <4>3
    <3> QED BY <3>1, <3>2
  <2> QED BY <1>2, <2>1, <2>2
<1>5. \A c \in Channel : \A x \in ToSet(dwords'[c]) :
        x \in ToSet(dwords[c]) \/ (x.id > chunkID /\ x.id <= chunkID')
  BY <1>1, <1>3, <1>4
<1>6. ASSUME NEW x \in ToSet(dwords'[CHANNEL_IN]), NEW y \in ToSet(dwords'[CHANNEL_OUT]),
             x.id > chunkID, y.id > chunkID
      PROVE  FALSE
  <2>1. /\ x \in ToSet(dwords[CHANNEL_IN]) => x.id <= chunkID
        /\ y \in ToSet(dwords[CHANNEL_OUT]) => y.id <= chunkID
    BY ChannelsX DEF IdsInv
  <2>2. x.id \in Nat /\ y.id \in Nat
    <3>1. dwords'[CHANNEL_IN] \in Seq(WordChunk) /\ dwords'[CHANNEL_OUT] \in Seq(WordChunk)
      BY ChannelsX DEF TypesX
    <3>2. x \in WordChunk /\ y \in WordChunk
      BY <3>1 DEF ToSet
    <3> QED BY <3>2, WordFacts
  <2>3. chan = CHANNEL_IN
    BY <1>1, <1>4, <1>6, <2>1, <2>2, ChannelsX
  <2>4. chan = CHANNEL_OUT
    BY <1>1, <1>4, <1>6, <2>1, <2>2, ChannelsX
  <2> QED BY <2>3, <2>4 DEF CHANNEL_IN, CHANNEL_OUT
<1>7. ASSUME NEW c \in Channel  PROVE IdsDistinct(dwords'[c])
  <2>1. \/ dwords'[c] = dwords[c]
        \/ dwords'[c] = AddWithPrio(dwords[c], pad, PRIO_PAD)
    BY <1>1, <1>2 DEF WithPad
  <2>2. IdsDistinct(dwords[c])
    BY DEF IdsInv
  <2>3. IdsDistinct(AddWithPrio(dwords[c], pad, PRIO_PAD))
    <3>1. PRIO_PAD \in Nat /\ new.id > chunkID
      BY <1>1, <1>3 DEF PRIO_PAD
    <3> HIDE DEF pad
    <3> QED BY <1>3, <3>1, DistinctAdded DEF new
  <2> QED BY <2>1, <2>2, <2>3
<1>8. chunkID' >= chunkID
  BY <1>1, <1>2
<1> QED BY <1>5, <1>6, <1>7, <1>8, IdsAdded

(* The other steps of optimize only move words or place them.              *)
Moving ==
  \/ AddDopes \/ ReserveRegister \/ MoveMap \/ MeasureAlignment \/ MoveInout \/ EndInouts
  \/ ShareRegister \/ TakeRegister \/ PassChunk \/ MergeRegisters \/ PlaceReply \/ Freeze

(* A list that stays keeps its words.                                      *)
LEMMA KeptAll == \A list : Kept(list, list)
  BY DEF Kept, Like

(* A list that loses chunks has none but those it had.                     *)
LEMMA KeptLeft ==
  ASSUME NEW list \in Seq(WordChunk), NEW at \in 1 .. Len(list)
  PROVE  Kept(RemoveElement(list, at), list)
<1> DEFINE left == RemoveElement(list, at)
           n == Len(list)
           Was(i) == IF i < at THEN i ELSE i + 1
<1>1. /\ left \in Seq(WordChunk) /\ Len(left) = n - 1
      /\ \A i \in 1 .. at - 1 : left[i] = list[i]
      /\ \A i \in at .. n - 1 : left[i] = list[i + 1]
  BY RemoveAtElements DEF RemoveElement
<1>2. n \in Nat /\ at \in 1 .. n /\ DOMAIN list = 1 .. n /\ DOMAIN left = 1 .. n - 1
  BY <1>1
<1>3. \A x \in ToSet(left) : \E y \in ToSet(list) : Like(x, y)
  <2>1. ToSet(left) \subseteq ToSet(list)
    BY ElementsLeft
  <2> QED BY <2>1 DEF Like
<1> HIDE DEF left, n
<1>4. ASSUME NEW i \in 1 .. n - 1  PROVE left[i] = list[Was(i)] /\ Was(i) \in 1 .. n
  <2>1. CASE i < at
    BY <1>1, <1>2, <2>1
  <2>2. CASE ~(i < at)
    BY <1>1, <1>2, <2>2
  <2> QED BY <2>1, <2>2
<1>5. ASSUME IdsDistinct(list), NEW i \in 1 .. n - 1, NEW j \in 1 .. n - 1, left[i].id = left[j].id
      PROVE  i = j
  <2>1. /\ Was(i) \in DOMAIN list /\ Was(j) \in DOMAIN list
        /\ list[Was(i)].id = list[Was(j)].id
    <3> HIDE DEF Was
    <3> QED BY <1>2, <1>4, <1>5
  <2>2. Was(i) = Was(j)
    <3> HIDE DEF Was
    <3> QED BY <1>5, <2>1 DEF IdsDistinct
  <2> QED BY <1>2, <2>2
<1> QED BY <1>2, <1>3, <1>5 DEF Kept, IdsDistinct, left

(* These steps move words and position them, and make none.                *)
LEMMA MovingLike == TypesX /\ Moving => WordsLike
<1> SUFFICES ASSUME TypesX, Moving, NEW c \in Channel  PROVE Kept(dwords'[c], dwords[c])
  BY DEF WordsLike
<1>1. dwords \in [Channel -> Seq(WordChunk)] /\ chan \in Channel /\ dwords[c] \in Seq(WordChunk)
  BY DEF TypesX
<1>2. CASE dwords' = dwords
  BY <1>2, KeptAll
<1>3. ASSUME NEW at \in 1 .. Len(dwords[c]), dwords'[c] = RemoveElement(dwords[c], at)
      PROVE  Kept(dwords'[c], dwords[c])
  BY <1>1, <1>3, KeptLeft
<1>4. CASE dwords'[c] = dwords[c]
  BY <1>4, KeptAll
<1>5. CASE MoveMap
  <2> DEFINE first == FirstOf(WithPrio(dwords[chan], PRIO_MAP))
  <2>1. MapWaits /\ dwords' = [dwords EXCEPT ![chan] = RemoveElement(dwords[chan], first)]
    BY <1>5 DEF MoveMap, MapFits, MapWaits
  <2>2. first \in 1 .. Len(dwords[chan])
    BY <2>1, FirstMapX
  <2> HIDE DEF first
  <2>3. c # chan => dwords'[c] = dwords[c]
    BY <1>1, <2>1
  <2>4. c = chan => dwords'[c] = RemoveElement(dwords[c], first)
    BY <1>1, <2>1
  <2> QED BY <1>3, <1>4, <2>2, <2>3, <2>4
<1>6. CASE MoveInout
  <2>1. InAt \in 1 .. Len(dwords[CHANNEL_IN]) /\ OutAt \in 1 .. Len(dwords[CHANNEL_OUT])
    BY <1>6, InoutX DEF MoveInout
  <2>2. \/ c = CHANNEL_IN /\ dwords'[c] = RemoveElement(dwords[c], InAt)
        \/ c = CHANNEL_OUT /\ dwords'[c] = RemoveElement(dwords[c], OutAt)
        \/ dwords'[c] = dwords[c]
    BY <1>6, MoveInoutX
  <2> QED BY <1>3, <1>4, <2>1, <2>2
<1>7. CASE ShareRegister \/ TakeRegister
  <2>1. Scanning /\ dwords' = [dwords EXCEPT ![chan] = RemoveElement(dwords[chan], cursor)]
    BY <1>7 DEF ShareRegister, TakeRegister, TakeScanned
  <2>2. cursor \in 1 .. Len(dwords[chan])
    BY <2>1, ScannedX
  <2>3. c # chan => dwords'[c] = dwords[c]
    BY <1>1, <2>1
  <2>4. c = chan => dwords'[c] = RemoveElement(dwords[c], cursor)
    BY <1>1, <2>1
  <2> QED BY <1>3, <1>4, <2>2, <2>3, <2>4
<1>8. CASE FreezeChunk
  <2>1. CASE c # chan
    BY <1>4, <1>8, <2>1, FrozenWords
  <2>2. CASE c = chan
    <3> DEFINE list == dwords[chan]
    <3>1. /\ DOMAIN dwords'[chan] = DOMAIN list
          /\ dwords'[chan][cursor] = Positioned(list[cursor], WordClient, WordServer)
          /\ \A i \in DOMAIN list : i # cursor => dwords'[chan][i] = list[i]
      BY <1>8, FrozenWords
    <3>2. Like(Positioned(list[cursor], WordClient, WordServer), list[cursor])
      <4>1. /\ list[cursor] \in WordChunk /\ WordClient \in Int /\ WordServer \in Int
        BY <1>8, FreezeChunkX
      <4>2. list[cursor] \in ChunkX
        BY <4>1, WordFacts
      <4> DEFINE x == list[cursor]
                 y == Positioned(x, WordClient, WordServer)
      <4>3. /\ y.id = x.id /\ y.size = x.size /\ y.align = x.align /\ y.chans = x.chans
            /\ y.prio = x.prio
        <5> HIDE DEF x
        <5> QED BY <4>1, <4>2, PositionedX DEF x
      <4> HIDE DEF x, y
      <4>4. Like(y, x)
        BY <4>3 DEF Like
      <4> QED BY <4>4 DEF x, y
    <3>3. ASSUME NEW i \in DOMAIN list  PROVE Like(dwords'[chan][i], list[i])
      <4>1. CASE i # cursor
        BY <3>1, <4>1 DEF Like
      <4>2. CASE i = cursor
        BY <3>1, <3>2, <4>2
      <4> QED BY <4>1, <4>2
    <3> HIDE DEF list
    <3>4. ASSUME NEW x \in ToSet(dwords'[chan])  PROVE \E y \in ToSet(list) : Like(x, y)
      <4>1. PICK i \in DOMAIN list : x = dwords'[chan][i]
        BY <3>1 DEF ToSet
      <4> QED BY <3>3, <4>1 DEF ToSet
    <3>5. IdsDistinct(list) => IdsDistinct(dwords'[chan])
      BY <3>1, <3>3 DEF IdsDistinct, Like
    <3> QED BY <2>2, <3>4, <3>5 DEF Kept, list
  <2> QED BY <2>1, <2>2
<1>9. CASE PlaceReply
  BY <1>2, <1>9, OffsetX DEF lists
<1>10. CASE AddDopes \/ ReserveRegister \/ MeasureAlignment \/ EndInouts \/ PassChunk
              \/ MergeRegisters
  BY <1>2, <1>10 DEF AddDopes, ReserveRegister, MeasureAlignment, EndInouts, PassChunk,
     MergeRegisters, lists
<1>11. CASE PadStrings \/ FreezeChannel \/ RestrictServer \/ Finalize
  BY <1>2, <1>11 DEF PadStrings, FreezeChannel, RestrictServer, Finalize
<1> QED BY <1>5, <1>6, <1>7, <1>8, <1>9, <1>10, <1>11 DEF Moving, Freeze

(* So they keep both halves of a value alike.                              *)
LEMMA IdsMoving == TypesX /\ TypesX' /\ IdsInv /\ Moving => IdsInv'
<1> SUFFICES ASSUME TypesX, TypesX', IdsInv, Moving  PROVE IdsInv'
  OBVIOUS
<1>1. WordsLike
  BY MovingLike
<1>2. chunkID' >= chunkID /\ chunkID \in Nat /\ chunkID' \in Nat
  <2>1. chunkID \in Nat /\ chunkID' \in Nat
    BY DEF TypesX
  <2>2. CASE AddDopes
    <3> DEFINE next == chunkID + 3 * Cardinality(Channel)
               Saved(n, name, flags, index) ==
                 Pinned(Chunk(next + n, name, WordSize, WordSize, {CHANNEL_IN}, flags), index)
               saved == IF platform # "ia32" THEN <<>>
                        ELSE <<Saved(1, "_esp", {ALLOC_SERVER}, -2),
                               Saved(2, "_ebp", {ALLOC_SERVER}, -1),
                               Saved(3, "_caller", {}, 2)>>
    <3>1. chunkID' = next + Len(saved)
      BY <2>2 DEF AddDopes
    <3>2. Len(saved) \in {0, 3}
      <4> HIDE DEF Saved
      <4> QED OBVIOUS
    <3> HIDE DEF saved
    <3>3. Cardinality(Channel) \in Nat
      BY FS_CardinalityType, ChannelsX
    <3> QED BY <2>1, <3>1, <3>2, <3>3
  <2>3. CASE PlaceReply
    BY <2>1, <2>3, OffsetX
  <2>4. CASE ~(AddDopes \/ PlaceReply)
    <3>1. chunkID' = chunkID
      BY <2>4, FreezeChunkX DEF Moving, Freeze, ReserveRegister, MoveMap, MeasureAlignment,
         MoveInout, EndInouts, ShareRegister, TakeRegister, TakeScanned, PassChunk,
         MergeRegisters, PadStrings, FreezeChunk, FreezeChannel, RestrictServer, Finalize
    <3> QED BY <2>1, <3>1
  <2> QED BY <2>1, <2>2, <2>3, <2>4
<1>3. ASSUME NEW c \in Channel, NEW x \in ToSet(dwords'[c])  PROVE x.id <= chunkID'
  <2>1. PICK y \in ToSet(dwords[c]) : Like(x, y)
    BY <1>1 DEF WordsLike, Kept
  <2>2. x.id = y.id /\ y.id <= chunkID
    BY <2>1 DEF Like, IdsInv
  <2>3. y.id \in Nat
    <3>1. dwords[c] \in Seq(WordChunk)
      BY DEF TypesX
    <3>2. y \in WordChunk
      BY <3>1 DEF ToSet
    <3> QED BY <3>2, WordFacts
  <2> QED BY <1>2, <2>2, <2>3
<1>4. ASSUME NEW x \in ToSet(dwords'[CHANNEL_IN]), NEW y \in ToSet(dwords'[CHANNEL_OUT]),
             x.id = y.id
      PROVE  Twins(x, y)
  <2>1. PICK a \in ToSet(dwords[CHANNEL_IN]) : Like(x, a)
    BY <1>1, ChannelsX DEF WordsLike, Kept
  <2>2. PICK b \in ToSet(dwords[CHANNEL_OUT]) : Like(y, b)
    BY <1>1, ChannelsX DEF WordsLike, Kept
  <2>3. a.id = b.id
    BY <1>4, <2>1, <2>2 DEF Like
  <2>4. Twins(a, b)
    BY <2>3 DEF IdsInv
  <2> QED BY <2>1, <2>2, <2>4 DEF Twins, HasOut, Like
<1>5. ASSUME NEW c \in Channel  PROVE IdsDistinct(dwords'[c])
  BY <1>1 DEF WordsLike, Kept, IdsInv
<1>6. IdsInv' <=>
        /\ \A c \in Channel : IdsDistinct(dwords'[c]) /\ \A x \in ToSet(dwords'[c]) : x.id <= chunkID'
        /\ \A x \in ToSet(dwords'[CHANNEL_IN]), y \in ToSet(dwords'[CHANNEL_OUT]) :
             x.id = y.id => Twins(x, y)
  BY DEF IdsInv, IdsDistinct, Twins, HasOut
<1> QED BY <1>3, <1>4, <1>5, <1>6

(* Every step keeps both halves of a value alike.                          *)
LEMMA IdsStep == TypesX /\ TypesX' /\ IdsInv /\ [Next]_vars => IdsInv'
<1> SUFFICES ASSUME TypesX, TypesX', IdsInv, [Next]_vars  PROVE IdsInv'
  OBVIOUS
<1>1. CASE UNCHANGED vars
  BY <1>1 DEF IdsInv, IdsDistinct, Twins, HasOut, vars, lists
<1>2. CASE Finished
  BY <1>1, <1>2 DEF Finished
<1> QED BY <1>1, <1>2, IdsMarshal, IdsAddVarbufs, IdsPadMaps, IdsMoving
        DEF Next, FillRegisters, Moving

(* Every step keeps the reply aligned as strictly as its words.            *)
LEMMA AlignStep == TypesX /\ AlignInv /\ [Next]_vars => AlignInv'
<1> SUFFICES ASSUME TypesX, AlignInv, [Next]_vars  PROVE AlignInv'
  OBVIOUS
<1>1. CASE UNCHANGED vars
  BY <1>1 DEF AlignInv, vars, lists, offsets
<1>2. CASE Finished
  BY <1>1, <1>2 DEF Finished
<1>3. CASE phase' \notin Measured
  BY <1>3 DEF AlignInv, Measured, Moved
<1>4. CASE Marshal \/ AddDopes \/ AddVarbufs \/ ReserveRegister \/ MoveMap
  <2>1. phase' \in {"marshal", "varbufs", "reserve", "maps"}
    BY <1>4 DEF Marshal, SetOption, MarshalExceptionCode, GetFixedCopyChunk, GetStringChunk,
       GetVarbufChunk, GetMapChunk, Marshalling, AddDopes, AddVarbufs, ReserveRegister, MoveMap
  <2> QED BY <1>3, <2>1 DEF Measured
<1>5. CASE PadMaps
  <2>1. phase' = "pad_assertion" \/ Advance("reserve", "align")
    BY <1>5 DEF PadMaps
  <2>2. phase' \in {"pad_assertion", "reserve", "align"}
    BY <2>1, AdvanceX DEF TypesX
  <2> QED BY <1>3, <2>2 DEF Measured
<1>6. CASE MeasureAlignment
  <2>1. phase' = "inout" /\ outAlign' = Strictest(dwords[CHANNEL_OUT]) /\ dwords' = dwords
    BY <1>6 DEF MeasureAlignment, lists
  <2>2. dwords[CHANNEL_OUT] \in Seq(WordChunk)
    BY ChannelsX DEF TypesX
  <2>3. \A x \in ToSet(dwords'[CHANNEL_OUT]) : x.align <= outAlign'
    BY <2>1, <2>2, StrictestX
  <2> QED BY <2>1, <2>3 DEF AlignInv, Moved
<1>7. ASSUME Moving, phase \in Measured, outAlign' = outAlign
      PROVE  phase' \in Measured => \A x \in ToSet(dwords'[CHANNEL_OUT]) : x.align <= outAlign'
  <2> SUFFICES ASSUME NEW x \in ToSet(dwords'[CHANNEL_OUT])  PROVE x.align <= outAlign'
    OBVIOUS
  <2>1. WordsLike
    BY <1>7, MovingLike
  <2>2. PICK y \in ToSet(dwords[CHANNEL_OUT]) : Like(x, y)
    BY <2>1, ChannelsX DEF WordsLike, Kept
  <2>3. y.align <= outAlign
    BY <1>7 DEF AlignInv
  <2> QED BY <1>7, <2>2, <2>3 DEF Like
<1>8. CASE PlaceReply
  <2>1. /\ svrOutputOffset' % outAlign = 0 /\ outAlign' = outAlign /\ phase = "offset"
    BY <1>8, OffsetX
  <2>2. Moving /\ phase \in Measured
    BY <1>8, <2>1 DEF Moving, Measured
  <2> QED BY <1>7, <2>1, <2>2 DEF AlignInv
<1>9. CASE \/ MoveInout \/ EndInouts \/ ShareRegister \/ TakeRegister \/ PassChunk
           \/ MergeRegisters \/ Freeze
  <2>1. Moving
    BY <1>9 DEF Moving
  <2>2. UNCHANGED <<outAlign, svrOutputOffset>>
    BY <1>9, FreezeChunkX DEF MoveInout, EndInouts, ShareRegister, TakeRegister, TakeScanned,
       PassChunk, MergeRegisters, Freeze, PadStrings, FreezeChannel, RestrictServer, Finalize,
       offsets
  <2>3. phase \in Measured /\ (phase' \in Moved => phase \in Moved)
    <3>1. CASE Freeze
      <4>1. phase \in {"pad", "freeze", "restrict", "finalize"}
        BY <3>1, FreezeChunkX DEF Freeze, PadStrings, FreezeChunk, FreezeChannel, RestrictServer, Finalize
      <4> QED BY <4>1 DEF Measured, Moved
    <3>2. CASE MergeRegisters
      <4>1. phase = "scan" /\ Advance("scan", "offset")
        BY <3>2 DEF MergeRegisters
      <4>2. phase' \in {"scan", "offset"}
        BY <4>1, AdvanceX DEF TypesX
      <4> QED BY <4>1, <4>2 DEF Measured, Moved
    <3>3. CASE MoveInout \/ EndInouts \/ ShareRegister \/ TakeRegister \/ PassChunk
      <4>1. phase \in {"inout", "scan"} /\ phase' \in {"inout", "scan"}
        BY <3>3 DEF MoveInout, EndInouts, ShareRegister, TakeRegister, TakeScanned, PassChunk,
           Scanning
      <4> QED BY <4>1 DEF Measured, Moved
    <3> QED BY <1>9, <3>1, <3>2, <3>3
  <2> QED BY <1>7, <2>1, <2>2, <2>3 DEF AlignInv
<1> QED BY <1>1, <1>2, <1>4, <1>5, <1>6, <1>8, <1>9 DEF Next, FillRegisters

-----------------------------------------------------------------------------
(* Registers                                                               *)

(* The names of the parts of a register list differ.                       *)
LEMMA PlainNotMapped ==
  ASSUME NEW list \in Seq(ChunkX), NEW idents, Plain(list, idents)
  PROVE  ~Mapped(list)
<1> SUFFICES ASSUME Mapped(list)  PROVE FALSE
  OBVIOUS
<1>1. Len(list) = 2 /\ list[1].prio = PRIO_MAP /\ idents \in {0, 1}
  BY DEF Mapped, MapItem, Plain
<1>2. 1 \in 1 .. Len(list) - idents
  BY <1>1
<1>3. list[1].prio \in {PRIO_INOUT_FIXED, PRIO_OUT_FIXED}
  BY <1>2 DEF Plain, Value
<1> QED BY <1>1, <1>3 DEF PRIO_MAP, PRIO_INOUT_FIXED, PRIO_OUT_FIXED

(* A loose chunk gets a register in front of the identifier's.             *)
LEMMA PlainAdd ==
  ASSUME NEW list \in Seq(ChunkX), NEW idents, Plain(list, idents), NEW x \in ChunkX, Loose(x),
         NEW prio \in {PRIO_INOUT_FIXED, PRIO_OUT_FIXED}
  PROVE  /\ AddWithPrio(list, x, prio) \in Seq(ChunkX)
         /\ Plain(AddWithPrio(list, x, prio), idents)
         /\ Len(AddWithPrio(list, x, prio)) = Len(list) + 1
<1> DEFINE n == Len(list)
           at == PrioPosition(list, prio)
           y == Prioritized(x, prio)
           added == AddWithPrio(list, x, prio)
<1>1. prio \in Nat /\ prio < PRIO_ID
  BY DEF PRIO_INOUT_FIXED, PRIO_OUT_FIXED, PRIO_ID
<1>2. y \in ChunkX /\ Value(y)
  BY <1>1, PrioritizedX DEF Value, Loose
<1>3. n \in Nat /\ idents \in {0, 1} /\ idents <= n
  BY DEF Plain
<1>4. /\ at \in 1 .. n + 1 /\ added \in Seq(ChunkX) /\ Len(added) = n + 1
      /\ \A i \in 1 .. at - 1 : added[i] = list[i]
      /\ added[at] = y
      /\ \A i \in at .. n : added[i + 1] = list[i]
  BY <1>2, AddedElements
<1>5. \A i \in 1 .. at - 1 : list[i].prio <= prio
  BY PrioPositionMeaning
<1> HIDE DEF y, added, at
<1>6. at <= (n + 1) - idents
  <2>1. CASE idents = 0
    BY <1>3, <1>4, <2>1
  <2>2. CASE idents = 1
    <3>1. list[n].prio = PRIO_ID /\ n \in 1 .. n
      BY <1>3, <2>2 DEF Plain, Ident
    <3>2. ~(n \in 1 .. at - 1)
      <4> SUFFICES ASSUME n \in 1 .. at - 1  PROVE FALSE
        OBVIOUS
      <4>1. list[n].prio <= prio
        BY <1>5
      <4> QED BY <1>1, <3>1, <4>1 DEF PRIO_ID
    <3> QED BY <1>3, <1>4, <2>2, <3>1, <3>2
  <2> QED BY <1>3, <2>1, <2>2
<1>7. \A i \in 1 .. n - idents : Value(list[i])
  BY DEF Plain
<1>8. ASSUME NEW i \in 1 .. (n + 1) - idents  PROVE Value(added[i])
  <2>1. CASE i < at
    <3>1. i \in 1 .. at - 1 /\ i \in 1 .. n - idents
      BY <1>3, <1>4, <1>6, <2>1
    <3> QED BY <1>4, <1>7, <3>1
  <2>2. CASE i = at
    BY <1>2, <1>4, <2>2
  <2>3. CASE i > at
    <3>1. i - 1 \in at .. n /\ (i - 1) + 1 = i /\ i - 1 \in 1 .. n - idents
      BY <1>3, <1>4, <2>3
    <3>2. added[(i - 1) + 1] = list[i - 1]
      BY <1>4, <3>1
    <3> QED BY <1>7, <3>1, <3>2
  <2> QED BY <1>3, <1>4, <2>1, <2>2, <2>3
<1>9. idents = 1 => Ident(added[n + 1])
  <2> SUFFICES ASSUME idents = 1  PROVE Ident(added[n + 1])
    OBVIOUS
  <2>1. n \in at .. n
    BY <1>3, <1>4, <1>6
  <2>2. added[n + 1] = list[n]
    BY <1>4, <2>1
  <2> QED BY <2>2 DEF Plain
<1>10. Plain(added, idents)
  <2>1. Len(added) >= idents
    BY <1>3, <1>4
  <2> QED BY <1>3, <1>4, <1>8, <1>9, <2>1 DEF Plain
<1> QED BY <1>4, <1>10 DEF added

(* What registers are depends on a few fields of their chunks only.        *)
SameRegister(x, y) ==
  /\ x.prio = y.prio /\ x.size = y.size /\ x.index = y.index
  /\ PINNED \in x.flags <=> PINNED \in y.flags

(* Lists that are alike in this, chunk by chunk.                           *)
SameRegisters(list, other) ==
  /\ Len(list) = Len(other)
  /\ \A i \in 1 .. Len(other) : SameRegister(list[i], other[i])

(* They hold values, map items and identifiers at the same places.         *)
LEMMA SameRegistersX ==
  ASSUME NEW list \in Seq(ChunkX), NEW other \in Seq(ChunkX), SameRegisters(list, other)
  PROVE  /\ \A idents : Plain(other, idents) => Plain(list, idents)
         /\ Mapped(other) => Mapped(list)
<1>1. Len(list) = Len(other) /\ Len(other) \in Nat
  BY DEF SameRegisters
<1>2. \A i \in 1 .. Len(other) : SameRegister(list[i], other[i])
  BY DEF SameRegisters
<1>3. ASSUME NEW idents, Plain(other, idents)  PROVE Plain(list, idents)
  <2>1. idents \in {0, 1} /\ Len(list) >= idents
    BY <1>1, <1>3 DEF Plain
  <2>2. ASSUME NEW i \in 1 .. Len(list) - idents  PROVE Value(list[i])
    <3>1. i \in 1 .. Len(other) - idents /\ i \in 1 .. Len(other)
      BY <1>1, <2>1
    <3>2. Value(other[i])
      BY <1>3, <3>1 DEF Plain
    <3> QED BY <1>2, <3>1, <3>2 DEF SameRegister, Value, Loose
  <2>3. idents = 1 => Ident(list[Len(list)])
    <3> SUFFICES ASSUME idents = 1  PROVE Ident(list[Len(list)])
      OBVIOUS
    <3>1. Len(other) \in 1 .. Len(other) /\ Ident(other[Len(other)])
      BY <1>1, <1>3, <2>1 DEF Plain
    <3> QED BY <1>1, <1>2, <3>1 DEF SameRegister, Ident
  <2> QED BY <2>1, <2>2, <2>3 DEF Plain
<1>4. ASSUME Mapped(other)  PROVE Mapped(list)
  <2>1. 1 \in 1 .. Len(other) /\ 2 \in 1 .. Len(other) /\ Len(other) = 2
    BY <1>4 DEF Mapped
  <2> QED BY <1>1, <1>2, <1>4, <2>1 DEF Mapped, SameRegister, MapItem, Ident
<1> QED BY <1>3, <1>4

(* Whether a channel has an identifier does not change.                    *)
LEMMA ReservedX ==
  /\ \A c : Reserved(c) \in {0, 1}
  /\ Reserved(CHANNEL_IN) = 1
  /\ sig' = sig => \A c : Reserved(c)' = Reserved(c)
  BY DEF Reserved

(* An identifier added to no register.                                     *)
LEMMA FirstIdent ==
  ASSUME NEW list \in Seq(ChunkX), Len(list) = 0, NEW x, Prioritized(x, PRIO_ID) \in ChunkX,
         Ident(Prioritized(x, PRIO_ID))
  PROVE  /\ Plain(AddWithPrio(list, x, PRIO_ID), 1) /\ Len(AddWithPrio(list, x, PRIO_ID)) = 1
<1>1. ASSUME NEW l \in Seq(ChunkX)
      PROVE  /\ PrioPosition(l, PRIO_ID) \in 1 .. Len(l) + 1
             /\ Len(AddWithPrio(l, x, PRIO_ID)) = Len(l) + 1
             /\ AddWithPrio(l, x, PRIO_ID)[PrioPosition(l, PRIO_ID)] = Prioritized(x, PRIO_ID)
  BY AddedElements
<1> DEFINE at == PrioPosition(list, PRIO_ID)
           added == AddWithPrio(list, x, PRIO_ID)
<1>2. at \in 1 .. Len(list) + 1 /\ Len(added) = Len(list) + 1 /\ added[at] = Prioritized(x, PRIO_ID)
  BY <1>1
<1> HIDE DEF at, added
<1>3. at = 1 /\ Len(added) = 1
  BY <1>2
<1>4. Ident(added[1])
  BY <1>2, <1>3
<1>5. Plain(added, 1)
  BY <1>3, <1>4 DEF Plain
<1> QED BY <1>3, <1>5 DEF added

(* The calls put the exception code into registers and nothing else.       *)
LEMMA RegistersMarshal == TypesX /\ ChannelsInv /\ RegistersInv /\ Marshal => RegistersInv'
<1> SUFFICES ASSUME TypesX, ChannelsInv, RegistersInv, Marshal  PROVE RegistersInv'
  OBVIOUS
<1>1. sig' = sig /\ phase \in {"options", "marshal"} /\ phase' = "marshal"
  BY DEF Marshal, SetOption, MarshalExceptionCode, GetFixedCopyChunk, GetStringChunk,
     GetVarbufChunk, GetMapChunk, Marshalling
<1>2. registers \in [Channel -> Seq(ChunkX)]
  BY DEF TypesX
<1>3. ASSUME NEW c \in Channel  PROVE Bare(c)
  BY <1>1 DEF RegistersInv, Calls
<1>4. channelInitialized = IF phase = "options" THEN {CHANNEL_IN} ELSE Channel
  BY DEF ChannelsInv
<1>5. ASSUME NEW c \in Channel  PROVE Bare(c)'
  <2>1. registers[c] \in Seq(ChunkX)
    BY <1>2
  <2>2. Identified(c)' = IF c = CHANNEL_IN THEN 0 ELSE Reserved(c)
    BY <1>1, ReservedX DEF Identified
  <2>3. CASE phase = "marshal" /\ registers' = registers
    <3>1. Identified(c)' = Identified(c)
      BY <2>2, <2>3 DEF Identified
    <3> QED BY <1>3, <2>3, <3>1 DEF Bare
  <2>4. CASE SetOption
    <3>1. registers' = registers /\ phase = "options" /\ sig.oneway
      BY <2>4 DEF SetOption, lists
    <3>2. Identified(c) = 0 /\ Identified(c)' = 0
      BY <2>2, <3>1 DEF Identified, Reserved
    <3> QED BY <1>3, <3>1, <3>2 DEF Bare
  <2>5. CASE MarshalExceptionCode
    <3> DEFINE fresh == AllOut \ channelInitialized
    <3>1. /\ phase = "options" /\ ~sig.oneway
          /\ registers' = AddTo(registers, fresh, ExceptionCode, PRIO_ID)
      BY <2>5 DEF MarshalExceptionCode, FixedCopyChunk, ExceptionCode
    <3>2. fresh = AllOut /\ fresh \in SUBSET Channel
      BY <1>4, <3>1, ChannelsX
    <3>3. Identified(c) = 0
      BY <3>1 DEF Identified
    <3>4. CASE c = CHANNEL_IN
      <4>1. registers'[c] = registers[c]
        BY <3>1, <3>2, <3>4, ChannelsX DEF AddTo
      <4> QED BY <1>3, <2>2, <3>3, <3>4, <4>1 DEF Bare
    <3>5. CASE c # CHANNEL_IN
      <4>1. registers'[c] = AddWithPrio(registers[c], ExceptionCode, PRIO_ID)
        BY <3>1, <3>2, <3>5 DEF AddTo, AllOut
      <4>2. Len(registers[c]) = 0
        BY <1>3, <3>3 DEF Bare
      <4>3. Identified(c)' = 1
        BY <2>2, <3>1, <3>5 DEF Reserved
      <4> QED BY <2>1, <4>1, <4>2, <4>3, IdentX, FirstIdent DEF Bare
    <3> QED BY <3>4, <3>5
  <2>6. CASE GetFixedCopyChunk
    <3> DEFINE chans == Parameter_.chans
               eid == Pinned(Chunk(0, "eid", Parameter_.size, Parameter_.align, {}, STANDARD),
                             NumRegs - 1)
    <3>1. /\ phase = "marshal" /\ Marshalling("fixed")
          /\ registers' = AddTo(registers, chans \ channelInitialized, eid, PRIO_ID)
      BY <2>6 DEF GetFixedCopyChunk, FixedCopyChunk, Marshalling
    <3>2. chans \subseteq Channel
      BY <3>1, ParameterX
    <3>3. chans \ channelInitialized = {}
      BY <1>4, <3>1, <3>2
    <3> HIDE DEF eid
    <3>4. registers' = [d \in Channel |-> registers[d]]
      BY <3>1, <3>3 DEF AddTo
    <3>5. registers' = registers
      BY <1>2, <3>4
    <3> QED BY <2>3, <3>1, <3>5
  <2>7. CASE GetStringChunk \/ GetVarbufChunk \/ GetMapChunk
    <3>1. phase = "marshal" /\ registers' = registers
      BY <2>7 DEF GetStringChunk, GetVarbufChunk, GetMapChunk, Marshalling
    <3> QED BY <2>3, <3>1
  <2> QED BY <2>4, <2>5, <2>6, <2>7 DEF Marshal
<1> QED BY <1>1, <1>5 DEF RegistersInv, Moved

(* What the state says of a channel stays true while its list does.        *)
LEMMA CountedKept ==
  ASSUME sig' = sig, NEW c \in Channel, registers'[c] = registers[c]
  PROVE  /\ Counted(c) /\ regsUsed'[c] = regsUsed[c] => Counted(c)'
         /\ Filled(c) => Filled(c)'
         /\ Bare(c) /\ Identified(c)' = Identified(c) => Bare(c)'
<1>1. Reserved(c)' = Reserved(c)
  BY ReservedX
<1> QED BY <1>1 DEF Counted, Filled, Bare

(* Channels that wait for their identifier, or have it already.            *)
LEMMA IdentifiedX ==
  /\ \A c \in Channel : phase \in {"marshal", "varbufs", "reserve"} =>
       Identified(c) = IF c = CHANNEL_IN THEN 0 ELSE Reserved(c)
  /\ \A c \in Channel : phase \in {"maps", "align"} => Identified(c) = Reserved(c)
  BY DEF Identified

(* Dopes and variable buffers take no registers.                           *)
LEMMA RegistersBuffers ==
  TypesX /\ LoopsX /\ RegistersInv /\ (AddDopes \/ AddVarbufs) => RegistersInv'
<1> SUFFICES ASSUME TypesX, LoopsX, RegistersInv, AddDopes \/ AddVarbufs  PROVE RegistersInv'
  OBVIOUS
<1>1. /\ sig' = sig /\ registers' = registers /\ chan' = chan
      /\ \/ phase = "marshal" /\ phase' = "varbufs"
         \/ phase = "varbufs" /\ phase' = "reserve"
  BY DEF AddDopes, AddVarbufs, request
<1>2. chan = CHANNEL_IN /\ chan' = CHANNEL_IN
  BY <1>1 DEF LoopsX, Looping
<1>3. ASSUME NEW c \in Channel  PROVE Bare(c)' /\ ~(c < chan)
  <2>1. Bare(c)
    BY <1>1 DEF RegistersInv, Calls
  <2>2. Identified(c)' = Identified(c)
    BY <1>1, ReservedX DEF Identified
  <2>3. c \in Nat
    BY ChannelsX
  <2> QED BY <1>1, <1>2, <2>1, <2>2, <2>3, CountedKept DEF CHANNEL_IN
<1> QED BY <1>1, <1>2, <1>3 DEF RegistersInv, Calls, Moved

(* The function number gets the last register of the request.              *)
LEMMA RegistersReserve == TypesX /\ RegistersInv /\ ReserveRegister => RegistersInv'
<1> SUFFICES ASSUME TypesX, RegistersInv, ReserveRegister  PROVE RegistersInv'
  OBVIOUS
<1>1. /\ phase = "reserve" /\ phase' = "maps" /\ pinIndex' = 0 /\ sig' = sig /\ chan' = chan
      /\ registers' = IF chan = CHANNEL_IN
                      THEN AddTo(registers, {CHANNEL_IN}, FunctionNumber, PRIO_ID) ELSE registers
      /\ regsUsed' = [regsUsed EXCEPT ![chan] = Reserved(chan)]
  BY DEF ReserveRegister, FunctionNumber, request
<1>2. /\ registers \in [Channel -> Seq(ChunkX)] /\ chan \in Channel
      /\ regsUsed \in [Channel -> 0 .. NumRegs]
  BY DEF TypesX
<1>3. \A c \in Channel : IF c < chan THEN Counted(c) ELSE Bare(c)
  BY <1>1 DEF RegistersInv
<1>4. \A c \in Channel : c # chan => regsUsed'[c] = regsUsed[c]
  BY <1>1, <1>2
<1>5. regsUsed'[chan] = Reserved(chan)
  BY <1>1, <1>2
<1>6. ASSUME NEW c \in Channel, c # CHANNEL_IN  PROVE registers'[c] = registers[c]
  BY <1>1, <1>6, ChannelsX DEF AddTo
<1>7. ASSUME NEW c \in Channel  PROVE c \in Nat /\ chan \in Nat
  BY <1>2, ChannelsX
<1>8. ASSUME NEW c \in Channel, c < chan  PROVE Counted(c)'
  <2>1. registers'[c] = registers[c]
    <3>1. CASE chan = CHANNEL_IN
      BY <1>7, <1>8, <3>1 DEF CHANNEL_IN
    <3>2. CASE chan # CHANNEL_IN
      BY <1>1, <3>2
    <3> QED BY <3>1, <3>2
  <2>2. regsUsed'[c] = regsUsed[c] /\ Counted(c)
    BY <1>3, <1>4, <1>7, <1>8
  <2> QED BY <1>1, <2>1, <2>2, CountedKept
<1>9. ASSUME NEW c \in Channel, c > chan  PROVE Bare(c)'
  <2>1. c # CHANNEL_IN /\ ~(c < chan)
    BY <1>7, <1>9 DEF CHANNEL_IN
  <2>2. Identified(c)' = Identified(c)
    BY <1>1, <2>1, ReservedX DEF Identified
  <2> QED BY <1>1, <1>3, <1>6, <2>1, <2>2, CountedKept
<1>10. /\ Plain(registers'[chan], Reserved(chan)) /\ Len(registers'[chan]) = Reserved(chan)
  <2>0. Bare(chan)
    BY <1>2, <1>3, <1>7
  <2>1. CASE chan = CHANNEL_IN
    <3>1. registers'[chan] = AddWithPrio(registers[chan], FunctionNumber, PRIO_ID)
      BY <1>1, <1>2, <2>1 DEF AddTo
    <3>2. Identified(chan) = 0 /\ Reserved(chan) = 1
      BY <1>1, <2>1 DEF Identified, Reserved
    <3>3. Len(registers[chan]) = 0 /\ registers[chan] \in Seq(ChunkX)
      BY <1>2, <2>0, <3>2 DEF Bare
    <3> QED BY <3>1, <3>2, <3>3, IdentX, FirstIdent
  <2>2. CASE chan # CHANNEL_IN
    <3>1. registers'[chan] = registers[chan] /\ Identified(chan) = Reserved(chan)
      BY <1>1, <2>2 DEF Identified
    <3> QED BY <2>0, <3>1 DEF Bare
  <2> QED BY <2>1, <2>2
<1>11. Reserved(chan)' = Reserved(chan) /\ Identified(chan)' = Reserved(chan)
  BY <1>1, ReservedX DEF Identified
<1>12. /\ Plain(registers'[chan'], Reserved(chan)') /\ Len(registers'[chan']) = Reserved(chan)'
       /\ regsUsed'[chan'] = Reserved(chan)' /\ Identified(chan)' = Reserved(chan)'
  BY <1>1, <1>5, <1>10, <1>11
<1>13. Counted(chan)' /\ Bare(chan)'
  BY <1>12 DEF Counted, Bare
<1>14. \A c \in Channel : IF c <= chan' THEN Counted(c)' ELSE Bare(c)'
  <2> SUFFICES ASSUME NEW c \in Channel  PROVE IF c <= chan THEN Counted(c)' ELSE Bare(c)'
    BY <1>1
  <2>1. CASE c = chan
    <3>1. c <= chan
      BY <1>7, <2>1
    <3>2. Counted(c)'
      <4>1. Reserved(c)' = Reserved(chan)'
        BY <1>1, <2>1
      <4> QED BY <1>1, <1>12, <2>1, <4>1 DEF Counted
    <3> QED BY <3>1, <3>2
  <2>2. CASE c # chan
    BY <1>7, <1>8, <1>9, <2>2
  <2> QED BY <2>1, <2>2
<1> QED BY <1>1, <1>13, <1>14 DEF RegistersInv, Calls, Moved

(* While map items are moved.                                              *)
LEMMA MapsX ==
  ASSUME TypesX, RegistersInv, phase = "maps"
  PROVE  \/ /\ pinIndex = 0 /\ Bare(chan) /\ Plain(registers[chan], Reserved(chan))
            /\ Len(registers[chan]) = Reserved(chan) /\ regsUsed[chan] = Reserved(chan)
         \/ /\ pinIndex = 2 /\ Mapped(registers[chan]) /\ regsUsed[chan] = NumRegs
<1>1. registers[chan] \in Seq(ChunkX) /\ chan \in Channel /\ chan <= chan
  BY ChannelsX DEF TypesX
<1>2. Counted(chan)
  BY <1>1 DEF RegistersInv
<1>3. \/ pinIndex = 0 /\ Bare(chan)
      \/ pinIndex = 2 /\ Mapped(registers[chan])
  BY DEF RegistersInv
<1>4. CASE pinIndex = 0 /\ Bare(chan)
  <2>1. Plain(registers[chan], Reserved(chan)) /\ Len(registers[chan]) = Reserved(chan)
    BY <1>4, IdentifiedX, <1>1 DEF Bare
  <2>2. ~Mapped(registers[chan])
    BY <1>1, <2>1, PlainNotMapped
  <2> QED BY <1>2, <1>4, <2>1, <2>2 DEF Counted
<1>5. CASE pinIndex = 2 /\ Mapped(registers[chan])
  <2>1. ~Plain(registers[chan], Reserved(chan))
    BY <1>1, <1>5, PlainNotMapped
  <2> QED BY <1>2, <1>5, <2>1 DEF Counted
<1> QED BY <1>3, <1>4, <1>5

(* A map item takes both registers that are left.                          *)
LEMMA RegistersMoveMap ==
  TypesX /\ ChannelsInv /\ RegistersInv /\ MoveMap => RegistersInv'
<1> SUFFICES ASSUME TypesX, ChannelsInv, RegistersInv, MoveMap  PROVE RegistersInv'
  OBVIOUS
<1> DEFINE first == FirstOf(WithPrio(dwords[chan], PRIO_MAP))
           x == dwords[chan][first]
           item == Pinned(x, pinIndex)
           y == Prioritized(item, PRIO_MAP)
           added == AddWithPrio(registers[chan], item, PRIO_MAP)
<1>1. /\ phase = "maps" /\ phase' = "maps" /\ pinIndex' = pinIndex + 2 /\ MapWaits
      /\ NumRegs - regsUsed[chan] >= 2 /\ sig' = sig /\ chan' = chan
      /\ registers' = AddTo(registers, {chan}, item, PRIO_MAP)
      /\ regsUsed' = [regsUsed EXCEPT ![chan] = regsUsed[chan] + 2]
  BY DEF MoveMap, MapFits, MapWaits, request
<1>2. /\ registers \in [Channel -> Seq(ChunkX)] /\ dwords \in [Channel -> Seq(WordChunk)]
      /\ chan \in Channel /\ regsUsed \in [Channel -> 0 .. NumRegs] /\ pinIndex \in Nat
  BY DEF TypesX
<1>3. first \in 1 .. Len(dwords[chan]) /\ x \in WordChunk /\ x.prio = PRIO_MAP
  BY <1>1, <1>2, FirstMapX
<1>4. Reserved(chan) = 1
  <2> SUFFICES ASSUME Reserved(chan) # 1  PROVE FALSE
    OBVIOUS
  <2>1. chan \in AllOut /\ sig.oneway
    BY <1>2 DEF Reserved, AllOut
  <2>2. dwords[chan] = <<>>
    BY <2>1 DEF ChannelsInv
  <2> QED BY <1>1, <2>2 DEF MapWaits, WithPrio
<1>5. /\ pinIndex = 0 /\ Plain(registers[chan], 1) /\ Len(registers[chan]) = 1
      /\ regsUsed[chan] = 1 /\ NumRegs = 3
  <2>1. ~(regsUsed[chan] = NumRegs)
    BY <1>1, ConnectionXAssumption
  <2>2. /\ pinIndex = 0 /\ Plain(registers[chan], 1) /\ Len(registers[chan]) = 1
        /\ regsUsed[chan] = 1
    BY <1>1, <1>4, <2>1, MapsX
  <2> QED BY <1>1, <2>2, ConnectionXAssumption
<1>6. Ident(registers[chan][1])
  BY <1>5 DEF Plain
<1>7. y \in ChunkX /\ MapItem(y)
  <2>1. y \in ChunkX /\ y.prio = PRIO_MAP /\ PINNED \in y.flags /\ y.index = pinIndex /\ y.size = 8
    BY <1>2, <1>3, MapItemX
  <2> HIDE DEF y
  <2> QED BY <1>5, <2>1 DEF MapItem
<1>8. \A c \in Channel : c # chan => registers'[c] = registers[c] /\ regsUsed'[c] = regsUsed[c]
  <2> HIDE DEF item
  <2> QED BY <1>1, <1>2 DEF AddTo
<1>9. registers'[chan] = added
  <2> HIDE DEF item
  <2> QED BY <1>1, <1>2 DEF AddTo
<1> HIDE DEF x
<1>10. Mapped(added)
  <2> DEFINE list == registers[chan]
             at == PrioPosition(list, PRIO_MAP)
  <2>1. list \in Seq(ChunkX)
    BY <1>2
  <2>2. Len(list) = 1 /\ list[1].prio = PRIO_ID
    BY <1>5, <1>6 DEF Ident
  <2> HIDE DEF item, list
  <2>3. ASSUME NEW l \in Seq(ChunkX)
        PROVE  /\ PrioPosition(l, PRIO_MAP) \in 1 .. Len(l) + 1
               /\ Len(AddWithPrio(l, item, PRIO_MAP)) = Len(l) + 1
               /\ AddWithPrio(l, item, PRIO_MAP)[PrioPosition(l, PRIO_MAP)] = y
               /\ \A i \in PrioPosition(l, PRIO_MAP) .. Len(l) :
                    AddWithPrio(l, item, PRIO_MAP)[i + 1] = l[i]
    BY <1>7, AddedElements
  <2>4. /\ at \in 1 .. Len(list) + 1 /\ Len(added) = Len(list) + 1 /\ added[at] = y
        /\ \A i \in at .. Len(list) : added[i + 1] = list[i]
    BY <2>1, <2>3 DEF list
  <2>5. \A i \in 1 .. at - 1 : list[i].prio <= PRIO_MAP
    BY <2>1, PrioPositionMeaning
  <2> HIDE DEF at, added, y
  <2>6. at = 1
    <3> SUFFICES ASSUME at # 1  PROVE FALSE
      OBVIOUS
    <3>1. 1 \in 1 .. at - 1
      BY <2>2, <2>4
    <3>2. list[1].prio <= PRIO_MAP
      BY <2>5, <3>1
    <3> QED BY <2>2, <3>2 DEF PRIO_MAP, PRIO_ID
  <2>7. Len(added) = 2 /\ added[1] = y /\ added[1 + 1] = list[1]
    BY <2>2, <2>4, <2>6
  <2>8. added[2] = list[1]
    BY <2>7
  <2> QED BY <1>5, <1>6, <1>7, <2>7, <2>8 DEF Mapped, list
<1> HIDE DEF added, y, item
<1>11. Mapped(registers'[chan']) /\ Reserved(chan)' = 1 /\ regsUsed'[chan'] = NumRegs
       /\ pinIndex' = 2
  <2>1. regsUsed'[chan] = 1 + 2
    BY <1>1, <1>2, <1>5
  <2> QED BY <1>1, <1>4, <1>5, <1>9, <1>10, <2>1, ReservedX
<1>12. \A c \in Channel : IF c <= chan' THEN Counted(c)' ELSE Bare(c)'
  <2> SUFFICES ASSUME NEW c \in Channel  PROVE IF c <= chan THEN Counted(c)' ELSE Bare(c)'
    BY <1>1
  <2>1. IF c <= chan THEN Counted(c) ELSE Bare(c)
    BY <1>1 DEF RegistersInv
  <2>2. CASE c # chan
    <3>1. Identified(c)' = Identified(c)
      BY <1>1, ReservedX DEF Identified
    <3> QED BY <1>1, <1>8, <2>1, <2>2, <3>1, CountedKept
  <2>3. CASE c = chan
    <3>1. Reserved(c)' = 1
      BY <1>1, <1>4, <2>3, ReservedX
    <3>2. Counted(c)'
      BY <1>1, <1>11, <2>3, <3>1 DEF Counted
    <3>3. c <= chan
      BY <1>2, <2>3, ChannelsX
    <3> QED BY <3>2, <3>3
  <2> QED BY <2>2, <2>3
<1> QED BY <1>1, <1>11, <1>12 DEF RegistersInv, Calls, Moved

(* Behind map items there never is a single register left.                 *)
LEMMA PadMapsX ==
  ASSUME TypesX, RegistersInv, PadMaps
  PROVE  /\ phase = "maps" /\ Advance("reserve", "align")
         /\ registers' = registers /\ regsUsed' = regsUsed /\ sig' = sig
<1>1. phase = "maps" /\ regsUsed' = regsUsed /\ sig' = sig
  BY DEF PadMaps, packing, request
<1>2. \/ pinIndex = 0
      \/ pinIndex = 2 /\ regsUsed[chan] = NumRegs
  BY <1>1, MapsX
<1>3. CASE pinIndex = 0
  BY <1>1, <1>3 DEF PadMaps
<1>4. CASE pinIndex = 2 /\ regsUsed[chan] = NumRegs
  <2>1. ~(NumRegs - regsUsed[chan] > 0) /\ NumRegs - regsUsed[chan] # 1 /\ pinIndex > 0
    BY <1>4, ConnectionXAssumption
  <2> QED BY <1>1, <2>1 DEF PadMaps
<1> QED BY <1>2, <1>3, <1>4

(* Going to the next channel keeps what the registers hold.                *)
LEMMA RegistersPadMaps == TypesX /\ RegistersInv /\ PadMaps => RegistersInv'
<1> SUFFICES ASSUME TypesX, RegistersInv, PadMaps  PROVE RegistersInv'
  OBVIOUS
<1>1. /\ phase = "maps" /\ Advance("reserve", "align")
      /\ registers' = registers /\ regsUsed' = regsUsed /\ sig' = sig
  BY PadMapsX
<1>2. chan \in Channel /\ chan \in Nat /\ NumExceptions \in Nat
  BY ChannelsX, ConnectionXAssumption DEF TypesX
<1>3. \A c \in Channel : IF c <= chan THEN Counted(c) ELSE Bare(c)
  BY <1>1 DEF RegistersInv
<1>4. ASSUME NEW c \in Channel  PROVE c \in Nat /\ c <= NumExceptions + 1
  BY <1>2 DEF Channel
<1>5. ASSUME NEW c \in Channel, c <= chan  PROVE Counted(c)'
  BY <1>1, <1>3, <1>5, CountedKept
<1>6. CASE chan = NumExceptions + 1
  <2>1. phase' = "align"
    BY <1>1, <1>2, <1>6, AdvanceX
  <2>2. \A c \in Channel : Counted(c)'
    BY <1>4, <1>5, <1>6
  <2> QED BY <2>1, <2>2 DEF RegistersInv, Calls, Moved
<1>7. CASE chan # NumExceptions + 1
  <2>1. phase' = "reserve" /\ chan' = chan + 1
    BY <1>1, <1>2, <1>7, AdvanceX
  <2>2. ASSUME NEW c \in Channel  PROVE IF c < chan' THEN Counted(c)' ELSE Bare(c)'
    <3>1. CASE c <= chan
      BY <1>2, <1>4, <1>5, <2>1, <3>1
    <3>2. CASE ~(c <= chan)
      <4>1. ~(c < chan') /\ c # CHANNEL_IN /\ Bare(c)
        BY <1>2, <1>3, <1>4, <2>1, <3>2 DEF CHANNEL_IN
      <4>2. Identified(c)' = Identified(c)
        BY <1>1, <2>1, <4>1, ReservedX DEF Identified
      <4> QED BY <1>1, <4>1, <4>2, CountedKept
    <3> QED BY <3>1, <3>2
  <2> QED BY <2>1, <2>2 DEF RegistersInv, Calls, Moved
<1> QED BY <1>6, <1>7

(* Measuring the alignment moves no chunk.                                 *)
LEMMA RegistersMeasure == RegistersInv /\ MeasureAlignment => RegistersInv'
<1> SUFFICES ASSUME RegistersInv, MeasureAlignment  PROVE RegistersInv'
  OBVIOUS
<1>1. /\ phase = "align" /\ phase' = "inout" /\ registers' = registers /\ regsUsed' = regsUsed
      /\ sig' = sig
  BY DEF MeasureAlignment, lists, packing, request
<1>2. \A c \in Channel : Counted(c)'
  BY <1>1, CountedKept DEF RegistersInv
<1> QED BY <1>1, <1>2 DEF RegistersInv, Calls, Moved

(* A word no larger than a register is not pinned.                         *)
LEMMA LooseWord ==
  ASSUME NEW x \in WordChunk, x.size <= WordSize
  PROVE  Loose(x)
  BY WordFacts DEF Loose, WordSize

(* A value that goes both ways takes a register of both messages.          *)
LEMMA RegistersMoveInout == TypesX /\ IdsInv /\ RegistersInv /\ MoveInout => RegistersInv'
<1> SUFFICES ASSUME TypesX, IdsInv, RegistersInv, MoveInout  PROVE RegistersInv'
  OBVIOUS
<1> DEFINE x == dwords[CHANNEL_IN][InAt]
           y == dwords[CHANNEL_OUT][OutAt]
<1>1. phase = "inout" /\ phase' = "inout" /\ sig' = sig /\ InoutFits
  BY DEF MoveInout, request
<1>2. /\ registers \in [Channel -> Seq(ChunkX)] /\ dwords \in [Channel -> Seq(WordChunk)]
      /\ regsUsed \in [Channel -> 0 .. NumRegs]
      /\ CHANNEL_IN \in Channel /\ CHANNEL_OUT \in Channel
  BY ChannelsX DEF TypesX
<1>3. /\ InAt \in 1 .. Len(dwords[CHANNEL_IN]) /\ OutAt \in 1 .. Len(dwords[CHANNEL_OUT])
      /\ x \in WordChunk /\ y \in WordChunk /\ x.prio = PRIO_INOUT_FIXED /\ x.size <= WordSize
      /\ y.id = x.id
  BY <1>1, InoutX
<1>4. x \in ToSet(dwords[CHANNEL_IN]) /\ y \in ToSet(dwords[CHANNEL_OUT])
  <2>1. dwords[CHANNEL_IN] \in Seq(WordChunk) /\ dwords[CHANNEL_OUT] \in Seq(WordChunk)
    BY <1>2
  <2> QED BY <1>3, <2>1 DEF ToSet
<1> HIDE DEF x, y
<1>5. Loose(x) /\ Loose(y) /\ x \in ChunkX /\ y \in ChunkX
  <2>1. x.size = y.size
    BY <1>3, <1>4 DEF IdsInv, Twins
  <2> QED BY <1>3, <2>1, LooseWord, WordFacts
<1>6. ASSUME NEW c \in {CHANNEL_IN, CHANNEL_OUT}, NEW z \in ChunkX, Loose(z),
             registers'[c] = AddWithPrio(registers[c], z, PRIO_INOUT_FIXED)
      PROVE  Counted(c)'
  <2>1. registers[c] \in Seq(ChunkX) /\ regsUsed[c] < NumRegs /\ Counted(c) /\ c \in Channel
    BY <1>1, <1>2 DEF RegistersInv, InoutFits
  <2>2. Plain(registers[c], Reserved(c)) /\ Len(registers[c]) = regsUsed[c]
    BY <2>1, ConnectionXAssumption DEF Counted
  <2>3. PRIO_INOUT_FIXED \in {PRIO_INOUT_FIXED, PRIO_OUT_FIXED}
    OBVIOUS
  <2>4. /\ Plain(AddWithPrio(registers[c], z, PRIO_INOUT_FIXED), Reserved(c))
        /\ Len(AddWithPrio(registers[c], z, PRIO_INOUT_FIXED)) = Len(registers[c]) + 1
    BY <1>6, <2>1, <2>2, <2>3, PlainAdd
  <2>5. regsUsed'[c] = regsUsed[c] + 1
    BY <2>1, MoveInoutX
  <2>6. Reserved(c)' = Reserved(c)
    BY <1>1, ReservedX
  <2> QED BY <1>6, <2>2, <2>4, <2>5, <2>6 DEF Counted
<1>7. ASSUME NEW c \in Channel  PROVE Counted(c)'
  <2>1. CASE c = CHANNEL_IN
    <3>1. registers'[c] = AddWithPrio(registers[c], x, PRIO_INOUT_FIXED)
      BY <2>1, MoveInoutX DEF x
    <3> QED BY <1>5, <1>6, <2>1, <3>1
  <2>2. CASE c = CHANNEL_OUT
    <3>1. registers'[c] = AddWithPrio(registers[c], y, PRIO_INOUT_FIXED)
      BY <2>2, MoveInoutX DEF y, CHANNEL_IN, CHANNEL_OUT
    <3> QED BY <1>5, <1>6, <2>2, <3>1
  <2>3. CASE c \notin {CHANNEL_IN, CHANNEL_OUT}
    <3>1. registers'[c] = registers[c] /\ regsUsed'[c] = regsUsed[c]
      BY <2>3, MoveInoutX
    <3>2. Counted(c)
      BY <1>1 DEF RegistersInv
    <3> QED BY <1>1, <3>1, <3>2, CountedKept
  <2> QED BY <2>1, <2>2, <2>3
<1> QED BY <1>1, <1>7 DEF RegistersInv, Calls, Moved

(* The scan of the request starts with the registers that are left.        *)
LEMMA RegistersEndInouts == TypesX /\ LoopsX /\ RegistersInv /\ EndInouts => RegistersInv'
<1> SUFFICES ASSUME TypesX, LoopsX, RegistersInv, EndInouts  PROVE RegistersInv'
  OBVIOUS
<1>1. /\ phase = "inout" /\ phase' = "scan" /\ registers' = registers /\ regsUsed' = regsUsed
      /\ sig' = sig /\ chan' = chan /\ candidates' = candidates
      /\ regsLeft' = NumRegs - regsUsed[CHANNEL_IN]
  BY DEF EndInouts, lists, request
<1>2. chan = CHANNEL_IN /\ candidates = <<>>
  BY <1>1 DEF LoopsX, Looping
<1>3. \A c \in Channel : Counted(c)'
  BY <1>1, CountedKept DEF RegistersInv
<1>4. \A c \in Channel : ~(c < chan')
  BY <1>1, <1>2, ChannelsX DEF CHANNEL_IN
<1>5. regsUsed'[chan'] + Len(candidates') + regsLeft' = NumRegs
  <2>1. regsUsed[CHANNEL_IN] \in 0 .. NumRegs
    BY ChannelsX DEF TypesX
  <2>2. regsUsed'[chan'] = regsUsed[CHANNEL_IN] /\ Len(candidates') = 0
    BY <1>1, <1>2
  <2> QED BY <1>1, <2>1, <2>2, ConnectionXAssumption
<1>6. \A i \in DOMAIN candidates' : Loose(candidates'[i])
  BY <1>1, <1>2
<1> QED BY <1>1, <1>3, <1>4, <1>5, <1>6 DEF RegistersInv, Calls, Moved

(* While registers are filled in one channel.                              *)
LEMMA RegistersScan ==
  ASSUME TypesX, RegistersInv, phase = "scan", phase' = "scan",
         UNCHANGED <<sig, registers, regsUsed, chan>>,
         Len(candidates') + regsLeft' = Len(candidates) + regsLeft,
         Len(candidates') \in Nat, regsLeft' \in Nat,
         \A i \in DOMAIN candidates' : Loose(candidates'[i])
  PROVE  RegistersInv'
<1>1. \A c \in Channel : IF c < chan THEN Filled(c) ELSE Counted(c)
  BY DEF RegistersInv
<1>2. \A c \in Channel : IF c < chan' THEN Filled(c)' ELSE Counted(c)'
  BY <1>1, CountedKept
<1>3. regsUsed'[chan'] + Len(candidates') + regsLeft' = NumRegs
  <2>1. regsUsed[chan] + Len(candidates) + regsLeft = NumRegs
    BY DEF RegistersInv
  <2>2. regsUsed[chan] \in 0 .. NumRegs /\ Len(candidates) \in Nat /\ regsLeft \in 0 .. NumRegs
    BY DEF TypesX
  <2> QED BY <2>1, <2>2, ConnectionXAssumption
<1> QED BY <1>2, <1>3 DEF RegistersInv, Calls, Moved

(* Sharing a register takes none.                                          *)
LEMMA RegistersShare == TypesX /\ RegistersInv /\ ShareRegister => RegistersInv'
<1> SUFFICES ASSUME TypesX, RegistersInv, ShareRegister  PROVE RegistersInv'
  OBVIOUS
<1> DEFINE left == RemoveElement(candidates, Partner)
           new == Shared(Taken, candidates[Partner])
<1>1. /\ Scanning /\ CanShare /\ regsLeft' = regsLeft /\ candidates' = AddLast(left, new)
      /\ phase' = phase /\ UNCHANGED <<sig, registers, regsUsed, chan>>
  BY DEF ShareRegister, TakeScanned, Partner, request
<1>2. /\ candidates \in Seq(ChunkX) /\ regsLeft \in 0 .. NumRegs /\ phase = "scan"
      /\ \A i \in DOMAIN candidates : Loose(candidates[i])
  BY <1>1 DEF TypesX, Scanning, RegistersInv
<1>3. /\ Partner \in 1 .. Len(candidates) /\ candidates[Partner] \in ChunkX
      /\ WordSize - candidates[Partner].size >= Scanned.size
  BY <1>1, PartnerX
<1>4. /\ Scanned \in WordChunk /\ Taken \in ChunkX /\ Taken.size = Scanned.size
      /\ Taken.flags = Scanned.flags \ {ALLOC_SERVER}
  BY <1>1, ScannedX
<1>5. new \in ChunkX /\ Loose(new)
  <2>1. /\ new \in ChunkX /\ new.size = Taken.size + candidates[Partner].size
        /\ new.flags = Taken.flags \cup candidates[Partner].flags
    BY <1>3, <1>4, SharedX
  <2>2. candidates[Partner].size \in Nat /\ Scanned.size \in Nat
    BY <1>3, <1>4, WordFacts DEF ChunkX
  <2>3. Loose(candidates[Partner])
    BY <1>2, <1>3
  <2>4. Scanned.size <= WordSize
    BY <1>3, <2>2 DEF WordSize
  <2>5. PINNED \notin Scanned.flags
    BY <1>4, <2>4, LooseWord DEF Loose
  <2>6. PINNED \notin new.flags
    BY <1>4, <2>1, <2>3, <2>5 DEF Loose
  <2>7. new.size <= WordSize
    BY <1>3, <1>4, <2>1, <2>2 DEF WordSize
  <2> QED BY <2>1, <2>6, <2>7 DEF Loose
<1> HIDE DEF new
<1>6. /\ left \in Seq(ChunkX) /\ Len(left) = Len(candidates) - 1
      /\ \A i \in 1 .. Partner - 1 : left[i] = candidates[i]
      /\ \A i \in Partner .. Len(candidates) - 1 : left[i] = candidates[i + 1]
  BY <1>2, <1>3, RemoveAtElements DEF RemoveElement
<1> HIDE DEF left
<1>7. ASSUME NEW i \in 1 .. Len(left)  PROVE Loose(left[i])
  <2>1. CASE i < Partner
    <3>1. i \in 1 .. Partner - 1 /\ i \in DOMAIN candidates
      BY <1>2, <1>3, <1>6, <2>1
    <3> QED BY <1>2, <1>6, <3>1
  <2>2. CASE i >= Partner
    <3>1. i \in Partner .. Len(candidates) - 1 /\ i + 1 \in DOMAIN candidates
      BY <1>2, <1>3, <1>6, <2>2
    <3> QED BY <1>2, <1>6, <3>1
  <2> QED BY <1>3, <2>1, <2>2
<1>8. /\ candidates' = Append(left, new) /\ Len(left) \in Nat
  BY <1>1, <1>6 DEF AddLast
<1>9. /\ Len(candidates') = Len(left) + 1 /\ DOMAIN candidates' = 1 .. Len(left) + 1
      /\ candidates'[Len(left) + 1] = new
      /\ \A i \in 1 .. Len(left) : candidates'[i] = left[i]
  BY <1>5, <1>6, <1>8
<1>10. \A i \in DOMAIN candidates' : Loose(candidates'[i])
  <2> SUFFICES ASSUME NEW i \in 1 .. Len(left) + 1  PROVE Loose(candidates'[i])
    BY <1>9
  <2>1. CASE i = Len(left) + 1
    BY <1>5, <1>9, <2>1
  <2>2. CASE i # Len(left) + 1
    <3>1. i \in 1 .. Len(left)
      BY <1>8, <2>2
    <3> QED BY <1>7, <1>9, <3>1
  <2> QED BY <2>1, <2>2
<1>11. /\ Len(candidates') + regsLeft' = Len(candidates) + regsLeft
       /\ Len(candidates') \in Nat /\ regsLeft' \in Nat
  BY <1>1, <1>2, <1>6, <1>8, <1>9, ConnectionXAssumption
<1> QED BY <1>1, <1>2, <1>10, <1>11, RegistersScan

(* Taking a register leaves one less.                                      *)
LEMMA RegistersTake == TypesX /\ RegistersInv /\ TakeRegister => RegistersInv'
<1> SUFFICES ASSUME TypesX, RegistersInv, TakeRegister  PROVE RegistersInv'
  OBVIOUS
<1>1. /\ Scanning /\ regsLeft > 0 /\ regsLeft' = regsLeft - 1
      /\ candidates' = Append(candidates, Taken) /\ Fits(Scanned)
      /\ phase' = phase /\ UNCHANGED <<sig, registers, regsUsed, chan>>
  BY DEF TakeRegister, TakeScanned, AddLast, request
<1>2. /\ candidates \in Seq(ChunkX) /\ regsLeft \in 0 .. NumRegs /\ phase = "scan"
      /\ \A i \in DOMAIN candidates : Loose(candidates[i])
  BY <1>1 DEF TypesX, Scanning, RegistersInv
<1>3. /\ Scanned \in WordChunk /\ Taken \in ChunkX /\ Taken.size = Scanned.size
      /\ Taken.flags = Scanned.flags \ {ALLOC_SERVER}
  BY <1>1, ScannedX
<1>4. Loose(Taken)
  <2>1. Scanned.size <= WordSize
    BY <1>1 DEF Fits
  <2> QED BY <1>3, <2>1, LooseWord DEF Loose
<1> DEFINE n == Len(candidates)
<1>5. /\ Len(candidates') = n + 1 /\ DOMAIN candidates' = 1 .. n + 1 /\ n \in Nat
      /\ candidates'[n + 1] = Taken /\ \A i \in 1 .. n : candidates'[i] = candidates[i]
  BY <1>1, <1>2, <1>3
<1>6. \A i \in DOMAIN candidates' : Loose(candidates'[i])
  <2> SUFFICES ASSUME NEW i \in 1 .. n + 1  PROVE Loose(candidates'[i])
    BY <1>5
  <2>1. CASE i = n + 1
    BY <1>4, <1>5, <2>1
  <2>2. CASE i # n + 1
    <3>1. i \in 1 .. n /\ i \in DOMAIN candidates
      BY <1>2, <1>5, <2>2
    <3> QED BY <1>2, <1>5, <3>1
  <2> QED BY <2>1, <2>2
<1>7. /\ Len(candidates') + regsLeft' = n + regsLeft
      /\ Len(candidates') \in Nat /\ regsLeft' \in Nat
  BY <1>1, <1>2, <1>5, ConnectionXAssumption
<1> QED BY <1>1, <1>2, <1>6, <1>7, RegistersScan

(* Passing a chunk by takes none.                                          *)
LEMMA RegistersPass == TypesX /\ RegistersInv /\ PassChunk => RegistersInv'
<1> SUFFICES ASSUME TypesX, RegistersInv, PassChunk  PROVE RegistersInv'
  OBVIOUS
<1>1. /\ phase = "scan" /\ phase' = "scan" /\ UNCHANGED <<sig, registers, regsUsed, chan>>
      /\ candidates' = candidates /\ regsLeft' = regsLeft
  BY DEF PassChunk, Scanning, lists, packing, request
<1>2. /\ candidates \in Seq(ChunkX) /\ regsLeft \in 0 .. NumRegs /\ Len(candidates) \in Nat
      /\ \A i \in DOMAIN candidates : Loose(candidates[i])
  BY <1>1 DEF TypesX, RegistersInv
<1>3. regsLeft \in Nat
  BY <1>2, ConnectionXAssumption
<1> QED BY <1>1, <1>2, <1>3, RegistersScan

(* The registers of a channel when the scan is through with it.            *)
LEMMA MergedX ==
  ASSUME TypesX, RegistersInv, MergeRegisters
  PROVE  LET merged == AddedAll(registers[chan], candidates, PRIO_OUT_FIXED) IN
         /\ merged \in Seq(ChunkX)
         /\ \/ Plain(merged, Reserved(chan)) /\ Len(merged) <= NumRegs
            \/ Mapped(merged) /\ Reserved(chan) = 1
<1> DEFINE list == registers[chan]
           idents == Reserved(chan)
           merged == AddedAll(list, candidates, PRIO_OUT_FIXED)
           n == Len(candidates)
<1>1. /\ phase = "scan" /\ list \in Seq(ChunkX) /\ chan \in Channel /\ chan \in Nat
      /\ candidates \in Seq(ChunkX) /\ regsUsed[chan] \in 0 .. NumRegs /\ regsLeft \in 0 .. NumRegs
      /\ n \in Nat
  BY ChannelsX DEF TypesX, MergeRegisters
<1>2. /\ regsUsed[chan] + n + regsLeft = NumRegs
      /\ \A i \in DOMAIN candidates : Loose(candidates[i])
      /\ Counted(chan)
  BY <1>1 DEF RegistersInv
<1>3. PRIO_OUT_FIXED \in {PRIO_INOUT_FIXED, PRIO_OUT_FIXED} /\ PRIO_OUT_FIXED \in Nat
  BY DEF PRIO_OUT_FIXED
<1>4. \A i \in DOMAIN candidates : Prioritized(candidates[i], PRIO_OUT_FIXED) \in ChunkX
  <2> SUFFICES ASSUME NEW i \in DOMAIN candidates
               PROVE  Prioritized(candidates[i], PRIO_OUT_FIXED) \in ChunkX
    OBVIOUS
  <2>1. candidates[i] \in ChunkX
    BY <1>1
  <2> QED BY <1>3, <2>1, PrioritizedX
<1>5. CASE Plain(list, idents) /\ Len(list) = regsUsed[chan]
  <2> DEFINE G == {l \in Seq(ChunkX) : Plain(l, idents)}
  <2>1. G \in SUBSET Seq(ChunkX) /\ list \in G
    BY <1>1, <1>5
  <2>2. ASSUME NEW l \in G, NEW i \in DOMAIN candidates
        PROVE  AddWithPrio(l, candidates[i], PRIO_OUT_FIXED) \in G
    <3>1. candidates[i] \in ChunkX /\ Loose(candidates[i]) /\ l \in Seq(ChunkX) /\ Plain(l, idents)
      BY <1>1, <1>2
    <3> HIDE DEF idents
    <3> QED BY <1>3, <3>1, PlainAdd
  <2>a. \A l \in G : \A i \in DOMAIN candidates : AddWithPrio(l, candidates[i], PRIO_OUT_FIXED) \in G
    BY <2>2
  <2>b. candidates \in Seq(ChunkX) /\ list \in Seq(ChunkX)
    BY <1>1
  <2> HIDE DEF G, list, idents
  <2>3. merged \in G /\ Len(merged) = Len(list) + n
    BY <1>4, <2>1, <2>a, <2>b, AddedAllX
  <2>4. merged \in Seq(ChunkX) /\ Plain(merged, idents)
    BY <2>3 DEF G
  <2> HIDE DEF merged
  <2>5. Len(merged) <= NumRegs
    BY <1>1, <1>2, <1>5, <2>3, ConnectionXAssumption
  <2> QED BY <2>4, <2>5 DEF merged, list, idents
<1>6. CASE Mapped(list) /\ Reserved(chan) = 1 /\ regsUsed[chan] = NumRegs
  <2> DEFINE G == {list}
  <2>1. n = 0
    BY <1>1, <1>2, <1>6, ConnectionXAssumption
  <2>2. G \in SUBSET Seq(ChunkX) /\ list \in G
    BY <1>1
  <2>3. \A l \in G : \A i \in DOMAIN candidates :
           AddWithPrio(l, candidates[i], PRIO_OUT_FIXED) \in G
    <3>1. DOMAIN candidates = {}
      BY <1>1, <2>1
    <3> QED BY <3>1
  <2> HIDE DEF G, list
  <2>4. merged \in G
    BY <1>1, <1>4, <2>2, <2>3, AddedAllX
  <2>5. merged = list
    BY <2>4 DEF G
  <2> QED BY <1>1, <1>6, <2>5 DEF merged, list
<1> QED BY <1>2, <1>5, <1>6 DEF Counted

(* What the scan found fits into the registers that were left.             *)
LEMMA RegistersMerge == TypesX /\ RegistersInv /\ MergeRegisters => RegistersInv'
<1> SUFFICES ASSUME TypesX, RegistersInv, MergeRegisters  PROVE RegistersInv'
  OBVIOUS
<1> DEFINE merged == AddedAll(registers[chan], candidates, PRIO_OUT_FIXED)
<1>1. /\ phase = "scan" /\ candidates' = <<>> /\ Advance("scan", "offset")
      /\ registers' = [registers EXCEPT ![chan] = merged]
      /\ regsLeft' = IF phase' = "scan" THEN NumRegs - regsUsed[chan'] ELSE 0
      /\ regsUsed' = regsUsed /\ sig' = sig
  BY DEF MergeRegisters, AddedAll, request
<1>2. /\ registers \in [Channel -> Seq(ChunkX)] /\ chan \in Channel
      /\ regsUsed \in [Channel -> 0 .. NumRegs] /\ NumExceptions \in Nat
  BY ConnectionXAssumption DEF TypesX
<1>3. \A c \in Channel : IF c < chan THEN Filled(c) ELSE Counted(c)
  BY <1>1 DEF RegistersInv
<1>4. /\ merged \in Seq(ChunkX)
      /\ \/ Plain(merged, Reserved(chan)) /\ Len(merged) <= NumRegs
         \/ Mapped(merged) /\ Reserved(chan) = 1
  BY MergedX
<1> HIDE DEF merged
<1>5. /\ registers'[chan] = merged /\ \A c \in Channel : c # chan => registers'[c] = registers[c]
  BY <1>1, <1>2
<1>6. ASSUME NEW c \in Channel  PROVE c \in Nat /\ chan \in Nat /\ c <= NumExceptions + 1
  BY <1>2, ChannelsX DEF Channel
<1>7. ASSUME NEW c \in Channel, c <= chan  PROVE Filled(c)'
  <2>1. CASE c = chan
    <3>1. Reserved(c)' = Reserved(chan)
      BY <1>1, <2>1, ReservedX
    <3> QED BY <1>4, <1>5, <2>1, <3>1 DEF Filled
  <2>2. CASE c # chan
    <3>1. Filled(c)
      BY <1>3, <1>6, <1>7, <2>2
    <3> QED BY <1>1, <1>5, <2>2, <3>1, CountedKept
  <2> QED BY <2>1, <2>2
<1>8. CASE chan = NumExceptions + 1
  <2>1. phase' = "offset"
    BY <1>1, <1>2, <1>8, AdvanceX
  <2>2. \A c \in Channel : Filled(c)'
    BY <1>6, <1>7, <1>8
  <2> QED BY <2>1, <2>2 DEF RegistersInv, Calls, Moved
<1>9. CASE chan # NumExceptions + 1
  <2>1. phase' = "scan" /\ chan' = chan + 1 /\ chan' \in Channel
    BY <1>1, <1>2, <1>9, AdvanceX
  <2>2. ASSUME NEW c \in Channel  PROVE IF c < chan' THEN Filled(c)' ELSE Counted(c)'
    <3>1. CASE c <= chan
      BY <1>6, <1>7, <2>1, <3>1
    <3>2. CASE ~(c <= chan)
      <4>1. ~(c < chan') /\ c # chan /\ ~(c < chan)
        BY <1>6, <2>1, <3>2
      <4>2. Counted(c) /\ registers'[c] = registers[c] /\ regsUsed'[c] = regsUsed[c]
        BY <1>1, <1>3, <1>5, <4>1
      <4> QED BY <1>1, <4>1, <4>2, CountedKept
    <3> QED BY <3>1, <3>2
  <2>3. regsUsed'[chan'] + Len(candidates') + regsLeft' = NumRegs
    <3>1. regsUsed[chan'] \in 0 .. NumRegs /\ Len(candidates') = 0
      BY <1>1, <1>2, <2>1
    <3> QED BY <1>1, <2>1, <3>1, ConnectionXAssumption
  <2>4. \A i \in DOMAIN candidates' : Loose(candidates'[i])
    BY <1>1
  <2> QED BY <2>1, <2>2, <2>3, <2>4 DEF RegistersInv, Calls, Moved
<1> QED BY <1>8, <1>9

(* Once all registers are filled.                                          *)
LEMMA RegistersMoved ==
  ASSUME phase \in Moved \cup {"offset"}, phase' \in Moved, RegistersInv,
         \A c \in Channel : Filled(c) => Filled(c)'
  PROVE  RegistersInv'
<1>1. \A c \in Channel : Filled(c)'
  BY DEF RegistersInv
<1>2. phase' \notin Calls \cup {"reserve", "maps", "align", "inout", "scan"}
  BY DEF Moved, Calls
<1> QED BY <1>1, <1>2 DEF RegistersInv

(* Registers that only get other positions are still filled in that way.   *)
LEMMA FilledLike ==
  ASSUME sig' = sig, NEW c \in Channel, registers[c] \in Seq(ChunkX), registers'[c] \in Seq(ChunkX),
         SameRegisters(registers'[c], registers[c]), Filled(c)
  PROVE  Filled(c)'
<1>1. Reserved(c)' = Reserved(c)
  BY ReservedX
<1>2. Len(registers'[c]) = Len(registers[c])
  BY DEF SameRegisters
<1>3. /\ \A idents : Plain(registers[c], idents) => Plain(registers'[c], idents)
      /\ Mapped(registers[c]) => Mapped(registers'[c])
  BY SameRegistersX
<1> QED BY <1>1, <1>2, <1>3 DEF Filled

(* Freezing and restricting keep what a register is.                       *)
LEMMA FrozenSame ==
  ASSUME TypesX, NEW list \in Seq(ChunkX)
  PROVE  SameRegisters(FrozenRegisters(list), list)
<1>1. /\ Len(FrozenRegisters(list)) = Len(list)
      /\ \A i \in 1 .. Len(list) :
           FrozenRegisters(list)[i] = InRegister(list[i], RegisterIndex(list)[i], Shift)
  BY FrozenRegistersX
<1>2. ASSUME NEW i \in 1 .. Len(list)  PROVE SameRegister(FrozenRegisters(list)[i], list[i])
  <2>1. i \in 0 .. Len(list) /\ list[i] \in ChunkX
    OBVIOUS
  <2>2. RegisterIndex(list)[i] \in Int /\ Shift \in Int
    BY <2>1, RegisterIndexX, ShiftX
  <2> DEFINE y == InRegister(list[i], RegisterIndex(list)[i], Shift)
  <2>3. /\ y.size = list[i].size /\ y.flags = list[i].flags /\ y.prio = list[i].prio
        /\ y.index = list[i].index
    BY <2>1, <2>2, InRegisterX
  <2>4. FrozenRegisters(list)[i] = y
    BY <1>1
  <2> HIDE DEF y
  <2> QED BY <2>3, <2>4 DEF SameRegister
<1> QED BY <1>1, <1>2 DEF SameRegisters

(* Taking the server's room away moves nothing to another register.        *)
LEMMA RestrictedSame ==
  ASSUME NEW list \in Seq(ChunkX), NEW keep
  PROVE  SameRegisters(Without(list, keep), list)
<1>1. /\ Len(Without(list, keep)) = Len(list)
      /\ \A i \in 1 .. Len(list) :
           Without(list, keep)[i] = IF i \in keep THEN list[i] ELSE Unallocated(list[i])
  BY WithoutX
<1>2. ASSUME NEW i \in 1 .. Len(list)  PROVE SameRegister(Without(list, keep)[i], list[i])
  <2>1. list[i] \in ChunkX
    OBVIOUS
  <2> DEFINE y == Unallocated(list[i])
  <2>2. /\ y.size = list[i].size /\ y.flags = list[i].flags \ {ALLOC_SERVER}
        /\ y.prio = list[i].prio /\ y.index = list[i].index
    BY <2>1, UnallocatedX
  <2>3. Without(list, keep)[i] = IF i \in keep THEN list[i] ELSE y
    BY <1>1
  <2>4. PINNED # ALLOC_SERVER
    BY DEF PINNED, ALLOC_SERVER
  <2> HIDE DEF y
  <2> QED BY <2>2, <2>3, <2>4 DEF SameRegister
<1> QED BY <1>1, <1>2 DEF SameRegisters

(* Freezing a channel moves nothing to another register.                   *)
LEMMA RegistersFreezeChannel == TypesX /\ RegistersInv /\ FreezeChannel => RegistersInv'
<1> SUFFICES ASSUME TypesX, RegistersInv, FreezeChannel  PROVE RegistersInv'
  OBVIOUS
<1>1. /\ phase = "freeze" /\ sig' = sig
      /\ registers' = [registers EXCEPT ![chan] = FrozenRegisters(registers[chan])]
  BY DEF FreezeChannel, request
<1>2. registers \in [Channel -> Seq(ChunkX)] /\ chan \in Channel
  BY DEF TypesX
<1>3. phase' \in Moved /\ phase \in Moved
  <2>1. phase' = "pin_assertion" \/ Advance("freeze", "restrict")
    BY DEF FreezeChannel
  <2>2. phase' \in {"pin_assertion", "freeze", "restrict"}
    BY <1>2, <2>1, AdvanceX
  <2> QED BY <1>1, <2>2 DEF Moved
<1>4. ASSUME NEW c \in Channel, Filled(c)  PROVE Filled(c)'
  <2>1. CASE c = chan
    <3>1. registers[c] \in Seq(ChunkX) /\ registers'[c] = FrozenRegisters(registers[c])
      BY <1>1, <1>2, <2>1
    <3>2. registers'[c] \in Seq(ChunkX)
      BY <3>1, FrozenRegistersX
    <3>3. SameRegisters(registers'[c], registers[c])
      BY <3>1, FrozenSame
    <3> QED BY <1>1, <1>4, <3>1, <3>2, <3>3, FilledLike
  <2>2. CASE c # chan
    <3>1. registers'[c] = registers[c]
      BY <1>1, <1>2, <2>2
    <3> QED BY <1>1, <1>4, <3>1, CountedKept
  <2> QED BY <2>1, <2>2
<1> QED BY <1>3, <1>4, RegistersMoved

(* Neither does restricting the server.                                    *)
LEMMA RegistersRestrict == TypesX /\ RegistersInv /\ RestrictServer => RegistersInv'
<1> SUFFICES ASSUME TypesX, RegistersInv, RestrictServer  PROVE RegistersInv'
  OBVIOUS
<1>1. /\ phase = "restrict" /\ phase' = "finalize" /\ sig' = sig
      /\ \/ registers' = registers
         \/ registers' = [c \in Channel |-> Without(registers[c], KeptRegisters(c))]
  BY RestrictServerX DEF request
<1>2. registers \in [Channel -> Seq(ChunkX)]
  BY DEF TypesX
<1>3. ASSUME NEW c \in Channel, Filled(c)  PROVE Filled(c)'
  <2>1. registers[c] \in Seq(ChunkX)
    BY <1>2
  <2>2. CASE registers'[c] = registers[c]
    BY <1>1, <1>3, <2>2, CountedKept
  <2>3. CASE registers'[c] = Without(registers[c], KeptRegisters(c))
    <3>1. registers'[c] \in Seq(ChunkX)
      BY <2>1, <2>3, WithoutX
    <3>2. SameRegisters(registers'[c], registers[c])
      BY <2>1, <2>3, RestrictedSame
    <3> QED BY <1>1, <1>3, <2>1, <3>1, <3>2, FilledLike
  <2> QED BY <1>1, <2>2, <2>3
<1>4. phase \in Moved /\ phase' \in Moved
  BY <1>1 DEF Moved
<1> QED BY <1>3, <1>4, RegistersMoved

(* Neither do the steps that place words and strings.                      *)
LEMMA RegistersPlaced ==
  TypesX /\ RegistersInv /\ (PlaceReply \/ PadStrings \/ FreezeChunk \/ Finalize) => RegistersInv'
<1> SUFFICES ASSUME TypesX, RegistersInv, PlaceReply \/ PadStrings \/ FreezeChunk \/ Finalize
             PROVE  RegistersInv'
  OBVIOUS
<1>1. /\ sig' = sig /\ registers' = registers /\ phase \in Moved \cup {"offset"} /\ phase' \in Moved
  <2>1. CASE PlaceReply
    BY <2>1, OffsetX DEF request, lists, Moved
  <2>2. CASE FreezeChunk
    BY <2>2, FreezeChunkX DEF request, Moved
  <2>3. CASE PadStrings \/ Finalize
    BY <2>3 DEF PadStrings, Finalize, request, Moved
  <2> QED BY <2>1, <2>2, <2>3
<1>2. \A c \in Channel : Filled(c) => Filled(c)'
  BY <1>1, CountedKept
<1> QED BY <1>1, <1>2, RegistersMoved

(* Every step keeps what the registers hold.                               *)
LEMMA RegistersStep ==
  TypesX /\ LoopsX /\ ChannelsInv /\ IdsInv /\ RegistersInv /\ [Next]_vars => RegistersInv'
<1> SUFFICES ASSUME TypesX, LoopsX, ChannelsInv, IdsInv, RegistersInv, [Next]_vars
             PROVE  RegistersInv'
  OBVIOUS
<1>1. CASE UNCHANGED vars
  BY <1>1 DEF vars, lists, packing, request, RegistersInv, Bare, Counted, Filled, Identified,
     Reserved
<1>2. CASE Finished
  BY <1>1, <1>2 DEF Finished
<1> QED BY <1>1, <1>2, RegistersMarshal, RegistersBuffers, RegistersReserve, RegistersMoveMap,
           RegistersPadMaps, RegistersMeasure, RegistersMoveInout, RegistersEndInouts,
           RegistersShare, RegistersTake, RegistersPass, RegistersMerge, RegistersPlaced,
           RegistersFreezeChannel, RegistersRestrict
        DEF Next, FillRegisters, Freeze

-----------------------------------------------------------------------------
(* Positions                                                               *)

(* Values get the registers in sequence and the identifier gets the last   *)
(* one, which none of them has reached.                                    *)
LEMMA PlainIndices ==
  ASSUME NEW list \in Seq(ChunkX), NEW idents, Plain(list, idents), Len(list) <= NumRegs
  PROVE  /\ \A i \in 1 .. Len(list) :
              RegisterIndex(list)[i] = IF idents = 1 /\ i = Len(list) THEN NumRegs - 1 ELSE i - 1
         /\ PinsFree(list)
<1> DEFINE m == Len(list) - idents
           R == RegisterIndex(list)
<1>1. /\ idents \in {0, 1} /\ Len(list) \in Nat /\ m \in Nat /\ NumRegs \in Nat
      /\ m <= Len(list)
  BY ConnectionXAssumption DEF Plain
<1>2. \A i \in 1 .. m : PINNED \notin list[i].flags
  BY DEF Plain, Value, Loose
<1>3. idents = 1 => PINNED \in list[Len(list)].flags /\ list[Len(list)].index = NumRegs - 1
  BY DEF Plain, Ident
<1>4. /\ R[0] = -1
      /\ \A i \in 1 .. Len(list) :
           R[i] = IF PINNED \in list[i].flags THEN list[i].index ELSE R[i - 1] + 1
  BY RegisterIndexX
<1> HIDE DEF R
<1> DEFINE H == {i \in 0 .. m : R[i] = i - 1}
<1>5. 0 \in H
  BY <1>1, <1>4
<1>6. ASSUME NEW i \in 0 .. m - 1, i \in H  PROVE i + 1 \in H
  <2>1. i + 1 \in 1 .. m /\ i + 1 \in 1 .. Len(list) /\ (i + 1) - 1 = i /\ i + 1 \in 0 .. m
    BY <1>1
  <2>2. R[i + 1] = R[i] + 1
    BY <1>2, <1>4, <2>1
  <2> QED BY <1>6, <2>1, <2>2
<1>7. \A i \in 0 .. m : R[i] = i - 1
  <2> HIDE DEF H, m
  <2>1. 0 .. m \subseteq H
    BY <1>1, <1>5, <1>6, UpToInduction
  <2> QED BY <2>1 DEF H
<1>8. ASSUME NEW i \in 1 .. Len(list)
      PROVE  /\ R[i] = IF idents = 1 /\ i = Len(list) THEN NumRegs - 1 ELSE i - 1
             /\ PINNED \in list[i].flags => list[i].index > R[i - 1]
  <2>1. CASE i \in 1 .. m
    BY <1>1, <1>2, <1>7, <2>1
  <2>2. CASE idents = 1 /\ i = Len(list)
    <3>1. R[i] = NumRegs - 1 /\ list[i].index = NumRegs - 1
      BY <1>3, <1>4, <2>2
    <3>2. R[i - 1] = i - 2
      BY <1>1, <1>7, <2>2
    <3> QED BY <1>1, <2>2, <3>1, <3>2
  <2> QED BY <1>1, <2>1, <2>2
<1>9. PinsFree(list)
  BY <1>8 DEF PinsFree, R
<1> QED BY <1>8, <1>9 DEF R

(* A map item is in the first register.                                    *)
LEMMA MappedIndices ==
  ASSUME NEW list \in Seq(ChunkX), Mapped(list)
  PROVE  /\ \A i \in 1 .. Len(list) :
              RegisterIndex(list)[i] = IF i = Len(list) THEN NumRegs - 1 ELSE i - 1
         /\ PinsFree(list)
<1>1. /\ NumRegs = 3 /\ Len(list) = 2
      /\ PINNED \in list[1].flags /\ list[1].index = 0
      /\ PINNED \in list[2].flags /\ list[2].index = 2
  BY DEF Mapped, MapItem, Ident
<1>2. /\ RegisterIndex(list)[0] = -1
      /\ \A i \in 1 .. 2 :
           RegisterIndex(list)[i] = IF PINNED \in list[i].flags THEN list[i].index
                                    ELSE RegisterIndex(list)[i - 1] + 1
  BY <1>1, RegisterIndexX
<1>3. RegisterIndex(list)[1] = 0 /\ RegisterIndex(list)[2] = 2
  BY <1>1, <1>2
<1>4. \A i \in 1 .. Len(list) :
        RegisterIndex(list)[i] = IF i = Len(list) THEN NumRegs - 1 ELSE i - 1
  BY <1>1, <1>3
<1>5. \A i \in DOMAIN list : list[i].index > RegisterIndex(list)[i - 1]
  BY <1>1, <1>2, <1>3
<1> QED BY <1>4, <1>5 DEF PinsFree

(* So every register of a channel is where Register says.                  *)
LEMMA Indices ==
  ASSUME TypesX, NEW c \in Channel, Filled(c)
  PROVE  /\ \A i \in DOMAIN registers[c] : RegisterIndex(registers[c])[i] = Register(c, i)
         /\ PinsFree(registers[c])
<1>1. registers[c] \in Seq(ChunkX)
  BY DEF TypesX
<1>2. CASE Plain(registers[c], Reserved(c)) /\ Len(registers[c]) <= NumRegs
  BY <1>1, <1>2, PlainIndices DEF Register
<1>3. CASE Mapped(registers[c]) /\ Reserved(c) = 1
  BY <1>1, <1>3, MappedIndices DEF Register
<1> QED BY <1>2, <1>3 DEF Filled

(* What is placed stays so while nothing moves it.                         *)
LEMMA PlacesKept ==
  ASSUME UNCHANGED <<sig, svrOutputOffset>>, NEW c \in Channel
  PROVE  /\ registers'[c] = registers[c] /\ Settled(c) => Settled(c)'
         /\ \A i : dwords'[c][i] = dwords[c][i] /\ Placed(c, i) => Placed(c, i)'
  BY DEF Settled, Register, Reserved, Placed, Displacement

(* The words of a channel start at the displacement.                       *)
LEMMA PlacesPadStrings == TypesX /\ LoopsX /\ PadStrings => PlacesInv'
<1> SUFFICES ASSUME TypesX, LoopsX, PadStrings  PROVE PlacesInv'
  OBVIOUS
<1>1. /\ phase = "pad" /\ phase' = "freeze" /\ clientPos' = HeaderSize /\ serverPos' = HeaderSize
      /\ chan' = chan /\ cursor' = cursor
  BY DEF PadStrings
<1>2. chan = CHANNEL_IN /\ cursor = 1
  BY <1>1 DEF LoopsX, Looping
<1>3. HeaderSize \in Nat /\ Displacement(chan)' = 0
  BY <1>1, <1>2, RequestSizes DEF Displacement, CHANNEL_IN, CHANNEL_OUT
<1>4. serverPos' = clientPos' + Displacement(chan)'
  BY <1>1, <1>3
<1>5. \A c \in Channel : ~(c < chan')
  BY <1>1, <1>2, ChannelsX DEF CHANNEL_IN
<1>6. \A i \in DOMAIN dwords'[chan'] : ~(i < cursor')
  <2>1. dwords' = dwords /\ chan' = chan /\ cursor' = 1
    BY <1>1, <1>2 DEF PadStrings
  <2>2. dwords[chan] \in Seq(WordChunk)
    BY DEF TypesX
  <2>3. DOMAIN dwords'[chan'] = 1 .. Len(dwords[chan])
    BY <2>1, <2>2
  <2> QED BY <2>1, <2>2, <2>3
<1> QED BY <1>1, <1>4, <1>5, <1>6 DEF PlacesInv, Frozen

(* A position that is aligned needs no padding, and neither does one that  *)
(* is an aligned number of bytes further.                                  *)
LEMMA AlignedFurther ==
  ASSUME NEW x \in Int, NEW d \in Nat, NEW a \in Alignments, x % a = 0, d % a = 0
  PROVE  AlignUp(x + d, a) = x + d /\ (x + d) % a = 0
<1>1. CASE a = 1
  BY <1>1 DEF AlignUp
<1>2. CASE a = 2
  BY <1>2 DEF AlignUp
<1>3. CASE a = 4
  BY <1>3 DEF AlignUp
<1>4. CASE a = 8
  BY <1>4 DEF AlignUp
<1> QED BY <1>1, <1>2, <1>3, <1>4 DEF Alignments

(* The reply is displaced by as much as any of its words has to be aligned *)
(* to.                                                                     *)
LEMMA DisplacementAligned ==
  ASSUME TypesX, AlignInv, FreezeChunk
  PROVE  /\ Displacement(chan) \in Nat
         /\ Displacement(chan) % dwords[chan][cursor].align = 0
<1>1. /\ phase \in Measured /\ phase \in Moved
      /\ cursor \in 1 .. Len(dwords[chan]) /\ dwords[chan][cursor] \in WordChunk
  BY FreezeChunkX DEF Measured, Moved
<1>2. /\ outAlign \in {4, 8} /\ svrOutputOffset \in Nat /\ dwords[chan] \in Seq(WordChunk)
  BY DEF TypesX
<1>3. dwords[chan][cursor].align \in {1, 2, 4, 8}
  BY <1>1, WordFacts DEF Alignments
<1>4. CASE chan = CHANNEL_OUT
  <2>1. dwords[chan][cursor] \in ToSet(dwords[CHANNEL_OUT])
    BY <1>1, <1>2, <1>4 DEF ToSet
  <2>2. dwords[chan][cursor].align <= outAlign /\ svrOutputOffset % outAlign = 0
    BY <1>1, <2>1 DEF AlignInv
  <2> DEFINE a == dwords[chan][cursor].align
  <2>3. a \in {1, 2, 4, 8} /\ a <= outAlign
    BY <1>3, <2>2
  <2> HIDE DEF a
  <2>4. svrOutputOffset % a = 0
    BY <1>2, <2>2, <2>3
  <2> QED BY <1>2, <1>4, <2>4 DEF Displacement, a
<1>5. CASE chan # CHANNEL_OUT
  <2> DEFINE a == dwords[chan][cursor].align
  <2>1. a \in {1, 2, 4, 8}
    BY <1>3
  <2> HIDE DEF a
  <2>2. 0 % a = 0
    BY <2>1
  <2> QED BY <1>5, <2>2 DEF Displacement, a
<1> QED BY <1>4, <1>5

(* Aligning a word on the client aligns it on the server, too.             *)
LEMMA ChunkPlaced ==
  ASSUME TypesX, AlignInv, PlacesInv, FreezeChunk
  PROVE  /\ WordServer = WordClient + Displacement(chan) /\ phase' = "freeze"
         /\ WordClient = AlignUp(clientPos, dwords[chan][cursor].align)
<1> DEFINE x == dwords[chan][cursor]
           D == Displacement(chan)
<1>1. phase = "freeze" /\ x \in WordChunk
  BY FreezeChunkX
<1>2. clientPos \in Int /\ serverPos \in Int
  BY DEF TypesX
<1>3. x.align \in Alignments /\ ALLOC_CLIENT \in x.flags /\ ALLOC_SERVER \in x.flags
  BY <1>1, WordFacts
<1>4. D \in Nat /\ D % x.align = 0
  BY DisplacementAligned
<1>5. serverPos = clientPos + D
  BY <1>1 DEF PlacesInv
<1>6. ClientPad = AlignUp(clientPos, x.align) - clientPos
  BY <1>3 DEF ClientPad, Padding
<1>7. ServerPad = AlignUp(serverPos + ClientPad, x.align) - (serverPos + ClientPad)
  BY <1>3 DEF ServerPad, Padding
<1> HIDE DEF x, D
<1> DEFINE A == AlignUp(clientPos, x.align)
<1>8. A \in Int /\ A % x.align = 0
  BY <1>2, <1>3, AlignUpX
<1>9. AlignUp(A + D, x.align) = A + D /\ (A + D) % x.align = 0
  BY <1>3, <1>4, <1>8, AlignedFurther
<1>10. serverPos + ClientPad = A + D
  <2> HIDE DEF A
  <2>1. ClientPad = A - clientPos
    BY <1>6 DEF A
  <2> QED BY <1>2, <1>4, <1>5, <1>8, <2>1
<1>11. ServerPad = 0
  <2>1. ServerPad = (A + D) - (A + D)
    BY <1>7, <1>9, <1>10
  <2> HIDE DEF A
  <2> QED BY <1>4, <1>8, <2>1
<1>12. WordClient = A /\ WordServer = A + D
  <2>1. ClientPad = A - clientPos
    BY <1>6
  <2> HIDE DEF A
  <2> QED BY <1>2, <1>4, <1>8, <1>10, <1>11, <2>1 DEF WordClient, WordServer
<1>13. WordClient % x.align = 0 /\ WordServer % x.align = 0
  BY <1>8, <1>9, <1>12
<1>14. phase' = "freeze"
  BY <1>1, <1>13, FreezeChunkX DEF x
<1> QED BY <1>12, <1>14 DEF D, x

(* Freezing a word places it and leaves the next position as far apart.    *)
LEMMA PlacesFreezeChunk == TypesX /\ AlignInv /\ PlacesInv /\ FreezeChunk => PlacesInv'
<1> SUFFICES ASSUME TypesX, AlignInv, PlacesInv, FreezeChunk  PROVE PlacesInv'
  OBVIOUS
<1>1. /\ phase = "freeze" /\ phase' = "freeze" /\ WordServer = WordClient + Displacement(chan)
      /\ cursor \in 1 .. Len(dwords[chan]) /\ dwords[chan][cursor] \in WordChunk
      /\ WordClient \in Int /\ WordServer \in Int /\ cursor' = cursor + 1
      /\ clientPos' = WordClient + dwords[chan][cursor].size
      /\ serverPos' = WordServer + dwords[chan][cursor].size
  BY FreezeChunkX, ChunkPlaced
<1>2. UNCHANGED <<sig, svrOutputOffset, chan, registers>>
  BY FreezeChunkX DEF request, offsets
<1>3. chan \in Channel /\ Channel \subseteq Nat /\ svrOutputOffset \in Nat
      /\ dwords[chan] \in Seq(WordChunk)
  BY ChannelsX DEF TypesX
<1>4. serverPos' = clientPos' + Displacement(chan)'
  <2>1. Displacement(chan)' = Displacement(chan) /\ Displacement(chan) \in Nat
    BY <1>2, <1>3 DEF Displacement
  <2>2. dwords[chan][cursor].size \in Nat
    BY <1>1, WordFacts
  <2> QED BY <1>1, <2>1, <2>2
<1>5. ASSUME NEW c \in Channel, c < chan'
      PROVE  (Settled(c) /\ \A i \in DOMAIN dwords[c] : Placed(c, i))'
  <2>1. c # chan /\ c < chan
    BY <1>2, <1>3, <1>5
  <2>2. dwords'[c] = dwords[c] /\ registers'[c] = registers[c]
    BY <1>2, <2>1, FrozenWords
  <2>3. Settled(c) /\ \A i \in DOMAIN dwords[c] : Placed(c, i)
    BY <1>1, <2>1 DEF PlacesInv
  <2> QED BY <1>2, <2>2, <2>3, PlacesKept
<1>6. ASSUME NEW i \in DOMAIN dwords'[chan'], i < cursor'  PROVE Placed(chan, i)'
  <2>1. i \in DOMAIN dwords[chan] /\ i \in Nat /\ cursor \in Nat
    BY <1>1, <1>2, <1>3, FrozenWords
  <2>2. CASE i = cursor
    <3>1. dwords'[chan][i] = Positioned(dwords[chan][cursor], WordClient, WordServer)
      BY <2>2, FrozenWords
    <3>a. dwords[chan][cursor] \in ChunkX
      BY <1>1, WordFacts
    <3>b. LET y == Positioned(dwords[chan][cursor], WordClient, WordServer) IN
          y.client = WordClient /\ y.server = WordServer
      BY <1>1, <3>a, PositionedX
    <3>2. dwords'[chan][i].client = WordClient /\ dwords'[chan][i].server = WordServer
      BY <3>1, <3>b
    <3>3. Displacement(chan)' = Displacement(chan)
      BY <1>2 DEF Displacement
    <3> QED BY <1>1, <1>2, <3>2, <3>3 DEF Placed
  <2>3. CASE i # cursor
    <3>1. i < cursor
      BY <1>1, <1>6, <2>1, <2>3
    <3>2. Placed(chan, i)
      BY <1>1, <2>1, <3>1 DEF PlacesInv
    <3>3. dwords'[chan][i] = dwords[chan][i]
      BY <2>1, <2>3, FrozenWords
    <3> QED BY <1>2, <1>3, <3>2, <3>3, PlacesKept
  <2> QED BY <2>2, <2>3
<1> QED BY <1>1, <1>2, <1>4, <1>5, <1>6 DEF PlacesInv, Frozen

(* The registers of a channel are settled with it, and the next channel    *)
(* starts at its displacement.                                             *)
LEMMA SettledChannel ==
  ASSUME TypesX, RegistersInv, FreezeChannel, NEW c \in Channel, c = chan
  PROVE  Settled(c)'
<1>1. /\ phase = "freeze" /\ sig' = sig
      /\ registers' = [registers EXCEPT ![chan] = FrozenRegisters(registers[chan])]
  BY DEF FreezeChannel, request
<1>2. registers \in [Channel -> Seq(ChunkX)] /\ chan \in Channel /\ registers[c] \in Seq(ChunkX)
  BY DEF TypesX
<1>3. registers'[c] = FrozenRegisters(registers[c])
  BY <1>1, <1>2
<1>4. /\ registers'[c] \in Seq(ChunkX) /\ Len(registers'[c]) = Len(registers[c])
      /\ \A i \in 1 .. Len(registers[c]) :
           registers'[c][i] = InRegister(registers[c][i], RegisterIndex(registers[c])[i], Shift)
  BY <1>2, <1>3, FrozenRegistersX
<1>5. Filled(c)
  BY <1>1 DEF RegistersInv, Moved
<1>6. ASSUME NEW i \in 1 .. Len(registers[c])
      PROVE  /\ registers'[c][i].clientIndex = Register(c, i)'
             /\ registers'[c][i].client = DopeSize + WordSize * Register(c, i)'
  <2>1. registers[c][i] \in ChunkX /\ Shift \in Int /\ RegisterIndex(registers[c])[i] \in Int
    <3>1. RegisterIndex(registers[c])[i] \in Int
      BY <1>2, RegisterIndexX
    <3> QED BY <1>2, <3>1, ShiftX
  <2>2. RegisterIndex(registers[c])[i] = Register(c, i)
    BY <1>2, <1>5, Indices
  <2>3. Register(c, i)' = Register(c, i)
    BY <1>1, <1>4 DEF Register, Reserved
  <2>4. registers'[c][i] = InRegister(registers[c][i], Register(c, i), Shift)
    BY <1>4, <2>2
  <2>5. LET y == InRegister(registers[c][i], Register(c, i), Shift) IN
        y.clientIndex = Register(c, i) /\ y.client = DopeSize + WordSize * Register(c, i)
    BY <2>1, <2>2, InRegisterX
  <2> QED BY <2>3, <2>4, <2>5
<1>7. DOMAIN registers'[c] = 1 .. Len(registers[c])
  BY <1>4
<1> QED BY <1>6, <1>7 DEF Settled

(* Freezing a channel completes it and starts the next one.                *)
LEMMA PlacesFreezeChannel == TypesX /\ RegistersInv /\ PlacesInv /\ FreezeChannel => PlacesInv'
<1> SUFFICES ASSUME TypesX, RegistersInv, PlacesInv, FreezeChannel  PROVE PlacesInv'
  OBVIOUS
<1>1. /\ phase = "freeze" /\ cursor > Len(dwords[chan]) /\ cursor' = 1
      /\ UNCHANGED <<sig, svrOutputOffset, dwords>>
      /\ registers' = [registers EXCEPT ![chan] = FrozenRegisters(registers[chan])]
      /\ clientPos' = HeaderSize /\ serverPos' = ServerStart(chan')
  BY DEF FreezeChannel, request, offsets
<1>2. /\ registers \in [Channel -> Seq(ChunkX)] /\ chan \in Channel /\ cursor \in Nat
      /\ dwords \in [Channel -> Seq(WordChunk)] /\ Channel = 0 .. NumExceptions + 1
      /\ NumExceptions \in Nat /\ svrOutputOffset \in Nat
  BY ConnectionXAssumption DEF TypesX, Channel
<1>3. ASSUME NEW c \in Channel, c <= chan
      PROVE  (Settled(c) /\ \A i \in DOMAIN dwords[c] : Placed(c, i))'
  <2>1. CASE c = chan
    <3>1. \A i \in DOMAIN dwords[c] : i < cursor
      BY <1>1, <1>2, <2>1
    <3>2. \A i \in DOMAIN dwords[c] : Placed(c, i)
      BY <1>1, <2>1, <3>1 DEF PlacesInv
    <3>3. \A i \in DOMAIN dwords'[c] : Placed(c, i)'
      BY <1>1, <3>2, PlacesKept
    <3> QED BY <2>1, <3>3, SettledChannel
  <2>2. CASE c # chan
    <3>1. c < chan
      BY <1>2, <1>3, <2>2
    <3>2. Settled(c) /\ \A i \in DOMAIN dwords[c] : Placed(c, i)
      BY <1>1, <3>1 DEF PlacesInv
    <3>3. registers'[c] = registers[c]
      BY <1>1, <1>2, <2>2
    <3> QED BY <1>1, <3>2, <3>3, PlacesKept
  <2> QED BY <2>1, <2>2
<1>4. PinsFree(registers[chan])
  <2>1. Filled(chan)
    BY <1>1, <1>2 DEF RegistersInv, Moved
  <2> QED BY <1>2, <2>1, Indices
<1>5. Advance("freeze", "restrict")
  BY <1>4 DEF FreezeChannel
<1>6. CASE chan = NumExceptions + 1
  <2>1. phase' = "restrict"
    BY <1>5, <1>6 DEF Advance
  <2>2. \A c \in Channel : c <= chan
    BY <1>2, <1>6
  <2> QED BY <1>3, <2>1, <2>2 DEF PlacesInv
<1>7. CASE chan # NumExceptions + 1
  <2>1. phase' = "freeze" /\ chan' = chan + 1
    BY <1>5, <1>7 DEF Advance
  <2>2. \A c \in Channel : c < chan' => c <= chan
    BY <1>2, <2>1
  <2>3. chan' \in Channel
    BY <1>2, <1>7, <2>1
  <2>4. serverPos' = clientPos' + Displacement(chan)'
    <3>1. HeaderSize \in Nat
      BY RequestSizes
    <3> QED BY <1>1, <1>2, <3>1 DEF Displacement, ServerStart
  <2>5. \A i \in DOMAIN dwords'[chan'] : ~(i < cursor')
    <3>1. dwords'[chan'] \in Seq(WordChunk)
      BY <1>1, <1>2, <2>3
    <3> QED BY <1>1, <3>1
  <2> QED BY <1>3, <2>1, <2>2, <2>4, <2>5 DEF PlacesInv, Frozen
<1> QED BY <1>6, <1>7

(* Restricting the server moves nothing.                                   *)
LEMMA PlacesRestrict == TypesX /\ PlacesInv /\ RestrictServer => PlacesInv'
<1> SUFFICES ASSUME TypesX, PlacesInv, RestrictServer  PROVE PlacesInv'
  OBVIOUS
<1>1. /\ phase = "restrict" /\ phase' = "finalize" /\ UNCHANGED <<sig, svrOutputOffset, dwords>>
      /\ \/ registers' = registers
         \/ registers' = [c \in Channel |-> Without(registers[c], KeptRegisters(c))]
  BY RestrictServerX DEF request, offsets
<1>2. registers \in [Channel -> Seq(ChunkX)]
  BY DEF TypesX
<1>3. ASSUME NEW c \in Channel
      PROVE  (Settled(c) /\ \A i \in DOMAIN dwords[c] : Placed(c, i))'
  <2>1. Settled(c) /\ \A i \in DOMAIN dwords[c] : Placed(c, i)
    BY <1>1 DEF PlacesInv, Frozen
  <2>2. \A i \in DOMAIN dwords'[c] : Placed(c, i)'
    BY <1>1, <2>1, PlacesKept
  <2>3. registers[c] \in Seq(ChunkX)
    BY <1>2
  <2>4. CASE registers'[c] = registers[c]
    BY <1>1, <2>1, <2>2, <2>4, PlacesKept
  <2>5. CASE registers'[c] = Without(registers[c], KeptRegisters(c))
    <3>1. /\ registers'[c] \in Seq(ChunkX) /\ Len(registers'[c]) = Len(registers[c])
          /\ \A i \in 1 .. Len(registers[c]) :
               registers'[c][i] = IF i \in KeptRegisters(c) THEN registers[c][i]
                                  ELSE Unallocated(registers[c][i])
      BY <2>3, <2>5, WithoutX
    <3>2. ASSUME NEW i \in 1 .. Len(registers[c])
          PROVE  /\ registers'[c][i].clientIndex = registers[c][i].clientIndex
                 /\ registers'[c][i].client = registers[c][i].client
                 /\ Register(c, i)' = Register(c, i)
      <4>1. registers[c][i] \in ChunkX
        BY <2>3
      <4>2. Register(c, i)' = Register(c, i)
        BY <1>1, <3>1 DEF Register, Reserved
      <4>3. LET y == Unallocated(registers[c][i]) IN
            y.clientIndex = registers[c][i].clientIndex /\ y.client = registers[c][i].client
        BY <4>1, UnallocatedX
      <4> QED BY <3>1, <4>2, <4>3
    <3>3. DOMAIN registers'[c] = 1 .. Len(registers[c]) /\ DOMAIN registers[c] = 1 .. Len(registers[c])
      BY <2>3, <3>1
    <3>4. Settled(c)'
      BY <2>1, <3>2, <3>3 DEF Settled
    <3> QED BY <2>2, <3>4
  <2> QED BY <1>1, <2>4, <2>5
<1> QED BY <1>1, <1>3 DEF PlacesInv

(* Neither does placing the strings.                                       *)
LEMMA PlacesFinalize == PlacesInv /\ Finalize => PlacesInv'
<1> SUFFICES ASSUME PlacesInv, Finalize  PROVE PlacesInv'
  OBVIOUS
<1>1. /\ phase \in Frozen /\ phase' = "done" /\ UNCHANGED <<sig, svrOutputOffset, dwords, registers>>
  BY DEF Finalize, Frozen, request, offsets
<1> QED BY <1>1, PlacesKept DEF PlacesInv

(* Nothing is placed before the words are frozen.                          *)
LEMMA PlacesLater == phase' \notin Frozen \cup {"freeze"} => PlacesInv'
  BY DEF PlacesInv, Frozen

(* None of the calls and loops before can fail.                            *)
LEMMA PhaseBefore ==
  ASSUME TypesX, RegistersInv, Marshal \/ FillRegisters \/ PlaceReply
  PROVE  phase' \notin Frozen \cup {"freeze"} /\ NoFailure' /\ (phase' = "pad" => PlaceReply)
<1>1. chan \in Channel
  BY DEF TypesX
<1>2. CASE Marshal \/ AddDopes \/ AddVarbufs \/ ReserveRegister \/ MoveMap
  <2>1. phase' \in {"marshal", "varbufs", "reserve", "maps"}
    BY <1>2 DEF Marshal, SetOption, MarshalExceptionCode, GetFixedCopyChunk, GetStringChunk,
       GetVarbufChunk, GetMapChunk, Marshalling, AddDopes, AddVarbufs, ReserveRegister, MoveMap
  <2> QED BY <2>1 DEF Frozen, NoFailure
<1>3. CASE PadMaps
  <2>1. phase' \in {"reserve", "align"}
    BY <1>1, <1>3, PadMapsX, AdvanceX
  <2> QED BY <2>1 DEF Frozen, NoFailure
<1>4. CASE MeasureAlignment \/ MoveInout \/ EndInouts
  <2>1. phase' \in {"inout", "scan"}
    BY <1>4 DEF MeasureAlignment, MoveInout, EndInouts
  <2> QED BY <2>1 DEF Frozen, NoFailure
<1>5. CASE ShareRegister \/ TakeRegister \/ PassChunk
  <2>1. phase' = "scan"
    BY <1>5 DEF ShareRegister, TakeRegister, PassChunk, TakeScanned, Scanning
  <2> QED BY <2>1 DEF Frozen, NoFailure
<1>6. CASE MergeRegisters
  <2>1. Advance("scan", "offset")
    BY <1>6 DEF MergeRegisters
  <2>2. phase' \in {"scan", "offset"}
    BY <1>1, <2>1, AdvanceX
  <2> QED BY <2>2 DEF Frozen, NoFailure
<1>7. CASE PlaceReply
  <2>1. phase' = "pad"
    BY <1>7, OffsetX
  <2> QED BY <1>7, <2>1 DEF Frozen, NoFailure
<1> QED BY <1>2, <1>3, <1>4, <1>5, <1>6, <1>7 DEF FillRegisters

(* Every step keeps what is frozen in its place.                           *)
LEMMA PlacesStep ==
  TypesX /\ LoopsX /\ AlignInv /\ RegistersInv /\ PlacesInv /\ [Next]_vars => PlacesInv'
<1> SUFFICES ASSUME TypesX, LoopsX, AlignInv, RegistersInv, PlacesInv, [Next]_vars
             PROVE  PlacesInv'
  OBVIOUS
<1>1. CASE UNCHANGED vars
  BY <1>1 DEF vars, lists, request, offsets, place, PlacesInv, Settled, Register, Reserved,
     Placed, Displacement
<1>2. CASE Finished
  BY <1>1, <1>2 DEF Finished
<1>3. CASE Marshal \/ FillRegisters \/ PlaceReply
  BY <1>3, PhaseBefore, PlacesLater
<1> QED BY <1>1, <1>2, <1>3, PlacesPadStrings, PlacesFreezeChunk, PlacesFreezeChannel,
           PlacesRestrict, PlacesFinalize DEF Next, Freeze

(* Neither can freezing: aligning a word on the server never misaligns it  *)
(* on the client, and no identifier is pinned to a register that is taken. *)
LEMMA FailureStep ==
  TypesX /\ AlignInv /\ RegistersInv /\ PlacesInv /\ NoFailure /\ [Next]_vars => NoFailure'
<1> SUFFICES ASSUME TypesX, AlignInv, RegistersInv, PlacesInv, NoFailure, [Next]_vars
             PROVE  NoFailure'
  OBVIOUS
<1>1. CASE UNCHANGED vars
  BY <1>1 DEF vars, NoFailure
<1>2. CASE Finished
  BY <1>1, <1>2 DEF Finished
<1>3. CASE Marshal \/ FillRegisters \/ PlaceReply
  BY <1>3, PhaseBefore
<1>4. CASE PadStrings \/ RestrictServer \/ Finalize
  BY <1>4 DEF PadStrings, RestrictServer, Finalize, NoFailure
<1>5. CASE FreezeChunk
  BY <1>5, ChunkPlaced DEF NoFailure
<1>6. CASE FreezeChannel
  <2>1. phase = "freeze" /\ chan \in Channel
    BY <1>6 DEF FreezeChannel, TypesX
  <2>2. Filled(chan)
    BY <2>1 DEF RegistersInv, Moved
  <2>3. PinsFree(registers[chan])
    BY <2>1, <2>2, Indices
  <2>4. Advance("freeze", "restrict")
    BY <1>6, <2>3 DEF FreezeChannel
  <2>5. phase' \in {"freeze", "restrict"}
    BY <2>1, <2>4, AdvanceX
  <2> QED BY <2>5 DEF NoFailure
<1> QED BY <1>1, <1>2, <1>3, <1>4, <1>5, <1>6 DEF Next, Freeze

-----------------------------------------------------------------------------
(* How often a value is in a list                                          *)

(* How often a sequence has an element.                                    *)
Occurrences(s, v) == Cardinality({i \in DOMAIN s : s[i] = v})

(* The values in a chunk, and how often it has one.                        *)
MemberIds(x) == [k \in DOMAIN MembersOf(x) |-> MembersOf(x)[k].id]
Hits(x, id) == Occurrences(MemberIds(x), id)

(* How often a list of chunks has a value.                                 *)
Held(list, id) ==
  LET sum[i \in 0 .. Len(list)] == IF i = 0 THEN 0 ELSE sum[i - 1] + Hits(list[i], id)
  IN  sum[Len(list)]

(* A sequence has an element some number of times.                         *)
LEMMA OccurrencesType ==
  ASSUME NEW S, NEW s \in Seq(S), NEW v
  PROVE  /\ IsFiniteSet({i \in DOMAIN s : s[i] = v})
         /\ Occurrences(s, v) \in Nat
<1> DEFINE P == {i \in DOMAIN s : s[i] = v}
<1>1. IsFiniteSet(1 .. Len(s)) /\ P \in SUBSET (1 .. Len(s))
  BY UpToCardinality
<1> HIDE DEF P
<1>2. IsFiniteSet(P) /\ Cardinality(P) \in Nat
  BY <1>1, FS_Subset, FS_CardinalityType
<1> QED BY <1>2 DEF Occurrences, P

(* As many elements as there are places they have moved to.                *)
LEMMA SameNumber ==
  ASSUME NEW P, IsFiniteSet(P), NEW Q, NEW f \in [P -> Q],
         \A i, j \in P : f[i] = f[j] => i = j,
         \A k \in Q : \E i \in P : f[i] = k
  PROVE  IsFiniteSet(Q) /\ Cardinality(Q) = Cardinality(P)
<1>1. f \in Bijection(P, Q)
  BY DEF Bijection, Injection, Surjection, IsInjective
<1>2. ExistsBijection(P, Q)
  BY <1>1 DEF ExistsBijection
<1> QED BY <1>2, FS_Bijection

(* A sequence made of two has an element as often as both.                 *)
LEMMA OccurrencesOfBoth ==
  ASSUME NEW S, NEW s \in Seq(S), NEW t \in Seq(S), NEW v
  PROVE  Occurrences(s \o t, v) = Occurrences(s, v) + Occurrences(t, v)
<1> DEFINE n == Len(s)
           m == Len(t)
           both == s \o t
           P == {i \in DOMAIN s : s[i] = v}
           R == {i \in DOMAIN t : t[i] = v}
           B == {i \in DOMAIN both : both[i] = v}
           Q == B \ P
           f == [i \in R |-> n + i]
<1>1. n \in Nat /\ m \in Nat /\ DOMAIN s = 1 .. n /\ DOMAIN t = 1 .. m
  OBVIOUS
<1>2. /\ both \in Seq(S) /\ Len(both) = n + m
      /\ \A i \in 1 .. n : both[i] = s[i]
      /\ \A i \in 1 .. m : both[n + i] = t[i]
  BY ConcatElements
<1> HIDE DEF both, n, m
<1>3. DOMAIN both = 1 .. n + m
  BY <1>2
<1>4. P \in SUBSET (1 .. n) /\ \A i \in 1 .. n : i \in P <=> s[i] = v
  BY <1>1
<1>5. R \in SUBSET (1 .. m) /\ \A i \in 1 .. m : i \in R <=> t[i] = v
  BY <1>1
<1>6. B \in SUBSET (1 .. n + m) /\ \A i \in 1 .. n + m : i \in B <=> both[i] = v
  BY <1>3
<1>7. /\ IsFiniteSet(P) /\ Occurrences(s, v) = Cardinality(P) /\ Cardinality(P) \in Nat
      /\ IsFiniteSet(R) /\ Occurrences(t, v) = Cardinality(R) /\ Cardinality(R) \in Nat
  BY OccurrencesType DEF Occurrences
<1>8. IsFiniteSet(B) /\ Occurrences(both, v) = Cardinality(B)
  BY <1>2, OccurrencesType DEF Occurrences
<1> HIDE DEF P, R, B
<1>9. \A i \in 1 .. n : i \in 1 .. n + m /\ (i \in B <=> i \in P)
  BY <1>1, <1>2, <1>4, <1>6
<1>10. \A i \in 1 .. m : n + i \in 1 .. n + m /\ n + i \notin 1 .. n /\ (n + i \in B <=> i \in R)
  <2> TAKE i \in 1 .. m
  <2>1. n + i \in 1 .. n + m /\ n + i \notin 1 .. n
    BY <1>1
  <2> QED BY <1>2, <1>5, <1>6, <2>1
<1>11. P \subseteq B
  BY <1>4, <1>9
<1>12. \A i \in Q : i \in 1 .. n + m /\ i \notin 1 .. n
  BY <1>6, <1>9
<1>13. f \in [R -> Q]
  BY <1>4, <1>5, <1>10
<1>14. \A i, j \in R : f[i] = f[j] => i = j
  BY <1>1, <1>5
<1>15. ASSUME NEW k \in Q  PROVE \E i \in R : f[i] = k
  <2>1. k - n \in 1 .. m /\ k = n + (k - n)
    BY <1>1, <1>12
  <2>2. k - n \in R
    BY <1>10, <2>1
  <2> QED BY <2>1, <2>2
<1> HIDE DEF f
<1>16. IsFiniteSet(Q) /\ Cardinality(Q) = Cardinality(R)
  <2> HIDE DEF Q
  <2> QED BY <1>7, <1>13, <1>14, <1>15, SameNumber
<1>17. Cardinality(P \cup Q) = Cardinality(P) + Cardinality(Q) - Cardinality(P \cap Q)
  BY <1>7, <1>16, FS_Union
<1>18. P \cup Q = B /\ P \cap Q = {}
  BY <1>11
<1>19. Cardinality({}) = 0
  BY FS_EmptySet
<1>20. Cardinality(P \cap Q) = 0 /\ Occurrences(both, v) = Cardinality(P \cup Q)
  BY <1>8, <1>18, <1>19
<1> HIDE DEF Q
<1> QED BY <1>7, <1>16, <1>17, <1>20 DEF both

(* What the values of a chunk are.                                         *)
LEMMA MemberIdsX ==
  ASSUME NEW x \in ChunkX
  PROVE  /\ MemberIds(x) \in Seq(Number)
         /\ x.part # "shared" => MemberIds(x) = <<x.id>>
         /\ x.part = "shared" => MembersOf(x) = x.members
         /\ MembersOf(x) \in Seq(Member)
<1>1. /\ x.members \in Seq(Member) /\ x.id \in Number /\ x.part \in Parts /\ x.size \in Nat
      /\ x.align \in Alignments
  BY DEF ChunkX
<1> DEFINE m == [id |-> x.id, part |-> x.part, size |-> x.size, align |-> x.align]
<1>2. m \in Member /\ m.id = x.id
  BY <1>1 DEF Member
<1> HIDE DEF m
<1>3. MembersOf(x) = IF x.part = "shared" THEN x.members ELSE <<m>>
  BY DEF MembersOf, m
<1>4. MembersOf(x) \in Seq(Member)
  BY <1>1, <1>2, <1>3
<1>5. MemberIds(x) \in Seq(Number)
  <2>1. ASSUME NEW k \in DOMAIN MembersOf(x)  PROVE MembersOf(x)[k].id \in Number
    <3>1. MembersOf(x)[k] \in Member
      BY <1>4
    <3> QED BY <3>1 DEF Member
  <2>2. DOMAIN MembersOf(x) = 1 .. Len(MembersOf(x)) /\ Len(MembersOf(x)) \in Nat
    BY <1>4
  <2> QED BY <2>1, <2>2 DEF MemberIds
<1>6. x.part # "shared" => MemberIds(x) = <<x.id>>
  <2> SUFFICES ASSUME x.part # "shared"  PROVE MemberIds(x) = <<x.id>>
    OBVIOUS
  <2>1. MembersOf(x) = <<m>>
    BY <1>3
  <2>2. DOMAIN <<m>> = {1} /\ <<m>>[1] = m
    OBVIOUS
  <2>3. MemberIds(x) = [k \in {1} |-> x.id]
    BY <1>2, <2>1, <2>2 DEF MemberIds
  <2> QED BY <2>3
<1> QED BY <1>3, <1>4, <1>5, <1>6

(* A chunk that is not shared has one value.                               *)
LEMMA HitsOfOne ==
  ASSUME NEW x \in ChunkX, NEW id
  PROVE  /\ Hits(x, id) \in Nat
         /\ x.part # "shared" => Hits(x, id) = IF x.id = id THEN 1 ELSE 0
<1>1. MemberIds(x) \in Seq(Number) /\ (x.part # "shared" => MemberIds(x) = <<x.id>>)
  BY MemberIdsX
<1>2. Hits(x, id) \in Nat
  BY <1>1, OccurrencesType DEF Hits
<1>3. ASSUME x.part # "shared"  PROVE Hits(x, id) = IF x.id = id THEN 1 ELSE 0
  <2>1. DOMAIN <<x.id>> = {1} /\ <<x.id>>[1] = x.id
    OBVIOUS
  <2>2. {i \in DOMAIN <<x.id>> : <<x.id>>[i] = id} = IF x.id = id THEN {1} ELSE {}
    BY <2>1
  <2>3. Cardinality({1}) = 1 /\ Cardinality({}) = 0
    BY FS_EmptySet, FS_Singleton
  <2>4. Hits(x, id) = Cardinality(IF x.id = id THEN {1} ELSE {})
    BY <1>1, <1>3, <2>2 DEF Hits, Occurrences
  <2> QED BY <2>3, <2>4
<1> QED BY <1>2, <1>3

(* Chunks of the same values.                                              *)
Same(x, y) == y.id = x.id /\ y.part = x.part /\ y.members = x.members

(* They have each as often.                                                *)
LEMMA HitsOfSame ==
  ASSUME NEW x \in ChunkX, NEW y \in ChunkX, Same(x, y), NEW id
  PROVE  Hits(y, id) = Hits(x, id)
<1>1. CASE x.part = "shared"
  <2>1. MembersOf(x) = x.members /\ MembersOf(y) = x.members
    BY <1>1 DEF MembersOf, Same
  <2> QED BY <2>1 DEF Hits, MemberIds
<1>2. CASE x.part # "shared"
  BY <1>2, HitsOfOne DEF Same
<1> QED BY <1>1, <1>2

(* A shared register has the values of both chunks.                        *)
LEMMA HitsOfShared ==
  ASSUME NEW low \in ChunkX, NEW high \in ChunkX, NEW id
  PROVE  Hits(Shared(low, high), id) = Hits(low, id) + Hits(high, id)
<1> DEFINE x == Shared(low, high)
           s == MembersOf(low)
           t == MembersOf(high)
<1>1. s \in Seq(Member) /\ t \in Seq(Member)
  BY MemberIdsX
<1>2. MembersOf(x) = s \o t
  BY DEF Shared, MembersOf, Chunk
<1> HIDE DEF s, t, x
<1>3. /\ s \o t \in Seq(Member) /\ Len(s \o t) = Len(s) + Len(t)
      /\ \A i \in 1 .. Len(s) : (s \o t)[i] = s[i]
      /\ \A i \in 1 .. Len(t) : (s \o t)[Len(s) + i] = t[i]
  BY <1>1, ConcatElements
<1> DEFINE a == MemberIds(low)
           b == MemberIds(high)
<1>4. /\ a \in Seq(Number) /\ Len(a) = Len(s) /\ \A i \in 1 .. Len(s) : a[i] = s[i].id
      /\ b \in Seq(Number) /\ Len(b) = Len(t) /\ \A i \in 1 .. Len(t) : b[i] = t[i].id
      /\ Len(s) \in Nat /\ Len(t) \in Nat
  <2>1. a \in Seq(Number) /\ b \in Seq(Number)
    BY MemberIdsX
  <2>2. a = [k \in DOMAIN s |-> s[k].id] /\ b = [k \in DOMAIN t |-> t[k].id]
    BY DEF MemberIds, s, t
  <2>3. DOMAIN s = 1 .. Len(s) /\ DOMAIN t = 1 .. Len(t) /\ Len(s) \in Nat /\ Len(t) \in Nat
    BY <1>1
  <2> HIDE DEF a, b
  <2>4. DOMAIN a = 1 .. Len(s) /\ DOMAIN b = 1 .. Len(t)
    BY <2>2, <2>3
  <2>5. Len(a) = Len(s) /\ Len(b) = Len(t)
    BY <2>1, <2>3, <2>4
  <2> QED BY <2>1, <2>2, <2>3, <2>5
<1> HIDE DEF a, b
<1>5. /\ a \o b \in Seq(Number) /\ Len(a \o b) = Len(a) + Len(b)
      /\ \A i \in 1 .. Len(a) : (a \o b)[i] = a[i]
      /\ \A i \in 1 .. Len(b) : (a \o b)[Len(a) + i] = b[i]
  <2>1. a \in Seq(Number) /\ b \in Seq(Number)
    BY <1>4
  <2> QED BY <2>1, ConcatElements
<1>6. MemberIds(x) = a \o b
  <2>1. MemberIds(x) = [k \in DOMAIN (s \o t) |-> (s \o t)[k].id]
    BY <1>2 DEF MemberIds
  <2>2. DOMAIN (s \o t) = 1 .. Len(s) + Len(t) /\ DOMAIN (a \o b) = 1 .. Len(s) + Len(t)
    BY <1>3, <1>4, <1>5
  <2>3. ASSUME NEW k \in 1 .. Len(s) + Len(t)  PROVE (s \o t)[k].id = (a \o b)[k]
    <3>1. CASE k <= Len(s)
      <4>1. k \in 1 .. Len(s)
        BY <1>4, <3>1
      <4> QED BY <1>3, <1>4, <1>5, <4>1
    <3>2. CASE k > Len(s)
      <4>1. k - Len(s) \in 1 .. Len(t) /\ Len(s) + (k - Len(s)) = k
        BY <1>4, <3>2
      <4>2. (s \o t)[k] = t[k - Len(s)]
        BY <1>3, <4>1
      <4>3. (a \o b)[k] = b[k - Len(s)]
        BY <1>4, <1>5, <4>1
      <4> QED BY <1>4, <4>1, <4>2, <4>3
    <3> QED BY <1>4, <3>1, <3>2
  <2>4. a \o b = [k \in 1 .. Len(s) + Len(t) |-> (a \o b)[k]]
    <3> DEFINE z == a \o b
    <3>1. z \in Seq(Number) /\ DOMAIN z = 1 .. Len(s) + Len(t)
      BY <1>5, <2>2
    <3> HIDE DEF z
    <3>2. z = [k \in DOMAIN z |-> z[k]]
      BY <3>1
    <3> QED BY <3>1, <3>2 DEF z
  <2> HIDE DEF x
  <2> QED BY <2>1, <2>2, <2>3, <2>4
<1>7. Occurrences(a \o b, id) = Occurrences(a, id) + Occurrences(b, id)
  BY <1>4, OccurrencesOfBoth
<1> QED BY <1>6, <1>7 DEF Hits, a, b, x

-----------------------------------------------------------------------------
(* Lists that change                                                       *)

(* sum counts a value from the front of the list on.                       *)
Counting(list, id, sum) ==
  /\ sum \in [0 .. Len(list) -> Nat]
  /\ sum[0] = 0
  /\ \A i \in 1 .. Len(list) : sum[i] = sum[i - 1] + Hits(list[i], id)

(* A value can be counted so.                                              *)
LEMMA HeldCounts ==
  ASSUME NEW list \in Seq(ChunkX), NEW id
  PROVE  \E sum : Counting(list, id, sum) /\ Held(list, id) = sum[Len(list)]
<1> DEFINE n == Len(list)
           Def(f) == [i \in 0 .. n |-> IF i = 0 THEN 0 ELSE f[i - 1] + Hits(list[i], id)]
           sum == CHOOSE f : f = Def(f)
           step == [i \in 1 .. n |-> [v \in Nat |-> v + Hits(list[i], id)]]
<1>1. n \in Nat /\ \A i \in 1 .. n : Hits(list[i], id) \in Nat
  <2> SUFFICES ASSUME NEW i \in 1 .. n  PROVE Hits(list[i], id) \in Nat
    OBVIOUS
  <2>1. list[i] \in ChunkX
    OBVIOUS
  <2> QED BY <2>1, HitsOfOne
<1>2. step \in [1 .. n -> [Nat -> Nat]]
  BY <1>1
<1>3. PICK f : Follows(f, Nat, n, 0, step)
  <2> HIDE DEF step, n
  <2>1. 0 \in Nat
    OBVIOUS
  <2> QED BY <1>1, <1>2, <2>1, RecursiveFunction, Zenon
<1>4. f = Def(f)
  <2>1. ASSUME NEW i \in 1 .. n  PROVE f[i] = f[i - 1] + Hits(list[i], id)
    <3>1. i - 1 \in 0 .. n
      BY <1>1
    <3>2. f[i - 1] \in Nat
      BY <1>3, <3>1 DEF Follows
    <3>3. step[i][f[i - 1]] = f[i - 1] + Hits(list[i], id)
      BY <3>2
    <3> QED BY <1>3, <3>3 DEF Follows
  <2> QED BY <1>1, <1>3, <2>1 DEF Follows
<1>5. sum = Def(sum)
  <2> HIDE DEF Def
  <2> QED BY <1>4
<1>6. Held(list, id) = sum[n]
  BY DEF Held
<1> HIDE DEF sum
<1>7. sum[0] = 0 /\ \A i \in 1 .. n : sum[i] = sum[i - 1] + Hits(list[i], id)
  BY <1>1, <1>5
<1> DEFINE G == {i \in 0 .. n : sum[i] \in Nat}
<1>8. ASSUME NEW i \in 0 .. n - 1, i \in G  PROVE i + 1 \in G
  <2>1. i + 1 \in 0 .. n /\ (i + 1) - 1 = i /\ i + 1 \in 1 .. n
    BY <1>1
  <2>2. sum[i + 1] = sum[i] + Hits(list[i + 1], id)
    BY <1>7, <2>1
  <2> QED BY <1>1, <1>8, <2>1, <2>2
<1>9. 0 .. n \subseteq G
  <2> HIDE DEF n
  <2>1. 0 \in G
    BY <1>1, <1>7
  <2> HIDE DEF G
  <2> QED BY <1>1, <1>8, <2>1, UpToInduction
<1>10. sum \in [0 .. n -> Nat]
  BY <1>5, <1>9
<1> QED BY <1>6, <1>7, <1>10 DEF Counting

(* A list has a value some number of times.                                *)
LEMMA HeldType ==
  ASSUME NEW list \in Seq(ChunkX), NEW id
  PROVE  Held(list, id) \in Nat
<1>1. PICK sum : Counting(list, id, sum) /\ Held(list, id) = sum[Len(list)]
  BY HeldCounts
<1>2. Len(list) \in 0 .. Len(list)
  OBVIOUS
<1> QED BY <1>1, <1>2 DEF Counting

(* Nothing is in the empty list.                                           *)
LEMMA HeldNothing == \A id : Held(<<>>, id) = 0
<1> TAKE id
<1>1. <<>> \in Seq(ChunkX) /\ Len(<<>>) = 0
  OBVIOUS
<1>2. PICK sum : Counting(<<>>, id, sum) /\ Held(<<>>, id) = sum[Len(<<>>)]
  BY <1>1, HeldCounts
<1> QED BY <1>1, <1>2 DEF Counting

(* A list with one chunk more has its values, too.                         *)
LEMMA HeldInserted ==
  ASSUME NEW list \in Seq(ChunkX), NEW more \in Seq(ChunkX), NEW at \in 1 .. Len(list) + 1,
         Len(more) = Len(list) + 1,
         \A i \in 1 .. at - 1 : more[i] = list[i],
         \A i \in at .. Len(list) : more[i + 1] = list[i], NEW id
  PROVE  Held(more, id) = Held(list, id) + Hits(more[at], id)
<1> DEFINE n == Len(list)
           h == Hits(more[at], id)
<1>1. PICK f : Counting(list, id, f) /\ Held(list, id) = f[n]
  BY HeldCounts
<1>2. PICK g : Counting(more, id, g) /\ Held(more, id) = g[n + 1]
  BY HeldCounts
<1>3. n \in Nat /\ at \in 1 .. n + 1 /\ Len(more) = n + 1
  OBVIOUS
<1>4. /\ \A i \in 1 .. at - 1 : more[i] = list[i]
      /\ \A i \in at .. n : more[i + 1] = list[i]
  OBVIOUS
<1>5. h \in Nat
  <2>1. more[at] \in ChunkX
    BY <1>3
  <2> QED BY <2>1, HitsOfOne
<1>6. /\ f \in [0 .. n -> Nat] /\ f[0] = 0
      /\ \A i \in 1 .. n : f[i] = f[i - 1] + Hits(list[i], id)
  BY <1>1 DEF Counting
<1>7. /\ g \in [0 .. n + 1 -> Nat] /\ g[0] = 0
      /\ \A i \in 1 .. n + 1 : g[i] = g[i - 1] + Hits(more[i], id)
  BY <1>2, <1>3 DEF Counting
<1>8. g[at] = g[at - 1] + h
  BY <1>3, <1>7
<1> HIDE DEF n, h
<1> DEFINE G == {i \in 0 .. n : /\ i < at => g[i] = f[i]
                                /\ i >= at - 1 => g[i + 1] = f[i] + h}
<1>9. 0 \in G
  <2>1. 0 >= at - 1 => at = 1 /\ 0 + 1 = at /\ at - 1 = 0
    BY <1>3
  <2> QED BY <1>3, <1>6, <1>7, <1>8, <2>1
<1>10. ASSUME NEW i \in 0 .. n - 1, i \in G  PROVE i + 1 \in G
  <2>1. i + 1 \in 1 .. n /\ (i + 1) - 1 = i /\ i \in 0 .. n /\ i + 1 \in 0 .. n
    BY <1>3
  <2>2. f[i + 1] = f[i] + Hits(list[i + 1], id)
    BY <1>6, <2>1
  <2>3. ASSUME i + 1 < at  PROVE g[i + 1] = f[i + 1]
    <3>1. i < at /\ i + 1 \in 1 .. at - 1 /\ i + 1 \in 1 .. n + 1
      BY <1>3, <2>1, <2>3
    <3>2. g[i + 1] = g[i] + Hits(more[i + 1], id)
      BY <1>7, <2>1, <3>1
    <3>3. more[i + 1] = list[i + 1] /\ g[i] = f[i]
      BY <1>4, <1>10, <3>1
    <3> QED BY <2>2, <3>2, <3>3
  <2>4. ASSUME i + 1 >= at - 1  PROVE g[(i + 1) + 1] = f[i + 1] + h
    <3>1. CASE i + 1 = at - 1
      <4>1. (i + 1) + 1 = at /\ i + 1 < at
        BY <1>3, <3>1
      <4>2. g[i + 1] = f[i + 1]
        BY <2>3, <4>1
      <4> QED BY <1>8, <3>1, <4>1, <4>2
    <3>2. CASE i + 1 >= at
      <4>1. /\ i >= at - 1 /\ i + 1 \in at .. n /\ (i + 1) + 1 \in 1 .. n + 1
            /\ ((i + 1) + 1) - 1 = i + 1
        BY <1>3, <2>1, <3>2
      <4>2. g[i + 1] = f[i] + h
        BY <1>10, <4>1
      <4>3. g[(i + 1) + 1] = g[i + 1] + Hits(more[(i + 1) + 1], id)
        BY <1>7, <4>1
      <4>4. more[(i + 1) + 1] = list[i + 1]
        BY <1>4, <4>1
      <4>5. Hits(list[i + 1], id) \in Nat
        <5>1. list[i + 1] \in ChunkX
          BY <2>1 DEF n
        <5> QED BY <5>1, HitsOfOne
      <4>6. f[i] \in Nat
        BY <1>6, <2>1
      <4> QED BY <1>5, <2>2, <4>2, <4>3, <4>4, <4>5, <4>6
    <3> QED BY <1>3, <2>1, <2>4, <3>1, <3>2
  <2> QED BY <2>1, <2>3, <2>4
<1>11. 0 .. n \subseteq G
  <2> HIDE DEF G
  <2> QED BY <1>3, <1>9, <1>10, UpToInduction
<1>12. g[n + 1] = f[n] + h
  <2>1. n \in 0 .. n /\ n >= at - 1
    BY <1>3
  <2>2. n \in G
    BY <1>11, <2>1
  <2> QED BY <2>1, <2>2
<1> QED BY <1>1, <1>2, <1>12 DEF n, h

(* Lists of chunks with the same values.                                   *)
LEMMA HeldSame ==
  ASSUME NEW list \in Seq(ChunkX), NEW other \in Seq(ChunkX), Len(other) = Len(list),
         \A i \in 1 .. Len(list) : Same(list[i], other[i]), NEW id
  PROVE  Held(other, id) = Held(list, id)
<1> DEFINE n == Len(list)
<1>1. PICK f : Counting(list, id, f) /\ Held(list, id) = f[n]
  BY HeldCounts
<1>2. PICK g : Counting(other, id, g) /\ Held(other, id) = g[n]
  BY HeldCounts
<1>3. n \in Nat
  OBVIOUS
<1>4. \A i \in 1 .. n : Hits(other[i], id) = Hits(list[i], id)
  <2> SUFFICES ASSUME NEW i \in 1 .. n  PROVE Hits(other[i], id) = Hits(list[i], id)
    OBVIOUS
  <2>1. list[i] \in ChunkX /\ other[i] \in ChunkX /\ Same(list[i], other[i])
    OBVIOUS
  <2> QED BY <2>1, HitsOfSame
<1>5. /\ f[0] = 0 /\ \A i \in 1 .. n : f[i] = f[i - 1] + Hits(list[i], id)
      /\ g[0] = 0 /\ \A i \in 1 .. n : g[i] = g[i - 1] + Hits(other[i], id)
  BY <1>1, <1>2 DEF Counting
<1> HIDE DEF n
<1> DEFINE G == {i \in 0 .. n : g[i] = f[i]}
<1>6. 0 \in G
  BY <1>3, <1>5
<1>7. ASSUME NEW i \in 0 .. n - 1, i \in G  PROVE i + 1 \in G
  <2>1. i + 1 \in 1 .. n /\ (i + 1) - 1 = i /\ i + 1 \in 0 .. n
    BY <1>3
  <2>2. /\ f[i + 1] = f[i] + Hits(list[i + 1], id)
        /\ g[i + 1] = g[i] + Hits(other[i + 1], id)
    BY <1>5, <2>1
  <2> QED BY <1>4, <1>7, <2>1, <2>2
<1>8. 0 .. n \subseteq G
  <2> HIDE DEF G
  <2> QED BY <1>3, <1>6, <1>7, UpToInduction
<1>9. n \in 0 .. n
  BY <1>3
<1> QED BY <1>1, <1>2, <1>8, <1>9 DEF n

(* A chunk added by priority.                                              *)
LEMMA HeldAdded ==
  ASSUME NEW list \in Seq(ChunkX), NEW elem \in ChunkX, NEW prio \in Nat, NEW id
  PROVE  /\ AddWithPrio(list, elem, prio) \in Seq(ChunkX)
         /\ Held(AddWithPrio(list, elem, prio), id) = Held(list, id) + Hits(elem, id)
<1> DEFINE put == Prioritized(elem, prio)
           at == PrioPosition(list, prio)
           added == AddWithPrio(list, elem, prio)
<1>1. put \in ChunkX /\ Same(elem, put)
  <2>1. put \in ChunkX /\ put.id = elem.id /\ put.part = elem.part
    BY PrioritizedX
  <2>2. put.members = elem.members
    BY DEF Prioritized, ChunkX
  <2> QED BY <2>1, <2>2 DEF Same
<1>2. /\ at \in 1 .. Len(list) + 1 /\ added \in Seq(ChunkX) /\ Len(added) = Len(list) + 1
      /\ \A i \in 1 .. at - 1 : added[i] = list[i]
      /\ added[at] = put
      /\ \A i \in at .. Len(list) : added[i + 1] = list[i]
  BY <1>1, AddedElements
<1> HIDE DEF put, at, added
<1>3. Held(added, id) = Held(list, id) + Hits(added[at], id)
  BY <1>2, HeldInserted, SMTT(60)
<1>4. Hits(put, id) = Hits(elem, id)
  BY <1>1, HitsOfSame
<1> QED BY <1>2, <1>3, <1>4 DEF added

(* A chunk added at the end.                                               *)
LEMMA HeldAppended ==
  ASSUME NEW list \in Seq(ChunkX), NEW elem \in ChunkX, NEW id
  PROVE  Held(AddLast(list, elem), id) = Held(list, id) + Hits(elem, id)
<1> DEFINE n == Len(list)
           added == Append(list, elem)
<1>1. /\ n \in Nat /\ added \in Seq(ChunkX) /\ Len(added) = n + 1 /\ added[n + 1] = elem
      /\ \A i \in 1 .. n : added[i] = list[i]
  OBVIOUS
<1>2. /\ n + 1 \in 1 .. n + 1
      /\ \A i \in 1 .. (n + 1) - 1 : added[i] = list[i]
      /\ \A i \in n + 1 .. n : FALSE
  BY <1>1
<1> HIDE DEF added
<1>3. Held(added, id) = Held(list, id) + Hits(added[n + 1], id)
  BY <1>1, <1>2, HeldInserted, SMTT(60)
<1> QED BY <1>1, <1>3 DEF added, AddLast

(* A chunk taken out.                                                      *)
LEMMA HeldLeft ==
  ASSUME NEW list \in Seq(ChunkX), NEW at \in 1 .. Len(list), NEW id
  PROVE  /\ RemoveElement(list, at) \in Seq(ChunkX)
         /\ Held(RemoveElement(list, at), id) \in Nat
         /\ Held(list, id) = Held(RemoveElement(list, at), id) + Hits(list[at], id)
<1> DEFINE rest == RemoveAt(list, at)
<1>1. /\ rest \in Seq(ChunkX) /\ Len(rest) = Len(list) - 1
      /\ \A i \in 1 .. at - 1 : rest[i] = list[i]
      /\ \A i \in at .. Len(list) - 1 : rest[i] = list[i + 1]
  BY RemoveAtElements
<1> HIDE DEF rest
<1>2. Len(rest) \in Nat /\ Len(list) = Len(rest) + 1 /\ at \in 1 .. Len(rest) + 1
  BY <1>1
<1>3. /\ \A i \in 1 .. at - 1 : list[i] = rest[i]
      /\ \A i \in at .. Len(rest) : list[i + 1] = rest[i]
  BY <1>1, <1>2
<1>4. Held(list, id) = Held(rest, id) + Hits(list[at], id)
  BY <1>1, <1>2, <1>3, HeldInserted, SMTT(60)
<1>5. Held(rest, id) \in Nat
  BY <1>1, HeldType
<1> QED BY <1>1, <1>4, <1>5 DEF rest, RemoveElement

(* All chunks of another list added one by one.                            *)
LEMMA HeldAddedAll ==
  ASSUME NEW list \in Seq(ChunkX), NEW elems \in Seq(ChunkX), NEW prio \in Nat, NEW id
  PROVE  Held(AddedAll(list, elems, prio), id) = Held(list, id) + Held(elems, id)
<1> DEFINE n == Len(elems)
           L == Seq(ChunkX)
           Def(f) == [i \in 0 .. n |-> IF i = 0 THEN list
                                       ELSE AddWithPrio(f[i - 1], elems[i], prio)]
           merged == CHOOSE f : f = Def(f)
           step == [i \in 1 .. n |-> [l \in L |-> AddWithPrio(l, elems[i], prio)]]
<1>1. n \in Nat /\ list \in L /\ \A i \in 1 .. n : elems[i] \in ChunkX
  OBVIOUS
<1>2. \A i \in 1 .. n : \A l \in L :
        /\ AddWithPrio(l, elems[i], prio) \in L
        /\ Held(AddWithPrio(l, elems[i], prio), id) = Held(l, id) + Hits(elems[i], id)
  <2> SUFFICES ASSUME NEW i \in 1 .. n, NEW l \in L
               PROVE  /\ AddWithPrio(l, elems[i], prio) \in L
                      /\ Held(AddWithPrio(l, elems[i], prio), id) = Held(l, id) + Hits(elems[i], id)
    OBVIOUS
  <2>1. elems[i] \in ChunkX
    BY <1>1
  <2> QED BY <2>1, HeldAdded
<1> HIDE DEF L
<1>3. step \in [1 .. n -> [L -> L]]
  BY <1>2
<1>4. PICK f : Follows(f, L, n, list, step)
  <2> HIDE DEF step, n
  <2> QED BY <1>1, <1>3, RecursiveFunction, Zenon
<1>5. f = Def(f)
  <2>1. ASSUME NEW i \in 1 .. n  PROVE f[i] = AddWithPrio(f[i - 1], elems[i], prio)
    <3>1. i - 1 \in 0 .. n
      BY <1>1
    <3>2. f[i - 1] \in L
      BY <1>4, <3>1 DEF Follows
    <3>3. step[i][f[i - 1]] = AddWithPrio(f[i - 1], elems[i], prio)
      BY <3>2
    <3> QED BY <1>4, <3>3 DEF Follows
  <2> QED BY <1>1, <1>4, <2>1 DEF Follows
<1>6. merged = Def(merged)
  <2> HIDE DEF Def
  <2> QED BY <1>5
<1>7. AddedAll(list, elems, prio) = merged[n]
  BY DEF AddedAll
<1> HIDE DEF merged
<1>8. merged[0] = list /\ \A i \in 1 .. n : merged[i] = AddWithPrio(merged[i - 1], elems[i], prio)
  BY <1>1, <1>6
<1>9. PICK sum : Counting(elems, id, sum) /\ Held(elems, id) = sum[n]
  BY HeldCounts
<1>10. /\ sum \in [0 .. n -> Nat] /\ sum[0] = 0
       /\ \A i \in 1 .. n : sum[i] = sum[i - 1] + Hits(elems[i], id)
  BY <1>9 DEF Counting
<1>11. Held(list, id) \in Nat
  BY HeldType
<1> DEFINE G == {i \in 0 .. n : merged[i] \in L /\ Held(merged[i], id) = Held(list, id) + sum[i]}
<1> HIDE DEF n, Def, step
<1>12. 0 \in G
  BY <1>1, <1>8, <1>10, <1>11
<1>13. ASSUME NEW i \in 0 .. n - 1, i \in G  PROVE i + 1 \in G
  <2>1. i + 1 \in 1 .. n /\ (i + 1) - 1 = i /\ i + 1 \in 0 .. n /\ i \in 0 .. n
    BY <1>1
  <2>2. merged[i + 1] = AddWithPrio(merged[i], elems[i + 1], prio)
    BY <1>8, <2>1
  <2>3. sum[i + 1] = sum[i] + Hits(elems[i + 1], id)
    BY <1>10, <2>1
  <2>4. merged[i] \in L /\ Held(merged[i], id) = Held(list, id) + sum[i]
    BY <1>13
  <2>5. /\ merged[i + 1] \in L
        /\ Held(merged[i + 1], id) = Held(merged[i], id) + Hits(elems[i + 1], id)
    BY <1>2, <2>1, <2>2, <2>4
  <2>6. elems[i + 1] \in ChunkX
    BY <1>1, <2>1
  <2>7. Hits(elems[i + 1], id) \in Nat
    BY <2>6, HitsOfOne
  <2>8. sum[i] \in Nat
    BY <1>10, <2>1
  <2> QED BY <1>11, <2>1, <2>3, <2>4, <2>5, <2>7, <2>8
<1>14. 0 .. n \subseteq G
  <2> HIDE DEF G
  <2> QED BY <1>1, <1>12, <1>13, UpToInduction
<1>15. n \in 0 .. n
  BY <1>1
<1>16. Held(merged[n], id) = Held(list, id) + sum[n]
  BY <1>14, <1>15
<1> QED BY <1>7, <1>9, <1>16

(* The values of a list, one after the other.                              *)
ListIds(list) == [i \in DOMAIN list |-> MemberIds(list[i])]

(* A value is among them as often as the list has it.                      *)
LEMMA HeldFlat ==
  ASSUME NEW list \in Seq(ChunkX), NEW id
  PROVE  /\ FlattenSeq(ListIds(list)) \in Seq(Number)
         /\ Occurrences(FlattenSeq(ListIds(list)), id) = Held(list, id)
<1> DEFINE n == Len(list)
           ids == ListIds(list)
           N == Seq(Number)
<1>1. n \in Nat /\ DOMAIN list = 1 .. n
  OBVIOUS
<1>2. /\ ids \in Seq(N) /\ Len(ids) = n
      /\ \A i \in 1 .. n : ids[i] = MemberIds(list[i]) /\ ids[i] \in N
  <2>1. \A i \in 1 .. n : MemberIds(list[i]) \in N
    <3> SUFFICES ASSUME NEW i \in 1 .. n  PROVE MemberIds(list[i]) \in N
      OBVIOUS
    <3>1. list[i] \in ChunkX
      OBVIOUS
    <3> QED BY <3>1, MemberIdsX
  <2> HIDE DEF N
  <2> QED BY <1>1, <2>1 DEF ListIds
<1>3. \A i \in 1 .. n : Hits(list[i], id) = Occurrences(ids[i], id)
  BY <1>2 DEF Hits
<1>4. PICK sum : Counting(list, id, sum) /\ Held(list, id) = sum[n]
  BY HeldCounts
<1>5. /\ sum \in [0 .. n -> Nat] /\ sum[0] = 0
      /\ \A i \in 1 .. n : sum[i] = sum[i - 1] + Hits(list[i], id)
  BY <1>4 DEF Counting
<1> HIDE DEF ids, n
<1>6. CASE n = 0
  <2>1. FlattenSeq(ids) = ids /\ ids = <<>>
    <3>1. ids = <<>>
      BY <1>2, <1>6
    <3> QED BY <1>2, <1>6, <3>1 DEF FlattenSeq
  <2>2. {i \in DOMAIN <<>> : <<>>[i] = id} = {}
    OBVIOUS
  <2>3. Occurrences(<<>>, id) = 0
    BY <2>2, FS_EmptySet DEF Occurrences
  <2>4. <<>> \in Seq(Number)
    OBVIOUS
  <2> QED BY <1>4, <1>5, <1>6, <2>1, <2>3, <2>4 DEF ids
<1>7. CASE n # 0
  <2> DEFINE Def(f) == [i \in 1 .. n |-> IF i = 1 THEN ids[i] ELSE f[i - 1] \o ids[i]]
             flatten == CHOOSE f : f = Def(f)
             step == [i \in 1 .. n |-> [s \in N |-> IF i = 1 THEN ids[i] ELSE s \o ids[i]]]
  <2>1. FlattenSeq(ids) = flatten[n]
    BY <1>2, <1>7 DEF FlattenSeq
  <2>2. \A s \in N : \A i \in 1 .. n :
          /\ s \o ids[i] \in N
          /\ Occurrences(s \o ids[i], id) = Occurrences(s, id) + Hits(list[i], id)
    <3> SUFFICES ASSUME NEW s \in N, NEW i \in 1 .. n
                 PROVE  /\ s \o ids[i] \in N
                        /\ Occurrences(s \o ids[i], id) = Occurrences(s, id) + Hits(list[i], id)
      OBVIOUS
    <3>1. s \in Seq(Number) /\ ids[i] \in Seq(Number)
      BY <1>2
    <3>2. s \o ids[i] \in Seq(Number)
      BY <3>1, ConcatElements
    <3>3. Occurrences(s \o ids[i], id) = Occurrences(s, id) + Occurrences(ids[i], id)
      BY <3>1, OccurrencesOfBoth
    <3> QED BY <1>3, <3>2, <3>3
  <2>3. <<>> \in N
    OBVIOUS
  <2> HIDE DEF N
  <2>4. step \in [1 .. n -> [N -> N]]
    BY <1>2, <2>2
  <2>5. PICK f : Follows(f, N, n, <<>>, step)
    <3> HIDE DEF step
    <3>1. n \in Nat
      BY <1>1
    <3> QED BY <2>3, <2>4, <3>1, RecursiveFunction, Zenon
  <2> DEFINE g == [i \in 1 .. n |-> f[i]]
  <2>6. g = Def(g)
    <3>1. ASSUME NEW i \in 1 .. n  PROVE f[i] = IF i = 1 THEN ids[i] ELSE f[i - 1] \o ids[i]
      <4>1. i - 1 \in 0 .. n
        BY <1>1
      <4>2. f[i - 1] \in N
        BY <2>5, <4>1 DEF Follows
      <4>3. step[i][f[i - 1]] = IF i = 1 THEN ids[i] ELSE f[i - 1] \o ids[i]
        BY <4>2
      <4> QED BY <2>5, <4>3 DEF Follows
    <3>2. \A i \in 1 .. n : i # 1 => i - 1 \in 1 .. n
      BY <1>1
    <3> QED BY <3>1, <3>2
  <2>7. flatten = Def(flatten)
    <3> HIDE DEF Def, g
    <3> QED BY <2>6
  <2> HIDE DEF flatten, g, step
  <2>8. /\ flatten[1] = ids[1]
        /\ \A i \in 1 .. n : i # 1 => flatten[i] = flatten[i - 1] \o ids[i]
    <3>1. 1 \in 1 .. n
      BY <1>1, <1>7
    <3> QED BY <2>7, <3>1
  <2> HIDE DEF Def
  <2> DEFINE G == {i \in 0 .. n : i # 0 => flatten[i] \in N /\ Occurrences(flatten[i], id) = sum[i]}
  <2>9. 0 \in G
    BY <1>1
  <2>10. ASSUME NEW i \in 0 .. n - 1, i \in G  PROVE i + 1 \in G
    <3>1. i + 1 \in 1 .. n /\ (i + 1) - 1 = i /\ i + 1 \in 0 .. n /\ i \in 0 .. n
      BY <1>1
    <3>2. sum[i + 1] = sum[i] + Hits(list[i + 1], id)
      BY <1>5, <3>1
    <3>3. CASE i = 0
      <4>1. 1 \in 1 .. n /\ sum[1] = Hits(list[1], id)
        <5>1. list[1] \in ChunkX
          BY <1>1, <1>7, <3>1
        <5>2. Hits(list[1], id) \in Nat
          BY <5>1, HitsOfOne
        <5> QED BY <1>5, <3>1, <3>2, <3>3, <5>2
      <4>2. flatten[1] \in N /\ Occurrences(flatten[1], id) = sum[1]
        BY <1>2, <1>3, <2>8, <4>1
      <4> QED BY <3>1, <3>3, <4>2
    <3>4. CASE i # 0
      <4>1. flatten[i] \in N /\ Occurrences(flatten[i], id) = sum[i]
        BY <2>10, <3>4
      <4>2. flatten[i + 1] = flatten[i] \o ids[i + 1]
        <5> DEFINE j == i + 1
        <5>1. j \in 1 .. n /\ j # 1 /\ j - 1 = i
          BY <3>1, <3>4
        <5> HIDE DEF j
        <5>2. flatten[j] = flatten[j - 1] \o ids[j]
          BY <2>8, <5>1
        <5> QED BY <5>1, <5>2 DEF j
      <4>3. flatten[i + 1] \in N /\ Occurrences(flatten[i + 1], id) = sum[i + 1]
        BY <2>2, <3>1, <3>2, <4>1, <4>2
      <4> QED BY <3>1, <4>3
    <3> QED BY <3>3, <3>4
  <2>11. 0 .. n \subseteq G
    <3> HIDE DEF G
    <3>1. n \in Nat
      BY <1>1
    <3> QED BY <2>9, <2>10, <3>1, UpToInduction
  <2>12. n \in 0 .. n
    BY <1>1
  <2>13. flatten[n] \in N /\ Occurrences(flatten[n], id) = sum[n]
    BY <1>7, <2>11, <2>12
  <2> QED BY <1>4, <2>1, <2>13 DEF ids, N
<1> QED BY <1>6, <1>7

(* The number of every word is among those of the list as often.           *)
LEMMA HeldWords ==
  ASSUME NEW list \in Seq(WordChunk), NEW id
  PROVE  /\ [i \in DOMAIN list |-> list[i].id] \in Seq(Number)
         /\ Occurrences([i \in DOMAIN list |-> list[i].id], id) = Held(list, id)
<1> DEFINE n == Len(list)
           ids == [i \in DOMAIN list |-> list[i].id]
           P(i) == {j \in 1 .. i : list[j].id = id}
<1>1. n \in Nat /\ DOMAIN list = 1 .. n
  OBVIOUS
<1>2. \A i \in 1 .. n : /\ list[i] \in ChunkX /\ list[i].id \in Number
                        /\ Hits(list[i], id) = IF list[i].id = id THEN 1 ELSE 0
  <2> SUFFICES ASSUME NEW i \in 1 .. n
               PROVE  /\ list[i] \in ChunkX /\ list[i].id \in Number
                      /\ Hits(list[i], id) = IF list[i].id = id THEN 1 ELSE 0
    OBVIOUS
  <2>1. list[i] \in WordChunk
    OBVIOUS
  <2>2. list[i] \in ChunkX /\ list[i].id \in Number /\ list[i].part # "shared"
    BY <2>1, WordFacts DEF Number
  <2> QED BY <2>2, HitsOfOne
<1>3. list \in Seq(ChunkX)
  BY <1>1, <1>2
<1>4. PICK sum : Counting(list, id, sum) /\ Held(list, id) = sum[n]
  BY <1>3, HeldCounts
<1>5. /\ sum \in [0 .. n -> Nat] /\ sum[0] = 0
      /\ \A i \in 1 .. n : sum[i] = sum[i - 1] + Hits(list[i], id)
  BY <1>4 DEF Counting
<1>6. ids \in Seq(Number) /\ DOMAIN ids = 1 .. n /\ \A i \in 1 .. n : ids[i] = list[i].id
  BY <1>1, <1>2
<1>7. {i \in DOMAIN ids : ids[i] = id} = P(n)
  BY <1>6
<1> HIDE DEF n, ids
<1> DEFINE G == {i \in 0 .. n : IsFiniteSet(P(i)) /\ Cardinality(P(i)) = sum[i]}
<1>8. 0 \in G
  <2>1. P(0) = {}
    OBVIOUS
  <2> HIDE DEF P
  <2>2. IsFiniteSet(P(0)) /\ Cardinality(P(0)) = 0
    BY <2>1, FS_EmptySet
  <2>3. 0 \in 0 .. n /\ Cardinality(P(0)) = sum[0]
    BY <1>1, <1>5, <2>2
  <2> QED BY <2>2, <2>3
<1>9. ASSUME NEW i \in 0 .. n - 1, i \in G  PROVE i + 1 \in G
  <2>1. i + 1 \in 1 .. n /\ (i + 1) - 1 = i /\ i + 1 \in 0 .. n /\ i \in 0 .. n
    BY <1>1
  <2>2. sum[i + 1] = sum[i] + Hits(list[i + 1], id)
    BY <1>5, <2>1
  <2>3. CASE list[i + 1].id = id
    <3>1. P(i + 1) = P(i) \cup {i + 1} /\ i + 1 \notin P(i)
      BY <2>1, <2>3
    <3> HIDE DEF P
    <3>2. IsFiniteSet(P(i) \cup {i + 1}) /\ Cardinality(P(i) \cup {i + 1}) = Cardinality(P(i)) + 1
      BY <1>9, <3>1, FS_AddElement
    <3> QED BY <1>2, <1>9, <2>1, <2>2, <2>3, <3>1, <3>2
  <2>4. CASE list[i + 1].id # id
    <3>1. P(i + 1) = P(i)
      BY <2>1, <2>4
    <3>2. sum[i] \in Nat /\ Hits(list[i + 1], id) = 0
      BY <1>2, <1>5, <2>1, <2>4
    <3> HIDE DEF P
    <3> QED BY <1>9, <2>1, <2>2, <3>1, <3>2
  <2> QED BY <2>3, <2>4
<1>10. 0 .. n \subseteq G
  <2> HIDE DEF G
  <2> QED BY <1>1, <1>8, <1>9, UpToInduction
<1>11. n \in 0 .. n
  BY <1>1
<1>12. Cardinality(P(n)) = sum[n]
  BY <1>10, <1>11
<1> HIDE DEF P
<1>13. Occurrences(ids, id) = sum[n]
  BY <1>7, <1>12 DEF Occurrences
<1> QED BY <1>4, <1>6, <1>13 DEF ids

-----------------------------------------------------------------------------
(* Every value stays in the messages that have it                          *)

Both == {CHANNEL_IN, CHANNEL_OUT}

(* The numbers of the parameters: the exception code of a two-way          *)
(* operation comes first.                                                  *)
FirstNumber == IF sig.oneway THEN 1 ELSE 2
Numbers == FirstNumber .. FirstNumber + Len(sig.params) - 1

(* How often a message has a parameter: not at all if it is a string.      *)
Due(c, p) == IF c \notin p.chans \/ (p.kind = "variable" /\ WorthString(p)) THEN 0 ELSE 1

(* How often it has the value of that number by now.                       *)
Wanted(c, id) ==
  LET p == id + 1 - FirstNumber IN IF p \in 1 .. pos THEN Due(c, sig.params[p]) ELSE 0

(* Where that value can be: in a register, among the words, or in those    *)
(* the scan has taken.                                                     *)
Waiting(c) == IF c = chan THEN candidates ELSE <<>>
Found(c, id) == Held(registers[c], id) + Held(dwords[c], id) + Held(Waiting(c), id)

(* The parameters are numbered in sequence, and everything else the layout *)
(* adds gets a number behind theirs.                                       *)
NumbersInv ==
  /\ phase = "options" => pos = 0 /\ chunkID = 0
  /\ phase = "marshal" => chunkID + 1 = FirstNumber + pos
  /\ phase \notin {"options", "marshal"} =>
       pos = Len(sig.params) /\ chunkID + 1 >= FirstNumber + pos

(* No value is lost or doubled.                                            *)
FoundInv == \A c \in Both : \A id \in Numbers : Found(c, id) = Wanted(c, id)

(* A list of words is a list of chunks.                                    *)
LEMMA WordsAreChunks ==
  ASSUME NEW list \in Seq(WordChunk)
  PROVE  list \in Seq(ChunkX)
<1>1. \A i \in 1 .. Len(list) : list[i] \in ChunkX
  <2> SUFFICES ASSUME NEW i \in 1 .. Len(list)  PROVE list[i] \in ChunkX
    OBVIOUS
  <2>1. list[i] \in WordChunk
    OBVIOUS
  <2> QED BY <2>1, WordFacts
<1> QED BY <1>1

(* The numbers of the parameters are positive.                             *)
LEMMA NumbersX ==
  TypesX => /\ FirstNumber \in {1, 2} /\ Len(sig.params) \in Nat
            /\ Numbers \subseteq Nat \ {0}
            /\ \A id \in Numbers : id < FirstNumber + Len(sig.params)
<1> SUFFICES ASSUME TypesX
             PROVE  /\ FirstNumber \in {1, 2} /\ Len(sig.params) \in Nat
                    /\ Numbers \subseteq Nat \ {0}
                    /\ \A id \in Numbers : id < FirstNumber + Len(sig.params)
  OBVIOUS
<1>1. sig.params \in Seq(Parameter)
  BY DEF TypesX, Signature
<1>2. Len(sig.params) \in Nat /\ FirstNumber \in {1, 2}
  BY <1>1 DEF FirstNumber
<1>3. Numbers \subseteq Nat \ {0}
  BY <1>2 DEF Numbers
<1>4. \A id \in Numbers : id < FirstNumber + Len(sig.params)
  BY <1>2 DEF Numbers
<1> QED BY <1>2, <1>3, <1>4

(* What holds the values of a channel is lists of chunks.                  *)
LEMMA FoundParts ==
  ASSUME TypesX, NEW c \in Channel, NEW id
  PROVE  /\ registers[c] \in Seq(ChunkX) /\ dwords[c] \in Seq(ChunkX)
         /\ dwords[c] \in Seq(WordChunk) /\ Waiting(c) \in Seq(ChunkX)
         /\ Held(registers[c], id) \in Nat /\ Held(dwords[c], id) \in Nat
         /\ Held(Waiting(c), id) \in Nat
<1>1. registers[c] \in Seq(ChunkX) /\ dwords[c] \in Seq(WordChunk) /\ candidates \in Seq(ChunkX)
  BY DEF TypesX
<1>2. dwords[c] \in Seq(ChunkX)
  BY <1>1, WordsAreChunks
<1>3. Waiting(c) \in Seq(ChunkX)
  BY <1>1 DEF Waiting
<1> QED BY <1>1, <1>2, <1>3, HeldType

(* Every value is found as often as before.                                *)
LEMMA FoundKept ==
  ASSUME FoundInv, UNCHANGED <<sig, pos>>,
         \A c \in Both : \A id \in Numbers : Found(c, id)' = Found(c, id)
  PROVE  FoundInv'
<1>1. Numbers' = Numbers /\ FirstNumber' = FirstNumber
  BY DEF Numbers, FirstNumber
<1>2. \A c \in Both : \A id \in Numbers : Wanted(c, id)' = Wanted(c, id)
  BY <1>1 DEF Wanted
<1> QED BY <1>1, <1>2 DEF FoundInv

(* Outside the scan, it is in the registers or among the words.            *)
LEMMA FoundUnscanned ==
  ASSUME LoopsX, FoundInv, UNCHANGED <<sig, pos, candidates>>, phase # "scan",
         \A c \in Both : \A id \in Numbers :
           Held(registers'[c], id) + Held(dwords'[c], id)
             = Held(registers[c], id) + Held(dwords[c], id)
  PROVE  FoundInv'
<1>1. candidates = <<>> /\ candidates' = <<>>
  BY DEF LoopsX
<1>2. \A c : Waiting(c) = <<>> /\ Waiting(c)' = <<>>
  BY <1>1 DEF Waiting
<1>3. \A c \in Both : \A id \in Numbers : Found(c, id)' = Found(c, id)
  BY <1>2 DEF Found
<1> QED BY <1>3, FoundKept

(* Nothing moves at all.                                                   *)
LEMMA FoundUntouched ==
  ASSUME FoundInv, UNCHANGED <<sig, pos, registers, dwords, candidates>>,
         chan' = chan \/ candidates = <<>>
  PROVE  FoundInv'
<1>1. \A c : Waiting(c)' = Waiting(c)
  BY DEF Waiting
<1>2. \A c \in Both : \A id \in Numbers : Found(c, id)' = Found(c, id)
  BY <1>1 DEF Found
<1> QED BY <1>2, FoundKept

(* A parameter is marshalled: its number is the next one.                  *)
LEMMA FoundMarshalled ==
  ASSUME TypesX, LoopsX, NumbersInv, FoundInv, phase = "marshal", NEW kind, Marshalling(kind),
         registers' = registers, NEW chans \in SUBSET Channel, NEW chunk \in ChunkX,
         NEW prio \in Nat, chunk.id = chunkID + 1, chunk.part # "shared",
         dwords' = AddTo(dwords, chans, chunk, prio),
         \A c \in Both : Due(c, Parameter_) = IF c \in chans THEN 1 ELSE 0
  PROVE  FoundInv'
<1>1. /\ pos' = pos + 1 /\ sig' = sig /\ pos < Len(sig.params) /\ pos \in Nat
      /\ candidates' = candidates
  BY DEF Marshalling, packing, TypesX
<1>2. candidates = <<>>
  BY DEF LoopsX
<1>3. Numbers' = Numbers /\ FirstNumber' = FirstNumber
  BY <1>1 DEF Numbers, FirstNumber
<1>4. FirstNumber \in {1, 2} /\ Len(sig.params) \in Nat /\ Numbers \subseteq Nat \ {0}
  BY NumbersX
<1>5. chunkID + 1 = FirstNumber + pos /\ chunkID \in Nat
  BY DEF NumbersInv, TypesX
<1>6. ASSUME NEW c \in Both, NEW id \in Numbers  PROVE Found(c, id)' = Wanted(c, id)'
  <2>1. c \in Channel /\ id \in Nat
    BY <1>4, ChannelsX DEF Both
  <2>2. Found(c, id) = Held(registers[c], id) + Held(dwords[c], id)
    <3>1. Waiting(c) = <<>>
      BY <1>2 DEF Waiting
    <3>2. Held(registers[c], id) \in Nat /\ Held(dwords[c], id) \in Nat
      BY <2>1, FoundParts
    <3> QED BY <3>1, <3>2, HeldNothing DEF Found
  <2>3. Found(c, id)' = Held(registers[c], id) + Held(dwords'[c], id) + 0
    <3>1. Waiting(c)' = <<>>
      BY <1>1, <1>2 DEF Waiting
    <3> QED BY <3>1, HeldNothing DEF Found
  <2>4. /\ Held(registers[c], id) \in Nat /\ Held(dwords[c], id) \in Nat
        /\ dwords[c] \in Seq(ChunkX)
    BY <2>1, FoundParts
  <2>5. Hits(chunk, id) = IF id = chunkID + 1 THEN 1 ELSE 0
    BY HitsOfOne
  <2>6. Held(dwords'[c], id) = Held(dwords[c], id) + IF c \in chans /\ id = chunkID + 1 THEN 1 ELSE 0
    <3>1. dwords'[c] = IF c \in chans THEN AddWithPrio(dwords[c], chunk, prio) ELSE dwords[c]
      BY <2>1 DEF AddTo
    <3>2. CASE c \in chans
      BY <2>4, <2>5, <3>1, <3>2, HeldAdded
    <3>3. CASE c \notin chans
      BY <2>4, <3>1, <3>3
    <3> QED BY <3>2, <3>3
  <2>7. Found(c, id) = Wanted(c, id)
    BY DEF FoundInv
  <2> DEFINE p == id + 1 - FirstNumber
  <2>8. /\ Wanted(c, id) = IF p \in 1 .. pos THEN Due(c, sig.params[p]) ELSE 0
        /\ Wanted(c, id)' = IF p \in 1 .. pos + 1 THEN Due(c, sig.params[p]) ELSE 0
    BY <1>1, <1>3 DEF Wanted
  <2>9. id = chunkID + 1 <=> p = pos + 1
    BY <1>1, <1>4, <1>5, <2>1
  <2>10. Parameter_ = sig.params[pos + 1]
    BY DEF Parameter_
  <2>11. p \in Int
    BY <1>4, <2>1
  <2> HIDE DEF p
  <2>12. CASE id = chunkID + 1
    <3>1. p = pos + 1 /\ p \notin 1 .. pos /\ p \in 1 .. pos + 1
      BY <1>1, <2>9, <2>12
    <3>2. Wanted(c, id) = 0 /\ Wanted(c, id)' = IF c \in chans THEN 1 ELSE 0
      BY <2>8, <2>10, <3>1
    <3> QED BY <2>2, <2>3, <2>4, <2>6, <2>7, <2>12, <3>2
  <2>13. CASE id # chunkID + 1
    <3>1. p \in 1 .. pos <=> p \in 1 .. pos + 1
      BY <1>1, <2>9, <2>11, <2>13
    <3>2. Wanted(c, id)' = Wanted(c, id)
      BY <2>8, <3>1
    <3> QED BY <2>2, <2>3, <2>4, <2>6, <2>7, <2>13, <3>2
  <2> QED BY <2>12, <2>13
<1> QED BY <1>3, <1>6 DEF FoundInv

(* Adding to no channel changes nothing.                                   *)
LEMMA AddToNone ==
  ASSUME NEW S, NEW list \in [Channel -> S], NEW chunk, NEW prio
  PROVE  AddTo(list, {}, chunk, prio) = list
  BY DEF AddTo

(* The identifiers are no parameters.                                      *)
LEMMA CodesX ==
  /\ FunctionNumber \in ChunkX /\ FunctionNumber.id = 0 /\ FunctionNumber.part # "shared"
  /\ ExceptionCode \in ChunkX /\ ExceptionCode.id = 0 /\ ExceptionCode.part # "shared"
<1>1. ASSUME NEW name \in {"fid", "eid"}
      PROVE  LET x == Pinned(Chunk(0, name, WordSize, WordSize, {}, STANDARD), NumRegs - 1)
             IN  x \in ChunkX /\ x.id = 0 /\ x.part = name
  <2> DEFINE y == Chunk(0, name, WordSize, WordSize, {}, STANDARD)
  <2>1. /\ 0 \in Number /\ name \in Parts /\ {} \in SUBSET Channel /\ NumRegs - 1 \in Int
        /\ WordSize \in Nat /\ WordSize \in Alignments
    BY ConnectionXAssumption DEF Number, Parts, WordSize, Alignments
  <2>2. y \in ChunkX /\ y.id = 0 /\ y.part = name
    BY <2>1, FlagFacts, NewChunkX
  <2> HIDE DEF y
  <2>3. /\ Pinned(y, NumRegs - 1) \in ChunkX /\ Pinned(y, NumRegs - 1).id = y.id
        /\ Pinned(y, NumRegs - 1).part = y.part
    BY <2>1, <2>2, PinnedX
  <2> QED BY <2>2, <2>3 DEF y
<1> QED BY <1>1 DEF FunctionNumber, ExceptionCode

(* The calls mark every parameter's place.                                 *)
LEMMA FoundMarshal ==
  TypesX /\ LoopsX /\ ChannelsInv /\ NumbersInv /\ FoundInv /\ Marshal => FoundInv'
<1> SUFFICES ASSUME TypesX, LoopsX, ChannelsInv, NumbersInv, FoundInv, Marshal  PROVE FoundInv'
  OBVIOUS
<1>1. /\ chunkID \in Nat /\ registers \in [Channel -> Seq(ChunkX)]
      /\ dwords \in [Channel -> Seq(WordChunk)]
  BY DEF TypesX
<1>2. chunkID + 1 \in Number /\ chunkID + 1 \in Nat /\ STANDARD \in SUBSET Flags
  BY <1>1, FlagFacts DEF Number
<1>3. phase # "options" => channelInitialized = Channel
  BY DEF ChannelsInv
<1>4. CASE SetOption
  <2>1. UNCHANGED <<sig, pos, registers, dwords, candidates, chan>>
    BY <1>4 DEF SetOption, lists, packing
  <2> QED BY <2>1, FoundUntouched
<1>5. CASE MarshalExceptionCode
  <2>1. /\ phase = "options" /\ FixedCopyChunk(AllOut, WordSize, WordSize)
        /\ UNCHANGED <<sig, pos, candidates>>
    BY <1>5 DEF MarshalExceptionCode, packing
  <2>2. AllOut \ channelInitialized = AllOut /\ AllOut \ AllOut = {}
    BY <2>1, ChannelsX DEF ChannelsInv
  <2>3. registers' = AddTo(registers, AllOut, ExceptionCode, PRIO_ID)
    BY <2>1, <2>2 DEF FixedCopyChunk, ExceptionCode
  <2>4. dwords' = dwords
    BY <1>1, <2>1, <2>2, AddToNone DEF FixedCopyChunk
  <2>5. ASSUME NEW c \in Both, NEW id \in Numbers
        PROVE  Held(registers'[c], id) = Held(registers[c], id)
    <3>1. c \in Channel /\ id # 0
      BY ChannelsX, NumbersX DEF Both
    <3>2. Hits(ExceptionCode, id) = 0
      BY <3>1, CodesX, HitsOfOne
    <3>3. registers'[c] = IF c \in AllOut THEN AddWithPrio(registers[c], ExceptionCode, PRIO_ID)
                          ELSE registers[c]
      BY <2>3, <3>1 DEF AddTo
    <3>4. registers[c] \in Seq(ChunkX) /\ PRIO_ID \in Nat /\ ExceptionCode \in ChunkX
      BY <1>1, <3>1, CodesX DEF PRIO_ID
    <3>5. Held(AddWithPrio(registers[c], ExceptionCode, PRIO_ID), id)
            = Held(registers[c], id) + Hits(ExceptionCode, id)
      BY <3>4, HeldAdded
    <3>6. Held(registers[c], id) \in Nat
      BY <3>4, HeldType
    <3> QED BY <3>2, <3>3, <3>5, <3>6
  <2> QED BY <2>1, <2>4, <2>5, FoundUnscanned
<1>6. CASE GetFixedCopyChunk
  <2> DEFINE p == Parameter_
             chunk == Chunk(chunkID + 1, "value", p.size, p.align, p.chans, STANDARD)
             prio == Priority(p.chans)
  <2>1. /\ phase = "marshal" /\ Marshalling("fixed")
        /\ FixedCopyChunk(p.chans, p.size, p.align)
    BY <1>6 DEF GetFixedCopyChunk, Marshalling
  <2>2. /\ p.chans \in SUBSET Channel /\ p.size \in Nat /\ p.align \in Alignments
        /\ p.kind = "fixed"
    BY <2>1, ParameterX
  <2>3. p.chans \ channelInitialized = {} /\ p.chans \ {} = p.chans
    BY <1>3, <2>1, <2>2
  <2> HIDE DEF p
  <2>4. registers' = registers /\ dwords' = AddTo(dwords, p.chans, chunk, prio)
    BY <1>1, <2>1, <2>3, AddToNone DEF FixedCopyChunk
  <2>5. "value" \in Parts
    BY DEF Parts
  <2>6. chunk \in ChunkX /\ chunk.id = chunkID + 1 /\ chunk.part = "value"
    BY <1>2, <2>2, <2>5, NewChunkX
  <2>7. prio \in Nat
    BY PrioritiesX DEF PRIO_IN_FIXED, PRIO_INOUT_FIXED, PRIO_OUT_FIXED
  <2>8. \A c \in Both : Due(c, p) = IF c \in p.chans THEN 1 ELSE 0
    BY <2>2 DEF Due
  <2> HIDE DEF chunk, prio
  <2>9. chunk.part # "shared"
    BY <2>6
  <2> QED BY <2>1, <2>2, <2>4, <2>6, <2>7, <2>8, <2>9, FoundMarshalled DEF p
<1>7. CASE GetStringChunk
  <2> DEFINE p == Parameter_
             chunk == Chunk(chunkID + 1, "string", SIZEOF_STRINGDOPE, 1, p.chans, STANDARD)
  <2>1. /\ phase = "marshal" /\ Marshalling("variable") /\ WorthString(p)
        /\ registers' = registers /\ dwords' = dwords
    BY <1>7 DEF GetStringChunk, Marshalling
  <2>2. p.chans \in SUBSET Channel /\ p.kind = "variable"
    BY <2>1, ParameterX
  <2> HIDE DEF p
  <2>3. "string" \in Parts /\ SIZEOF_STRINGDOPE \in Nat /\ 1 \in Alignments
    BY DEF Parts, SIZEOF_STRINGDOPE, Alignments
  <2>4. chunk \in ChunkX /\ chunk.id = chunkID + 1 /\ chunk.part = "string"
    BY <1>2, <2>2, <2>3, NewChunkX
  <2>5. \A c \in Both : Due(c, p) = IF c \in {} THEN 1 ELSE 0
    BY <2>1, <2>2 DEF Due
  <2> HIDE DEF chunk
  <2>6. dwords' = AddTo(dwords, {}, chunk, 0) /\ {} \in SUBSET Channel /\ 0 \in Nat
    BY <1>1, <2>1, AddToNone
  <2>7. chunk.part # "shared"
    BY <2>4
  <2> QED BY <2>1, <2>4, <2>5, <2>6, <2>7, FoundMarshalled DEF p
<1>8. CASE GetVarbufChunk
  <2> DEFINE p == Parameter_
             chunk == Chunk(chunkID + 1, "size", WordSize, WordSize, p.chans, STANDARD)
             prio == Priority(p.chans)
  <2>1. /\ phase = "marshal" /\ Marshalling("variable") /\ ~WorthString(p)
        /\ registers' = registers /\ dwords' = AddTo(dwords, p.chans, chunk, prio)
    BY <1>8 DEF GetVarbufChunk, Marshalling
  <2>2. p.chans \in SUBSET Channel /\ p.kind = "variable"
    BY <2>1, ParameterX
  <2> HIDE DEF p
  <2>3. "size" \in Parts /\ WordSize \in Nat /\ WordSize \in Alignments
    BY DEF Parts, WordSize, Alignments
  <2>4. chunk \in ChunkX /\ chunk.id = chunkID + 1 /\ chunk.part = "size"
    BY <1>2, <2>2, <2>3, NewChunkX
  <2>5. prio \in Nat
    BY PrioritiesX DEF PRIO_IN_FIXED, PRIO_INOUT_FIXED, PRIO_OUT_FIXED
  <2>6. \A c \in Both : Due(c, p) = IF c \in p.chans THEN 1 ELSE 0
    BY <2>1, <2>2 DEF Due
  <2> HIDE DEF chunk, prio
  <2>7. chunk.part # "shared"
    BY <2>4
  <2> QED BY <2>1, <2>2, <2>4, <2>5, <2>6, <2>7, FoundMarshalled DEF p
<1>9. CASE GetMapChunk
  <2> DEFINE p == Parameter_
             chunk == Chunk(chunkID + 1, "fpage", 8, 8, p.chans, STANDARD)
  <2>1. /\ phase = "marshal" /\ Marshalling("fpage")
        /\ registers' = registers /\ dwords' = AddTo(dwords, p.chans, chunk, PRIO_MAP)
    BY <1>9 DEF GetMapChunk, Marshalling
  <2>2. p.chans \in SUBSET Channel /\ p.kind = "fpage"
    BY <2>1, ParameterX
  <2> HIDE DEF p
  <2>3. "fpage" \in Parts /\ 8 \in Nat /\ 8 \in Alignments /\ PRIO_MAP \in Nat
    BY DEF Parts, Alignments, PRIO_MAP
  <2>4. chunk \in ChunkX /\ chunk.id = chunkID + 1 /\ chunk.part = "fpage"
    BY <1>2, <2>2, <2>3, NewChunkX
  <2>5. \A c \in Both : Due(c, p) = IF c \in p.chans THEN 1 ELSE 0
    BY <2>2 DEF Due
  <2> HIDE DEF chunk
  <2>6. chunk.part # "shared"
    BY <2>4
  <2> QED BY <2>1, <2>2, <2>3, <2>4, <2>5, <2>6, FoundMarshalled DEF p
<1> QED BY <1>4, <1>5, <1>6, <1>7, <1>8, <1>9 DEF Marshal

(* A variable buffer is no parameter.                                      *)
LEMMA FoundVarbufs ==
  TypesX /\ LoopsX /\ NumbersInv /\ FoundInv /\ AddVarbufs => FoundInv'
<1> SUFFICES ASSUME TypesX, LoopsX, NumbersInv, FoundInv, AddVarbufs  PROVE FoundInv'
  OBVIOUS
<1>1. PICK with \in SUBSET Channel :
        dwords' = [c \in Channel |-> IF c \notin with THEN dwords[c]
                    ELSE AddWithPrio(dwords[c], Varbuf(with, c), PRIO_VARIABLE)]
  BY AddVarbufsX
<1>2. /\ phase = "varbufs" /\ registers' = registers
      /\ UNCHANGED <<sig, pos, candidates>>
  BY DEF AddVarbufs, request, packing
<1>3. /\ chunkID \in Nat /\ chunkID + 1 >= FirstNumber + pos /\ pos = Len(sig.params)
  BY <1>2 DEF NumbersInv, TypesX
<1>4. ASSUME NEW c \in Both, NEW id \in Numbers
      PROVE  Held(dwords'[c], id) = Held(dwords[c], id)
  <2>1. c \in Channel /\ id \in Nat /\ id < FirstNumber + pos /\ FirstNumber \in {1, 2}
    BY <1>3, ChannelsX, NumbersX DEF Both
  <2>2. dwords[c] \in Seq(ChunkX) /\ Held(dwords[c], id) \in Nat
    BY <2>1, FoundParts
  <2>3. CASE c \notin with
    BY <1>1, <2>1, <2>3
  <2>4. CASE c \in with
    <3> DEFINE x == Varbuf(with, c)
    <3>1. x \in ChunkX /\ x.id = VarbufNumber(with, c) /\ x.part = "varbuf"
      <4>1. VarbufNumber(with, c) \in Nat
        BY <2>4, VarbufX
      <4>2. Bytes(vars_[c]) \in Nat
        <5>1. vars_[c] \in Seq(ChunkX) /\ \A y \in ChunkX : y.size \in Nat
          BY <2>1 DEF TypesX, ChunkX
        <5> QED BY <5>1, BytesType
      <4>3. /\ VarbufNumber(with, c) \in Number /\ "varbuf" \in Parts /\ WordSize \in Alignments
            /\ BitsOf(c) \in SUBSET Channel /\ STANDARD \ {XFER_FIXED} \in SUBSET Flags
        BY <4>1, FlagFacts DEF Number, Parts, WordSize, Alignments, BitsOf
      <4> QED BY <4>2, <4>3, NewChunkX DEF Varbuf
    <3>2. VarbufNumber(with, c) > chunkID /\ VarbufNumber(with, c) \in Nat
      BY <2>4, VarbufX
    <3>3. id # x.id
      BY <1>3, <2>1, <3>1, <3>2
    <3> HIDE DEF x
    <3>4. Hits(x, id) = 0
      BY <3>1, <3>3, HitsOfOne
    <3>5. dwords'[c] = AddWithPrio(dwords[c], x, PRIO_VARIABLE) /\ PRIO_VARIABLE \in Nat
      BY <1>1, <2>1, <2>4 DEF PRIO_VARIABLE, x
    <3>6. Held(dwords'[c], id) = Held(dwords[c], id) + Hits(x, id)
      BY <2>2, <3>1, <3>5, HeldAdded
    <3> QED BY <2>2, <3>4, <3>6
  <2> QED BY <2>3, <2>4
<1>5. phase # "scan"
  BY <1>2
<1> QED BY <1>2, <1>4, <1>5, FoundUnscanned

(* Neither is the function number.                                         *)
LEMMA FoundReserve ==
  TypesX /\ LoopsX /\ FoundInv /\ ReserveRegister => FoundInv'
<1> SUFFICES ASSUME TypesX, LoopsX, FoundInv, ReserveRegister  PROVE FoundInv'
  OBVIOUS
<1>1. /\ phase = "reserve" /\ dwords' = dwords /\ UNCHANGED <<sig, pos, candidates>>
      /\ registers' = registers \/ registers' = AddTo(registers, {CHANNEL_IN}, FunctionNumber, PRIO_ID)
  BY DEF ReserveRegister, request, FunctionNumber
<1>2. ASSUME NEW c \in Both, NEW id \in Numbers
      PROVE  Held(registers'[c], id) = Held(registers[c], id)
  <2>1. c \in Channel /\ id # 0
    BY ChannelsX, NumbersX DEF Both
  <2>2. Hits(FunctionNumber, id) = 0
    BY <2>1, CodesX, HitsOfOne
  <2>3. registers'[c] \in {registers[c], AddWithPrio(registers[c], FunctionNumber, PRIO_ID)}
    BY <1>1, <2>1 DEF AddTo
  <2>4. /\ registers[c] \in Seq(ChunkX) /\ PRIO_ID \in Nat /\ FunctionNumber \in ChunkX
        /\ Held(registers[c], id) \in Nat
    BY <2>1, CodesX, FoundParts DEF PRIO_ID
  <2>5. Held(AddWithPrio(registers[c], FunctionNumber, PRIO_ID), id)
          = Held(registers[c], id) + Hits(FunctionNumber, id)
    BY <2>4, HeldAdded
  <2> QED BY <2>2, <2>3, <2>4, <2>5
<1>3. phase # "scan"
  BY <1>1
<1> QED BY <1>1, <1>2, <1>3, FoundUnscanned

(* A chunk moved from one list to another.                                 *)
LEMMA HeldMoved ==
  ASSUME NEW list \in Seq(ChunkX), NEW at \in 1 .. Len(list), NEW other \in Seq(ChunkX),
         NEW y \in ChunkX, Same(list[at], y), NEW prio \in Nat, NEW id
  PROVE  Held(AddWithPrio(other, y, prio), id) + Held(RemoveElement(list, at), id)
           = Held(other, id) + Held(list, id)
<1>1. /\ Held(RemoveElement(list, at), id) \in Nat
      /\ Held(list, id) = Held(RemoveElement(list, at), id) + Hits(list[at], id)
  BY HeldLeft
<1>2. Held(AddWithPrio(other, y, prio), id) = Held(other, id) + Hits(y, id)
  BY HeldAdded
<1>3. list[at] \in ChunkX
  OBVIOUS
<1>4. Hits(y, id) = Hits(list[at], id) /\ Hits(y, id) \in Nat
  BY <1>3, HitsOfOne, HitsOfSame
<1>5. Held(other, id) \in Nat
  BY HeldType
<1> QED BY <1>1, <1>2, <1>4, <1>5

(* Map items move into the registers.                                      *)
LEMMA FoundMoveMap == TypesX /\ LoopsX /\ FoundInv /\ MoveMap => FoundInv'
<1> SUFFICES ASSUME TypesX, LoopsX, FoundInv, MoveMap  PROVE FoundInv'
  OBVIOUS
<1> DEFINE first == FirstOf(WithPrio(dwords[chan], PRIO_MAP))
           x == dwords[chan][first]
<1>1. /\ phase = "maps" /\ MapWaits
      /\ dwords' = [dwords EXCEPT ![chan] = RemoveElement(dwords[chan], first)]
      /\ registers' = AddTo(registers, {chan}, Pinned(x, pinIndex), PRIO_MAP)
  BY DEF MoveMap, MapFits, MapWaits
<1>2. UNCHANGED <<sig, pos, candidates>>
  BY DEF MoveMap, request
<1>3. /\ registers \in [Channel -> Seq(ChunkX)] /\ dwords \in [Channel -> Seq(WordChunk)]
      /\ chan \in Channel /\ pinIndex \in Nat
  BY DEF TypesX
<1>4. first \in 1 .. Len(dwords[chan]) /\ x \in WordChunk
  BY <1>1, <1>3, FirstMapX
<1> DEFINE y == Pinned(x, pinIndex)
<1>5. y \in ChunkX /\ Same(x, y)
  <2>1. x \in ChunkX
    BY <1>4, WordFacts
  <2> HIDE DEF x
  <2>2. pinIndex \in Int
    BY <1>3
  <2>3. y \in ChunkX /\ y.id = x.id /\ y.part = x.part
    BY <2>1, <2>2, PinnedX
  <2>4. y.members = x.members
    BY <2>1 DEF Pinned, ChunkX
  <2> QED BY <2>3, <2>4 DEF Same
<1> HIDE DEF first, y
<1>6. ASSUME NEW c \in Both, NEW id \in Numbers
      PROVE  Held(registers'[c], id) + Held(dwords'[c], id)
               = Held(registers[c], id) + Held(dwords[c], id)
  <2>1. c \in Channel
    BY ChannelsX DEF Both
  <2>2. CASE c # chan
    <3>1. dwords'[c] = dwords[c] /\ registers'[c] = registers[c]
      BY <1>1, <1>3, <2>1, <2>2 DEF AddTo
    <3> QED BY <3>1
  <2>3. CASE c = chan
    <3>1. /\ dwords'[c] = RemoveElement(dwords[c], first)
          /\ registers'[c] = AddWithPrio(registers[c], y, PRIO_MAP)
      BY <1>1, <1>3, <2>1, <2>3 DEF AddTo, y
    <3>2. dwords[c] \in Seq(ChunkX) /\ registers[c] \in Seq(ChunkX) /\ PRIO_MAP \in Nat
      BY <2>1, FoundParts DEF PRIO_MAP
    <3>3. first \in 1 .. Len(dwords[c]) /\ Same(dwords[c][first], y)
      BY <1>4, <1>5, <2>3
    <3>4. Held(AddWithPrio(registers[c], y, PRIO_MAP), id) + Held(RemoveElement(dwords[c], first), id)
            = Held(registers[c], id) + Held(dwords[c], id)
      BY <1>5, <3>2, <3>3, HeldMoved
    <3> QED BY <3>1, <3>4
  <2> QED BY <2>2, <2>3
<1> QED BY <1>1, <1>2, <1>6, FoundUnscanned

(* Their padding is no parameter.                                          *)
LEMMA FoundPadMaps ==
  TypesX /\ LoopsX /\ NumbersInv /\ FoundInv /\ PadMaps => FoundInv'
<1> SUFFICES ASSUME TypesX, LoopsX, NumbersInv, FoundInv, PadMaps  PROVE FoundInv'
  OBVIOUS
<1> DEFINE free == NumRegs - regsUsed[chan]
<1>1. phase = "maps" /\ UNCHANGED <<sig, pos, candidates>>
  BY DEF PadMaps, request, packing
<1>2. /\ registers \in [Channel -> Seq(ChunkX)] /\ dwords \in [Channel -> Seq(WordChunk)]
      /\ chan \in Channel /\ chunkID \in Nat /\ pinIndex \in Nat
  BY DEF TypesX
<1>3. \/ UNCHANGED <<registers, dwords>>
      \/ /\ registers' = IF free > 0
                         THEN AddTo(registers, {chan}, Pinned(MapPad, pinIndex), PRIO_PAD)
                         ELSE registers
         /\ dwords' = IF free > 0 THEN dwords
                      ELSE [dwords EXCEPT ![chan] = WithPad(dwords[chan], Pinned(MapPad, 0))]
  BY DEF PadMaps, MapPad
<1> HIDE DEF free
<1>4. pos = Len(sig.params) /\ chunkID + 1 >= FirstNumber + pos
  BY <1>1 DEF NumbersInv
<1>5. ASSUME NEW index \in Int, NEW id \in Numbers
      PROVE  Pinned(MapPad, index) \in ChunkX /\ Hits(Pinned(MapPad, index), id) = 0
  <2> DEFINE p == Pinned(MapPad, index)
  <2>1. /\ chunkID + 1 \in Number /\ "mapPad" \in Parts /\ 8 \in Nat /\ 8 \in Alignments
        /\ {} \in SUBSET Channel
    BY <1>2 DEF Number, Parts, Alignments
  <2> DEFINE flags == STANDARD \cup {INIT_ZERO}
  <2>2. flags \in SUBSET Flags
    BY DEF Flags
  <2>3. MapPad = Chunk(chunkID + 1, "mapPad", 8, 8, {}, flags)
    BY DEF MapPad
  <2> HIDE DEF flags
  <2>4. MapPad \in ChunkX /\ MapPad.id = chunkID + 1 /\ MapPad.part = "mapPad"
    BY <2>1, <2>2, <2>3, NewChunkX
  <2>5. p \in ChunkX /\ p.id = chunkID + 1 /\ p.part = "mapPad"
    BY <2>4, PinnedX
  <2>6. id # chunkID + 1
    BY <1>2, <1>4, NumbersX
  <2> HIDE DEF p
  <2>7. Hits(p, id) = 0
    BY <2>5, <2>6, HitsOfOne
  <2> QED BY <2>5, <2>7 DEF p
<1>6. ASSUME NEW c \in Both, NEW id \in Numbers
      PROVE  /\ Held(registers'[c], id) = Held(registers[c], id)
             /\ Held(dwords'[c], id) = Held(dwords[c], id)
  <2>1. c \in Channel /\ PRIO_PAD \in Nat
    BY ChannelsX DEF Both, PRIO_PAD
  <2>2. /\ dwords[c] \in Seq(ChunkX) /\ registers[c] \in Seq(ChunkX)
        /\ Held(registers[c], id) \in Nat /\ Held(dwords[c], id) \in Nat
    BY <2>1, FoundParts
  <2>3. ASSUME NEW list \in Seq(ChunkX), NEW index \in Int
        PROVE  Held(AddWithPrio(list, Pinned(MapPad, index), PRIO_PAD), id) = Held(list, id)
    <3>1. Held(AddWithPrio(list, Pinned(MapPad, index), PRIO_PAD), id)
            = Held(list, id) + Hits(Pinned(MapPad, index), id)
      BY <1>5, <2>1, HeldAdded
    <3>2. Held(list, id) \in Nat /\ Hits(Pinned(MapPad, index), id) = 0
      BY <1>5, HeldType
    <3> QED BY <3>1, <3>2
  <2>4. registers'[c] \in {registers[c], AddWithPrio(registers[c], Pinned(MapPad, pinIndex), PRIO_PAD)}
    BY <1>3, <2>1 DEF AddTo
  <2>5. dwords'[c] \in {dwords[c], AddWithPrio(dwords[c], Pinned(MapPad, 0), PRIO_PAD)}
    BY <1>2, <1>3, <2>1 DEF WithPad
  <2>6. pinIndex \in Int /\ 0 \in Int
    BY <1>2
  <2> QED BY <2>2, <2>3, <2>4, <2>5, <2>6
<1>7. phase # "scan"
  BY <1>1
<1> QED BY <1>1, <1>6, <1>7, FoundUnscanned

(* Both chunks of a value move into the registers.                         *)
LEMMA FoundMoveInout == TypesX /\ LoopsX /\ FoundInv /\ MoveInout => FoundInv'
<1> SUFFICES ASSUME TypesX, LoopsX, FoundInv, MoveInout  PROVE FoundInv'
  OBVIOUS
<1>1. phase = "inout" /\ InoutFits /\ UNCHANGED <<sig, pos, candidates>>
  BY DEF MoveInout, request
<1> DEFINE at(c) == IF c = CHANNEL_IN THEN InAt ELSE OutAt
<1>2. ASSUME NEW c \in Both
      PROVE  /\ at(c) \in 1 .. Len(dwords[c]) /\ dwords[c][at(c)] \in WordChunk
             /\ dwords'[c] = RemoveElement(dwords[c], at(c))
             /\ registers'[c] = AddWithPrio(registers[c], dwords[c][at(c)], PRIO_INOUT_FIXED)
  <2>1. c \in Channel /\ c \in {CHANNEL_IN, CHANNEL_OUT} /\ CHANNEL_IN # CHANNEL_OUT
    BY ChannelsX DEF Both, CHANNEL_IN, CHANNEL_OUT
  <2>2. at(c) \in 1 .. Len(dwords[c]) /\ dwords[c][at(c)] \in WordChunk
    BY <1>1, <2>1, InoutX
  <2>3. /\ dwords'[c] = RemoveElement(dwords[c], at(c))
        /\ registers'[c] = AddWithPrio(registers[c], dwords[c][at(c)], PRIO_INOUT_FIXED)
    BY <2>1, MoveInoutX
  <2> QED BY <2>2, <2>3
<1> HIDE DEF at
<1>3. ASSUME NEW c \in Both, NEW id \in Numbers
      PROVE  Held(registers'[c], id) + Held(dwords'[c], id)
               = Held(registers[c], id) + Held(dwords[c], id)
  <2>1. c \in Channel
    BY ChannelsX DEF Both
  <2>2. dwords[c] \in Seq(ChunkX) /\ registers[c] \in Seq(ChunkX) /\ PRIO_INOUT_FIXED \in Nat
    BY <2>1, FoundParts DEF PRIO_INOUT_FIXED
  <2> DEFINE x == dwords[c][at(c)]
  <2>3. at(c) \in 1 .. Len(dwords[c]) /\ x \in ChunkX /\ Same(dwords[c][at(c)], x)
    BY <1>2, WordFacts DEF Same
  <2> HIDE DEF x
  <2>4. Held(AddWithPrio(registers[c], x, PRIO_INOUT_FIXED), id)
          + Held(RemoveElement(dwords[c], at(c)), id)
            = Held(registers[c], id) + Held(dwords[c], id)
    BY <2>2, <2>3, HeldMoved
  <2> QED BY <1>2, <2>4 DEF x
<1>4. phase # "scan"
  BY <1>1
<1> QED BY <1>1, <1>3, <1>4, FoundUnscanned

(* The scan takes the chunk at the cursor.                                 *)
LEMMA FoundTaken ==
  ASSUME TypesX, FoundInv, Scanning, NEW to, TakeScanned(to),
         \A id \in Numbers : Held(to, id) = Held(candidates, id) + Hits(Scanned, id)
  PROVE  FoundInv'
<1>1. /\ candidates' = to /\ UNCHANGED <<sig, pos, registers, chan>>
      /\ dwords' = [dwords EXCEPT ![chan] = RemoveElement(dwords[chan], cursor)]
  BY DEF TakeScanned, request
<1>2. dwords \in [Channel -> Seq(WordChunk)] /\ chan \in Channel
  BY DEF TypesX
<1>3. /\ cursor \in 1 .. Len(dwords[chan]) /\ Scanned = dwords[chan][cursor] /\ Scanned \in ChunkX
  BY ScannedX, WordFacts
<1>4. ASSUME NEW c \in Both, NEW id \in Numbers  PROVE Found(c, id)' = Found(c, id)
  <2>1. c \in Channel
    BY ChannelsX DEF Both
  <2>2. /\ Found(c, id)' = Held(registers[c], id) + Held(dwords'[c], id) + Held(Waiting(c)', id)
        /\ Found(c, id) = Held(registers[c], id) + Held(dwords[c], id) + Held(Waiting(c), id)
    BY <1>1 DEF Found
  <2>3. CASE c # chan
    <3>1. dwords'[c] = dwords[c] /\ Waiting(c)' = Waiting(c)
      BY <1>1, <1>2, <2>1, <2>3 DEF Waiting
    <3> QED BY <2>2, <3>1
  <2>4. CASE c = chan
    <3>1. /\ dwords'[c] = RemoveElement(dwords[c], cursor)
          /\ Waiting(c)' = to /\ Waiting(c) = candidates
      BY <1>1, <1>2, <2>1, <2>4 DEF Waiting
    <3>2. /\ dwords[c] \in Seq(ChunkX) /\ Held(registers[c], id) \in Nat
          /\ Held(Waiting(c), id) \in Nat
      BY <2>1, FoundParts
    <3>3. cursor \in 1 .. Len(dwords[c]) /\ Scanned = dwords[c][cursor]
      BY <1>3, <2>4
    <3>4. /\ Held(RemoveElement(dwords[c], cursor), id) \in Nat
          /\ Held(dwords[c], id) = Held(RemoveElement(dwords[c], cursor), id)
                                     + Hits(dwords[c][cursor], id)
      BY <3>2, <3>3, HeldLeft
    <3>5. Hits(Scanned, id) \in Nat
      BY <1>3, HitsOfOne
    <3>6. Held(to, id) = Held(candidates, id) + Hits(Scanned, id)
      OBVIOUS
    <3> QED BY <2>2, <3>1, <3>2, <3>3, <3>4, <3>5, <3>6
  <2> QED BY <2>3, <2>4
<1> QED BY <1>1, <1>4, FoundKept

(* What is taken is the same value.                                        *)
LEMMA TakenHits ==
  ASSUME TypesX, Scanning, NEW id
  PROVE  Hits(Taken, id) = Hits(Scanned, id) /\ Hits(Scanned, id) \in Nat
<1>1. Scanned \in ChunkX /\ Taken \in ChunkX
  BY ScannedX, WordFacts
<1>2. Same(Scanned, Taken)
  BY <1>1 DEF Same, Taken, ChunkX
<1> QED BY <1>1, <1>2, HitsOfOne, HitsOfSame

(* It shares a register with what was taken before.                        *)
LEMMA FoundShare == TypesX /\ FoundInv /\ ShareRegister => FoundInv'
<1> SUFFICES ASSUME TypesX, FoundInv, ShareRegister  PROVE FoundInv'
  OBVIOUS
<1> DEFINE both == Shared(Taken, candidates[Partner])
           rest == RemoveElement(candidates, Partner)
<1>1. Scanning /\ CanShare /\ TakeScanned(AddLast(rest, both))
  BY DEF ShareRegister, Partner
<1>2. candidates \in Seq(ChunkX)
  BY DEF TypesX
<1>3. Partner \in 1 .. Len(candidates) /\ candidates[Partner] \in ChunkX /\ Taken \in ChunkX
  BY <1>1, PartnerX, ScannedX
<1>4. both \in ChunkX
  BY <1>3, SharedX
<1>5. ASSUME NEW id \in Numbers
      PROVE  Held(AddLast(rest, both), id) = Held(candidates, id) + Hits(Scanned, id)
  <2>1. /\ rest \in Seq(ChunkX) /\ Held(rest, id) \in Nat
        /\ Held(candidates, id) = Held(rest, id) + Hits(candidates[Partner], id)
    BY <1>2, <1>3, HeldLeft
  <2>2. Hits(both, id) = Hits(Taken, id) + Hits(candidates[Partner], id)
    BY <1>3, HitsOfShared
  <2>3. Hits(Taken, id) = Hits(Scanned, id) /\ Hits(Scanned, id) \in Nat
    BY <1>1, TakenHits
  <2>4. Hits(candidates[Partner], id) \in Nat
    BY <1>3, HitsOfOne
  <2> HIDE DEF both, rest
  <2>5. Held(AddLast(rest, both), id) = Held(rest, id) + Hits(both, id)
    BY <1>4, <2>1, HeldAppended
  <2> QED BY <2>1, <2>2, <2>3, <2>4, <2>5
<1> HIDE DEF both, rest
<1> QED BY <1>1, <1>5, FoundTaken

(* It gets a register of its own.                                          *)
LEMMA FoundTake == TypesX /\ FoundInv /\ TakeRegister => FoundInv'
<1> SUFFICES ASSUME TypesX, FoundInv, TakeRegister  PROVE FoundInv'
  OBVIOUS
<1>1. Scanning /\ TakeScanned(AddLast(candidates, Taken))
  BY DEF TakeRegister
<1>2. candidates \in Seq(ChunkX) /\ Taken \in ChunkX
  BY <1>1, ScannedX DEF TypesX
<1>3. ASSUME NEW id \in Numbers
      PROVE  Held(AddLast(candidates, Taken), id) = Held(candidates, id) + Hits(Scanned, id)
  BY <1>1, <1>2, HeldAppended, TakenHits
<1> QED BY <1>1, <1>3, FoundTaken

(* What the scan has taken goes to the registers.                          *)
LEMMA FoundMerge == TypesX /\ FoundInv /\ MergeRegisters => FoundInv'
<1> SUFFICES ASSUME TypesX, FoundInv, MergeRegisters  PROVE FoundInv'
  OBVIOUS
<1> DEFINE merged == AddedAll(registers[chan], candidates, PRIO_OUT_FIXED)
<1>1. /\ candidates' = <<>> /\ UNCHANGED <<sig, pos, dwords>>
      /\ registers' = [registers EXCEPT ![chan] = merged]
  BY DEF MergeRegisters, AddedAll, request
<1>2. /\ registers \in [Channel -> Seq(ChunkX)] /\ candidates \in Seq(ChunkX) /\ chan \in Channel
      /\ PRIO_OUT_FIXED \in Nat
  BY DEF TypesX, PRIO_OUT_FIXED
<1>3. ASSUME NEW c \in Both, NEW id \in Numbers  PROVE Found(c, id)' = Found(c, id)
  <2>1. c \in Channel
    BY ChannelsX DEF Both
  <2>2. Waiting(c)' = <<>> /\ Held(<<>>, id) = 0
    BY <1>1, HeldNothing DEF Waiting
  <2>3. /\ Found(c, id)' = Held(registers'[c], id) + Held(dwords[c], id) + 0
        /\ Found(c, id) = Held(registers[c], id) + Held(dwords[c], id) + Held(Waiting(c), id)
    BY <1>1, <2>2 DEF Found
  <2>4. /\ Held(registers[c], id) \in Nat /\ Held(dwords[c], id) \in Nat
        /\ Held(Waiting(c), id) \in Nat /\ registers[c] \in Seq(ChunkX)
    BY <2>1, FoundParts
  <2>5. Held(registers'[c], id) = Held(registers[c], id) + Held(Waiting(c), id)
    <3>1. CASE c # chan
      <4>1. registers'[c] = registers[c] /\ Waiting(c) = <<>>
        BY <1>1, <1>2, <2>1, <3>1 DEF Waiting
      <4> QED BY <2>2, <2>4, <4>1
    <3>2. CASE c = chan
      <4>1. /\ registers'[c] = AddedAll(registers[c], candidates, PRIO_OUT_FIXED)
            /\ Waiting(c) = candidates
        BY <1>1, <1>2, <2>1, <3>2 DEF Waiting
      <4>2. Held(AddedAll(registers[c], candidates, PRIO_OUT_FIXED), id)
              = Held(registers[c], id) + Held(candidates, id)
        BY <1>2, <2>4, HeldAddedAll
      <4> QED BY <4>1, <4>2
    <3> QED BY <3>1, <3>2
  <2> QED BY <2>3, <2>4, <2>5
<1> QED BY <1>1, <1>3, FoundKept

(* Freezing a word does not move it to another list.                       *)
LEMMA FoundFreezeChunk == TypesX /\ LoopsX /\ FoundInv /\ FreezeChunk => FoundInv'
<1> SUFFICES ASSUME TypesX, LoopsX, FoundInv, FreezeChunk  PROVE FoundInv'
  OBVIOUS
<1>1. phase = "freeze" /\ registers' = registers /\ UNCHANGED <<sig, pos, candidates>>
  BY DEF FreezeChunk, request, packing
<1>2. /\ dwords' \in [Channel -> Seq(WordChunk)] /\ dwords \in [Channel -> Seq(WordChunk)]
      /\ \A c \in Channel : c # chan => dwords'[c] = dwords[c]
      /\ DOMAIN dwords'[chan] = DOMAIN dwords[chan]
      /\ dwords'[chan][cursor] = Positioned(dwords[chan][cursor], WordClient, WordServer)
      /\ \A i \in DOMAIN dwords[chan] : i # cursor => dwords'[chan][i] = dwords[chan][i]
  BY FrozenWords DEF TypesX
<1>3. Same(dwords[chan][cursor], dwords'[chan][cursor])
  <2>1. dwords[chan][cursor] \in ChunkX
    BY FreezeChunkX, WordFacts
  <2>2. Same(dwords[chan][cursor], Positioned(dwords[chan][cursor], WordClient, WordServer))
    BY <2>1 DEF Same, Positioned, ChunkX
  <2> QED BY <1>2, <2>2
<1>4. ASSUME NEW c \in Both, NEW id \in Numbers
      PROVE  Held(dwords'[c], id) = Held(dwords[c], id)
  <2>1. c \in Channel
    BY ChannelsX DEF Both
  <2>2. CASE c # chan
    BY <1>2, <2>1, <2>2
  <2>3. CASE c = chan
    <3>1. dwords[c] \in Seq(WordChunk) /\ dwords'[c] \in Seq(WordChunk)
      BY <1>2, <2>1
    <3>2. dwords[c] \in Seq(ChunkX) /\ dwords'[c] \in Seq(ChunkX)
      BY <3>1, WordsAreChunks
    <3>3. DOMAIN dwords'[c] = DOMAIN dwords[c]
      BY <1>2, <2>3
    <3>4. Len(dwords'[c]) = Len(dwords[c])
      BY <3>2, <3>3
    <3>5. \A i \in 1 .. Len(dwords[c]) : Same(dwords[c][i], dwords'[c][i])
      <4> SUFFICES ASSUME NEW i \in 1 .. Len(dwords[c])  PROVE Same(dwords[c][i], dwords'[c][i])
        OBVIOUS
      <4>1. CASE i = cursor
        BY <1>3, <2>3, <4>1
      <4>2. CASE i # cursor
        <5>1. i \in DOMAIN dwords[chan]
          BY <2>3, <3>2
        <5>2. dwords'[c][i] = dwords[c][i]
          BY <1>2, <2>3, <4>2, <5>1
        <5> QED BY <5>2 DEF Same
      <4> QED BY <4>1, <4>2
    <3> QED BY <3>2, <3>4, <3>5, HeldSame
  <2> QED BY <2>2, <2>3
<1>5. phase # "scan"
  BY <1>1
<1> QED BY <1>1, <1>4, <1>5, FoundUnscanned

(* Nor does freezing the registers.                                        *)
LEMMA FoundFreezeChannel == TypesX /\ LoopsX /\ FoundInv /\ FreezeChannel => FoundInv'
<1> SUFFICES ASSUME TypesX, LoopsX, FoundInv, FreezeChannel  PROVE FoundInv'
  OBVIOUS
<1>1. /\ phase = "freeze" /\ dwords' = dwords /\ UNCHANGED <<sig, pos, candidates>>
      /\ registers' = [registers EXCEPT ![chan] = FrozenRegisters(registers[chan])]
  BY DEF FreezeChannel, request, packing
<1>2. registers \in [Channel -> Seq(ChunkX)] /\ chan \in Channel
  BY DEF TypesX
<1>3. ASSUME NEW c \in Both, NEW id \in Numbers
      PROVE  Held(registers'[c], id) = Held(registers[c], id)
  <2>1. c \in Channel
    BY ChannelsX DEF Both
  <2>2. CASE c # chan
    BY <1>1, <1>2, <2>1, <2>2
  <2>3. CASE c = chan
    <3> DEFINE list == registers[c]
               frozen == FrozenRegisters(list)
    <3>1. registers'[c] = frozen /\ list \in Seq(ChunkX)
      BY <1>1, <1>2, <2>1, <2>3
    <3>2. /\ frozen \in Seq(ChunkX) /\ Len(frozen) = Len(list)
          /\ \A i \in 1 .. Len(list) :
               frozen[i] = InRegister(list[i], RegisterIndex(list)[i], Shift)
      BY <3>1, FrozenRegistersX
    <3> HIDE DEF list, frozen
    <3>3. \A i \in 1 .. Len(list) : Same(list[i], frozen[i])
      <4> SUFFICES ASSUME NEW i \in 1 .. Len(list)  PROVE Same(list[i], frozen[i])
        OBVIOUS
      <4>1. list[i] \in ChunkX
        BY <3>1
      <4>2. Same(list[i], InRegister(list[i], RegisterIndex(list)[i], Shift))
        BY <4>1 DEF Same, InRegister, ChunkX
      <4> QED BY <3>2, <4>2
    <3>4. Held(frozen, id) = Held(list, id)
      BY <3>1, <3>2, <3>3, HeldSame
    <3> QED BY <3>1, <3>4 DEF list
  <2> QED BY <2>2, <2>3
<1>4. phase # "scan"
  BY <1>1
<1> QED BY <1>1, <1>3, <1>4, FoundUnscanned

(* Nor does taking the server's room away.                                 *)
LEMMA FoundRestrict == TypesX /\ LoopsX /\ FoundInv /\ RestrictServer => FoundInv'
<1> SUFFICES ASSUME TypesX, LoopsX, FoundInv, RestrictServer  PROVE FoundInv'
  OBVIOUS
<1>1. /\ phase = "restrict" /\ dwords' = dwords /\ UNCHANGED <<sig, pos, candidates>>
      /\ \/ registers' = registers
         \/ registers' = [c \in Channel |-> Without(registers[c], KeptRegisters(c))]
  BY RestrictServerX DEF request, packing
<1>2. registers \in [Channel -> Seq(ChunkX)]
  BY DEF TypesX
<1>3. ASSUME NEW c \in Both, NEW id \in Numbers
      PROVE  Held(registers'[c], id) = Held(registers[c], id)
  <2>1. c \in Channel
    BY ChannelsX DEF Both
  <2> DEFINE list == registers[c]
             keep == KeptRegisters(c)
             without == Without(list, keep)
  <2>2. registers'[c] = list \/ registers'[c] = without
    BY <1>1, <2>1
  <2>3. list \in Seq(ChunkX)
    BY <1>2, <2>1
  <2> HIDE DEF list, keep
  <2>4. /\ without \in Seq(ChunkX) /\ Len(without) = Len(list)
        /\ \A i \in 1 .. Len(list) : without[i] = IF i \in keep THEN list[i] ELSE Unallocated(list[i])
    BY <2>3, WithoutX
  <2> HIDE DEF without
  <2>5. \A i \in 1 .. Len(list) : Same(list[i], without[i])
    <3> SUFFICES ASSUME NEW i \in 1 .. Len(list)  PROVE Same(list[i], without[i])
      OBVIOUS
    <3>1. list[i] \in ChunkX
      BY <2>3
    <3>2. Same(list[i], list[i]) /\ Same(list[i], Unallocated(list[i]))
      BY <3>1 DEF Same, Unallocated, ChunkX
    <3> QED BY <2>4, <3>2
  <2>6. Held(without, id) = Held(list, id)
    BY <2>3, <2>4, <2>5, HeldSame
  <2> QED BY <2>2, <2>6 DEF list
<1>4. phase # "scan"
  BY <1>1
<1> QED BY <1>1, <1>3, <1>4, FoundUnscanned

(* Every step keeps every value where it is due.                           *)
LEMMA FoundStep ==
  TypesX /\ LoopsX /\ ChannelsInv /\ NumbersInv /\ FoundInv /\ [Next]_vars => FoundInv'
<1> SUFFICES ASSUME TypesX, LoopsX, ChannelsInv, NumbersInv, FoundInv, [Next]_vars  PROVE FoundInv'
  OBVIOUS
<1>1. CASE UNCHANGED vars
  <2>1. UNCHANGED <<sig, pos, registers, dwords, candidates, chan>>
    BY <1>1 DEF vars, request, lists, packing
  <2> QED BY <2>1, FoundUntouched
<1>2. CASE AddDopes \/ MeasureAlignment \/ EndInouts \/ PassChunk
  <2>1. UNCHANGED <<sig, pos, registers, dwords, candidates, chan>>
    BY <1>2 DEF AddDopes, MeasureAlignment, EndInouts, PassChunk, request, lists, packing
  <2> QED BY <2>1, FoundUntouched
<1>3. CASE PadStrings \/ Finalize
  <2>1. UNCHANGED <<sig, pos, registers, dwords, candidates, chan>>
    BY <1>3 DEF PadStrings, Finalize, request, packing
  <2> QED BY <2>1, FoundUntouched
<1>4. CASE PlaceReply
  <2>1. UNCHANGED <<sig, pos, registers, dwords, candidates, chan>>
    BY <1>4 DEF PlaceReply, OverlapReply, ReplyBehindInouts, ReplyBehindRequest, Choosing,
       request, lists, packing
  <2> QED BY <2>1, FoundUntouched
<1>5. CASE Finished
  BY <1>1, <1>5 DEF Finished
<1>6. CASE Marshal
  BY <1>6, FoundMarshal
<1>7. CASE AddVarbufs \/ ReserveRegister \/ MoveMap \/ PadMaps
  BY <1>7, FoundVarbufs, FoundReserve, FoundMoveMap, FoundPadMaps
<1>8. CASE MoveInout \/ ShareRegister \/ TakeRegister \/ MergeRegisters
  BY <1>8, FoundMoveInout, FoundShare, FoundTake, FoundMerge
<1>9. CASE FreezeChunk \/ FreezeChannel \/ RestrictServer
  BY <1>9, FoundFreezeChunk, FoundFreezeChannel, FoundRestrict
<1> QED BY <1>1, <1>2, <1>3, <1>4, <1>5, <1>6, <1>7, <1>8, <1>9 DEF Next, FillRegisters, Freeze

(* The numbers go on behind the parameters'.                               *)
LEMMA NumbersStep == TypesX /\ NumbersInv /\ [Next]_vars => NumbersInv'
<1> SUFFICES ASSUME TypesX, NumbersInv, [Next]_vars  PROVE NumbersInv'
  OBVIOUS
<1>1. chunkID \in Nat /\ pos \in Nat /\ Len(sig.params) \in Nat /\ FirstNumber \in {1, 2}
  <2>1. FirstNumber \in {1, 2} /\ Len(sig.params) \in Nat
    BY NumbersX
  <2>2. chunkID \in Nat /\ pos \in 0 .. Len(sig.params)
    BY DEF TypesX
  <2> QED BY <2>1, <2>2
<1>2. sig' = sig /\ FirstNumber' = FirstNumber
  <2>1. sig' = sig
    BY DEF Next, Marshal, SetOption, MarshalExceptionCode, GetFixedCopyChunk, GetStringChunk,
       GetVarbufChunk, GetMapChunk, Marshalling, FillRegisters, AddDopes, AddVarbufs,
       ReserveRegister, MoveMap, PadMaps, MeasureAlignment, MoveInout, EndInouts, ShareRegister,
       TakeRegister, TakeScanned, PassChunk, MergeRegisters, PlaceReply, OverlapReply,
       ReplyBehindInouts, ReplyBehindRequest, Choosing, Freeze, PadStrings, FreezeChunk,
       FreezeChannel, RestrictServer, Finalize, Finished, vars, request
  <2> QED BY <2>1 DEF FirstNumber
<1>3. CASE UNCHANGED vars
  <2>1. UNCHANGED <<phase, pos, chunkID>>
    BY <1>3 DEF vars, request
  <2> QED BY <1>2, <2>1 DEF NumbersInv
<1>4. CASE SetOption \/ MarshalExceptionCode
  <2>1. phase = "options" /\ phase' = "marshal" /\ pos' = pos
    BY <1>4 DEF SetOption, MarshalExceptionCode
  <2>2. chunkID' + 1 = FirstNumber
    BY <1>1, <1>4, <2>1 DEF SetOption, MarshalExceptionCode, FixedCopyChunk, FirstNumber, NumbersInv
  <2>3. pos = 0
    BY <2>1 DEF NumbersInv
  <2> QED BY <1>1, <1>2, <2>1, <2>2, <2>3 DEF NumbersInv
<1>5. CASE GetFixedCopyChunk \/ GetStringChunk \/ GetVarbufChunk \/ GetMapChunk
  <2>1. phase = "marshal" /\ phase' = "marshal" /\ pos' = pos + 1 /\ chunkID' = chunkID + 1
    BY <1>5 DEF GetFixedCopyChunk, FixedCopyChunk, GetStringChunk, GetVarbufChunk, GetMapChunk,
       Marshalling
  <2>2. chunkID + 1 = FirstNumber + pos
    BY <2>1 DEF NumbersInv
  <2>3. chunkID' + 1 = FirstNumber' + pos'
    BY <1>1, <1>2, <2>1, <2>2
  <2> QED BY <2>1, <2>3 DEF NumbersInv
<1>6. CASE AddDopes
  <2> DEFINE next == chunkID + 3 * Cardinality(Channel)
             Saved(n, name, flags, index) ==
               Pinned(Chunk(next + n, name, WordSize, WordSize, {CHANNEL_IN}, flags), index)
             saved == IF platform # "ia32" THEN <<>>
                      ELSE <<Saved(1, "_esp", {ALLOC_SERVER}, -2),
                             Saved(2, "_ebp", {ALLOC_SERVER}, -1),
                             Saved(3, "_caller", {}, 2)>>
  <2>1. /\ phase = "marshal" /\ phase' = "varbufs" /\ pos = Len(sig.params) /\ pos' = pos
        /\ chunkID' = next + Len(saved)
    BY <1>6 DEF AddDopes, request
  <2>2. Len(saved) \in {0, 3}
    <3> HIDE DEF Saved
    <3> QED OBVIOUS
  <2> HIDE DEF saved
  <2>3. Cardinality(Channel) \in Nat
    BY FS_CardinalityType, ChannelsX
  <2>4. chunkID + 1 = FirstNumber + pos
    BY <2>1 DEF NumbersInv
  <2>5. chunkID' >= chunkID /\ chunkID' \in Nat
    BY <1>1, <2>1, <2>2, <2>3
  <2> HIDE DEF next
  <2>6. chunkID' + 1 >= FirstNumber' + pos'
    BY <1>1, <1>2, <2>1, <2>4, <2>5
  <2> QED BY <1>2, <2>1, <2>6 DEF NumbersInv
<1>7. ASSUME phase \notin {"options", "marshal"}, phase' \notin {"options", "marshal"},
             pos' = pos, chunkID' \in Nat, chunkID' >= chunkID
      PROVE  NumbersInv'
  <2>1. pos = Len(sig.params) /\ chunkID + 1 >= FirstNumber + pos
    BY <1>7 DEF NumbersInv
  <2>2. chunkID' + 1 >= FirstNumber' + pos'
    BY <1>1, <1>2, <1>7, <2>1
  <2> QED BY <1>2, <1>7, <2>1, <2>2 DEF NumbersInv
<1>8. CASE AddVarbufs
  <2> DEFINE with == {c \in Channel : vars_[c] # <<>>}
  <2>1. phase = "varbufs" /\ phase' = "reserve" /\ pos' = pos /\ chunkID' = chunkID + Cardinality(with)
    BY <1>8 DEF AddVarbufs, request
  <2>2. Cardinality(with) \in Nat
    <3>1. with \in SUBSET Channel
      OBVIOUS
    <3> HIDE DEF with
    <3>2. IsFiniteSet(with)
      BY <3>1, ChannelsX, FS_Subset
    <3> QED BY <3>2, FS_CardinalityType
  <2> HIDE DEF with
  <2>3. chunkID' \in Nat /\ chunkID' >= chunkID
    BY <1>1, <2>1, <2>2
  <2> QED BY <1>7, <2>1, <2>3
<1>9. CASE PadMaps
  <2>1. phase = "maps" /\ pos' = pos /\ chunkID' \in {chunkID, chunkID + 1}
    BY <1>9 DEF PadMaps, request
  <2>2. phase' \in {"pad_assertion", "reserve", "align"}
    BY <1>9 DEF PadMaps, Advance
  <2>3. chunkID' \in Nat /\ chunkID' >= chunkID
    BY <1>1, <2>1
  <2> QED BY <1>7, <2>1, <2>2, <2>3
<1>10. CASE ReserveRegister \/ MoveMap \/ MeasureAlignment \/ MoveInout \/ EndInouts \/ ShareRegister
              \/ TakeRegister \/ PassChunk \/ MergeRegisters
  <2>1. /\ phase \notin {"options", "marshal"} /\ phase' \notin {"options", "marshal"}
        /\ pos' = pos /\ chunkID' = chunkID
    BY <1>10 DEF ReserveRegister, MoveMap, MeasureAlignment, MoveInout, EndInouts, ShareRegister,
       TakeRegister, TakeScanned, Scanning, PassChunk, MergeRegisters, Advance, request
  <2>2. chunkID' \in Nat /\ chunkID' >= chunkID
    BY <1>1, <2>1
  <2> QED BY <1>7, <2>1, <2>2
<1>11. CASE PlaceReply \/ Freeze \/ Finished
  <2>1. /\ phase \notin {"options", "marshal"} /\ phase' \notin {"options", "marshal"}
        /\ pos' = pos /\ chunkID' = chunkID
    BY <1>11 DEF PlaceReply, OverlapReply, ReplyBehindInouts, ReplyBehindRequest, Choosing,
       Freeze, PadStrings, FreezeChunk, FreezeChannel, RestrictServer, Finalize, Finished, Final,
       Advance, vars, request
  <2>2. chunkID' \in Nat /\ chunkID' >= chunkID
    BY <1>1, <2>1
  <2> QED BY <1>7, <2>1, <2>2
<1> QED BY <1>3, <1>4, <1>5, <1>6, <1>8, <1>9, <1>10, <1>11 DEF Next, Marshal, FillRegisters

(* Both hold at first: nothing is marshalled yet.                          *)
LEMMA FoundInit == Init => NumbersInv /\ FoundInv
<1> SUFFICES ASSUME Init  PROVE NumbersInv /\ FoundInv
  OBVIOUS
<1>1. /\ phase = "options" /\ pos = 0 /\ chunkID = 0 /\ candidates = <<>>
      /\ registers = [c \in Channel |-> <<>>] /\ dwords = [c \in Channel |-> <<>>]
  BY DEF Init
<1>2. ASSUME NEW c \in Both, NEW id \in Numbers  PROVE Found(c, id) = Wanted(c, id)
  <2>1. registers[c] = <<>> /\ dwords[c] = <<>> /\ Waiting(c) = <<>>
    BY <1>1, ChannelsX DEF Both, Waiting
  <2>2. Found(c, id) = 0
    BY <2>1, HeldNothing DEF Found
  <2>3. 1 .. pos = {}
    BY <1>1
  <2>4. Wanted(c, id) = 0
    BY <2>3 DEF Wanted
  <2> QED BY <2>2, <2>4
<1> QED BY <1>1, <1>2 DEF NumbersInv, FoundInv

-----------------------------------------------------------------------------
(* Request and reply in one buffer                                         *)

(* The end of the first i words of a channel on the client.                *)
End(c, i) == IF i = 0 THEN HeaderSize ELSE dwords[c][i].client + dwords[c][i].size

(* A word as close to the one before it as its alignment allows.           *)
Laid(c, i) == dwords[c][i].client = AlignUp(End(c, i - 1), dwords[c][i].align)

(* No padding but what an alignment needs.                                 *)
LaidInv ==
  /\ phase = "freeze" =>
       /\ clientPos = End(chan, cursor - 1)
       /\ \A c \in Channel : c < chan => \A i \in DOMAIN dwords[c] : Laid(c, i)
       /\ \A i \in DOMAIN dwords[chan] : i < cursor => Laid(chan, i)
  /\ phase \in Frozen => \A c \in Channel : \A i \in DOMAIN dwords[c] : Laid(c, i)

(* The bytes of the first i chunks of a list.                              *)
Leading(list, i) == Bytes(SubSeq(list, 1, i))

(* The reply begins behind the first n words of the request, none of which *)
(* goes back, and with the words that follow them there.                   *)
Overlapped(n) ==
  /\ svrOutputOffset = Leading(In, n)
  /\ \A i \in 1 .. n : ~HasOut(In[i])
  /\ Len(In) - n <= Len(Out)
  /\ \A k \in 1 .. Len(In) - n : In[n + k].id = Out[k].id

(* The reply lies behind the words of the request, or overlaps with it so. *)
OverlapInv ==
  phase \in Moved =>
    \/ overlap = "none" /\ svrOutputOffset >= Bytes(In)
    \/ overlap = "inouts" /\ \E n \in 0 .. Len(In) : Overlapped(n)

(* Lists of chunks with the same sizes have the same bytes.                *)
LEMMA BytesAlike ==
  ASSUME NEW list \in Seq(WordChunk), NEW other \in Seq(WordChunk), Len(other) = Len(list),
         \A i \in 1 .. Len(list) : other[i].size = list[i].size
  PROVE  Bytes(other) = Bytes(list)
<1> DEFINE n == Len(list)
<1>1. \A x \in WordChunk : x.size \in Nat
  BY WordFacts
<1>2. PICK f : Summing(list, f) /\ Bytes(list) = f[n]
  BY <1>1, BytesSum
<1>3. PICK g : Summing(other, g) /\ Bytes(other) = g[n]
  BY <1>1, BytesSum
<1>4. n \in Nat
  OBVIOUS
<1>5. /\ f[0] = 0 /\ \A i \in 1 .. n : f[i] = f[i - 1] + list[i].size
      /\ g[0] = 0 /\ \A i \in 1 .. n : g[i] = g[i - 1] + other[i].size
  BY <1>2, <1>3 DEF Summing
<1> HIDE DEF n
<1> DEFINE G == {i \in 0 .. n : g[i] = f[i]}
<1>6. 0 \in G
  BY <1>4, <1>5
<1>7. ASSUME NEW i \in 0 .. n - 1, i \in G  PROVE i + 1 \in G
  <2> DEFINE j == i + 1
  <2>1. j \in 1 .. n /\ j - 1 = i /\ j \in 0 .. n
    BY <1>4
  <2> HIDE DEF j
  <2>2. f[j] = f[j - 1] + list[j].size /\ g[j] = g[j - 1] + other[j].size
    BY <1>5, <2>1
  <2>3. other[j].size = list[j].size
    BY <2>1 DEF n
  <2> QED BY <1>7, <2>1, <2>2, <2>3 DEF j
<1>8. 0 .. n \subseteq G
  <2> HIDE DEF G
  <2> QED BY <1>4, <1>6, <1>7, UpToInduction
<1>9. n \in 0 .. n
  BY <1>4
<1> QED BY <1>2, <1>3, <1>8, <1>9 DEF n

(* The first chunks of a list.                                             *)
LEMMA FirstChunks ==
  ASSUME NEW list \in Seq(WordChunk), NEW i \in 0 .. Len(list)
  PROVE  /\ SubSeq(list, 1, i) \in Seq(WordChunk) /\ Len(SubSeq(list, 1, i)) = i
         /\ \A k \in 1 .. i : SubSeq(list, 1, i)[k] = list[k]
<1>1. \A k \in 1 .. i : list[k] \in WordChunk
  OBVIOUS
<1> QED BY <1>1

(* One chunk more adds its bytes.                                          *)
LEMMA LeadingMore ==
  ASSUME NEW list \in Seq(WordChunk), NEW i \in 1 .. Len(list)
  PROVE  Leading(list, i) = Leading(list, i - 1) + list[i].size
<1> DEFINE more == SubSeq(list, 1, i)
           less == SubSeq(list, 1, i - 1)
<1>1. i \in 0 .. Len(list) /\ i - 1 \in 0 .. Len(list) /\ i \in Nat
  OBVIOUS
<1>2. /\ more \in Seq(WordChunk) /\ Len(more) = i /\ \A k \in 1 .. i : more[k] = list[k]
      /\ less \in Seq(WordChunk) /\ Len(less) = i - 1 /\ \A k \in 1 .. i - 1 : less[k] = list[k]
  BY <1>1, FirstChunks
<1>3. \A x \in WordChunk : x.size \in Nat
  BY WordFacts
<1> HIDE DEF more, less
<1>4. PICK f : Summing(more, f) /\ Bytes(more) = f[i]
  BY <1>2, <1>3, BytesSum
<1>5. PICK g : Summing(less, g) /\ Bytes(less) = g[i - 1]
  BY <1>2, <1>3, BytesSum
<1>6. /\ f[0] = 0 /\ \A k \in 1 .. i : f[k] = f[k - 1] + list[k].size
      /\ g[0] = 0 /\ \A k \in 1 .. i - 1 : g[k] = g[k - 1] + list[k].size
  BY <1>1, <1>2, <1>4, <1>5 DEF Summing
<1> DEFINE n == i - 1
           G == {k \in 0 .. n : g[k] = f[k]}
<1>7. n \in Nat /\ 0 \in G /\ n + 1 = i
  BY <1>1, <1>6
<1>8. ASSUME NEW k \in 0 .. n - 1, k \in G  PROVE k + 1 \in G
  <2> DEFINE j == k + 1
  <2>1. j \in 1 .. i /\ j \in 1 .. i - 1 /\ j - 1 = k /\ j \in 0 .. n
    BY <1>1, <1>7
  <2> HIDE DEF j
  <2>2. f[j] = f[j - 1] + list[j].size /\ g[j] = g[j - 1] + list[j].size
    BY <1>6, <2>1
  <2> QED BY <1>8, <2>1, <2>2 DEF j
<1>9. 0 .. n \subseteq G
  <2> HIDE DEF G, n
  <2> QED BY <1>7, <1>8, UpToInduction
<1>10. g[i - 1] = f[i - 1]
  BY <1>1, <1>9
<1>11. f[i] = f[i - 1] + list[i].size
  BY <1>1, <1>6
<1> QED BY <1>4, <1>5, <1>10, <1>11 DEF Leading, more, less

(* The bytes of none and of all chunks, and they are numbers.              *)
LEMMA LeadingX ==
  ASSUME NEW list \in Seq(WordChunk)
  PROVE  /\ Leading(list, 0) = 0 /\ Leading(list, Len(list)) = Bytes(list)
         /\ \A i \in 0 .. Len(list) : Leading(list, i) \in Nat
<1>1. \A x \in WordChunk : x.size \in Nat
  BY WordFacts
<1>2. 0 \in 0 .. Len(list) /\ Len(list) \in 0 .. Len(list)
  OBVIOUS
<1>3. ASSUME NEW i \in 0 .. Len(list)  PROVE Leading(list, i) \in Nat
  <2>1. SubSeq(list, 1, i) \in Seq(WordChunk)
    BY FirstChunks
  <2> QED BY <1>1, <2>1, BytesType DEF Leading
<1>4. Leading(list, Len(list)) = Bytes(list)
  <2> DEFINE all == SubSeq(list, 1, Len(list))
  <2>1. all \in Seq(WordChunk) /\ Len(all) = Len(list) /\ \A k \in 1 .. Len(list) : all[k] = list[k]
    BY <1>2, FirstChunks
  <2> HIDE DEF all
  <2>2. Bytes(all) = Bytes(list)
    BY <2>1, BytesAlike
  <2> QED BY <2>2 DEF Leading, all
<1>5. Leading(list, 0) = 0
  <2> DEFINE none == SubSeq(list, 1, 0)
  <2>1. none \in Seq(WordChunk) /\ Len(none) = 0
    BY <1>2, FirstChunks
  <2> HIDE DEF none
  <2>2. PICK f : Summing(none, f) /\ Bytes(none) = f[0]
    BY <1>1, <2>1, BytesSum
  <2>3. Bytes(none) = 0
    BY <2>2 DEF Summing
  <2> QED BY <2>3 DEF Leading, none
<1> QED BY <1>3, <1>4, <1>5

(* More chunks have no fewer bytes.                                        *)
LEMMA LeadingGrows ==
  ASSUME NEW list \in Seq(WordChunk), NEW j \in 0 .. Len(list), NEW i \in 0 .. j
  PROVE  Leading(list, i) <= Leading(list, j)
<1> DEFINE n == Len(list)
           G == {k \in 0 .. n : \A m \in 0 .. k : Leading(list, m) <= Leading(list, k)}
<1>1. n \in Nat /\ \A k \in 0 .. n : Leading(list, k) \in Nat
  BY LeadingX
<1>2. 0 \in G
  <2>1. \A m \in 0 .. 0 : m = 0
    OBVIOUS
  <2>2. Leading(list, 0) <= Leading(list, 0)
    BY <1>1
  <2> QED BY <1>1, <2>1, <2>2
<1>3. ASSUME NEW k \in 0 .. n - 1, k \in G  PROVE k + 1 \in G
  <2> DEFINE l == k + 1
  <2>1. l \in 1 .. n /\ l \in 0 .. n /\ k \in 0 .. n /\ l - 1 = k
    BY <1>1
  <2>2. list[l].size \in Nat
    <3>1. list[l] \in WordChunk
      BY <2>1
    <3> QED BY <3>1, WordFacts
  <2>3. Leading(list, l) = Leading(list, k) + list[l].size
    <3> HIDE DEF l
    <3>1. l \in 1 .. Len(list)
      BY <2>1
    <3>2. Leading(list, l) = Leading(list, l - 1) + list[l].size
      BY <3>1, LeadingMore
    <3> QED BY <2>1, <3>2
  <2>4. Leading(list, k) \in Nat /\ Leading(list, l) \in Nat
    BY <1>1, <2>1
  <2>5. Leading(list, k) <= Leading(list, l) /\ Leading(list, l) <= Leading(list, l)
    BY <2>2, <2>3, <2>4
  <2>6. ASSUME NEW m \in 0 .. l  PROVE Leading(list, m) <= Leading(list, l)
    <3>1. CASE m = l
      BY <2>5, <3>1
    <3>2. CASE m # l
      <4>1. m \in 0 .. k /\ m \in 0 .. n
        BY <1>1, <3>2
      <4>2. Leading(list, m) <= Leading(list, k) /\ Leading(list, m) \in Nat
        BY <1>1, <1>3, <4>1
      <4> QED BY <2>4, <2>5, <4>2
    <3> QED BY <3>1, <3>2
  <2> QED BY <2>1, <2>6
<1>4. 0 .. n \subseteq G
  <2> HIDE DEF G, n
  <2> QED BY <1>1, <1>2, <1>3, UpToInduction
<1> QED BY <1>4

(* What was laid stays where it is.                                        *)
LEMMA LaidKept ==
  ASSUME NEW c, NEW i \in Nat \ {0}, dwords'[c][i] = dwords[c][i],
         i = 1 \/ dwords'[c][i - 1] = dwords[c][i - 1], Laid(c, i)
  PROVE  Laid(c, i)'
<1>1. End(c, i - 1)' = End(c, i - 1)
  BY DEF End, HeaderSize
<1> QED BY <1>1 DEF Laid

(* So does a whole channel.                                                *)
LEMMA LaidChannel ==
  ASSUME TypesX, NEW c \in Channel, dwords'[c] = dwords[c], \A i \in DOMAIN dwords[c] : Laid(c, i)
  PROVE  \A i \in DOMAIN dwords'[c] : Laid(c, i)'
<1> SUFFICES ASSUME NEW i \in DOMAIN dwords[c]  PROVE Laid(c, i)'
  OBVIOUS
<1>1. dwords[c] \in Seq(WordChunk)
  BY DEF TypesX
<1>2. i \in Nat \ {0}
  BY <1>1
<1> QED BY <1>2, LaidKept

(* The first word of a channel comes behind the registers.                 *)
LEMMA LaidPadStrings == TypesX /\ LoopsX /\ PadStrings => LaidInv'
<1> SUFFICES ASSUME TypesX, LoopsX, PadStrings  PROVE LaidInv'
  OBVIOUS
<1>1. /\ phase = "pad" /\ phase' = "freeze" /\ clientPos' = HeaderSize
      /\ chan' = chan /\ cursor' = cursor /\ dwords' = dwords
  BY DEF PadStrings
<1>2. chan = CHANNEL_IN /\ cursor = 1
  BY <1>1 DEF LoopsX, Looping
<1>3. clientPos' = End(chan, cursor - 1)'
  <2>1. cursor' - 1 = 0
    BY <1>1, <1>2
  <2> QED BY <1>1, <2>1 DEF End, HeaderSize
<1>4. \A c \in Channel : ~(c < chan')
  BY <1>1, <1>2, ChannelsX DEF CHANNEL_IN
<1>5. \A i \in DOMAIN dwords'[chan'] : ~(i < cursor')
  <2>1. dwords[chan] \in Seq(WordChunk)
    BY DEF TypesX
  <2>2. DOMAIN dwords'[chan'] = 1 .. Len(dwords[chan])
    BY <1>1, <2>1
  <2> QED BY <1>1, <1>2, <2>2
<1> QED BY <1>1, <1>3, <1>4, <1>5 DEF LaidInv, Frozen

(* Every word comes behind the one before it.                              *)
LEMMA LaidFreezeChunk == TypesX /\ AlignInv /\ PlacesInv /\ LaidInv /\ FreezeChunk => LaidInv'
<1> SUFFICES ASSUME TypesX, AlignInv, PlacesInv, LaidInv, FreezeChunk  PROVE LaidInv'
  OBVIOUS
<1> DEFINE x == dwords[chan][cursor]
<1>1. /\ phase = "freeze" /\ phase' = "freeze" /\ WordClient = AlignUp(clientPos, x.align)
      /\ cursor \in 1 .. Len(dwords[chan]) /\ x \in WordChunk
      /\ WordClient \in Int /\ WordServer \in Int /\ cursor' = cursor + 1
      /\ clientPos' = WordClient + x.size /\ chan' = chan
  BY FreezeChunkX, ChunkPlaced
<1>2. chan \in Channel /\ Channel \subseteq Nat /\ dwords[chan] \in Seq(WordChunk)
  BY ChannelsX DEF TypesX
<1>3. /\ \A c \in Channel : c # chan => dwords'[c] = dwords[c]
      /\ DOMAIN dwords'[chan] = DOMAIN dwords[chan]
      /\ dwords'[chan][cursor] = Positioned(x, WordClient, WordServer)
      /\ \A i \in DOMAIN dwords[chan] : i # cursor => dwords'[chan][i] = dwords[chan][i]
  BY FrozenWords
<1>4. LET y == Positioned(x, WordClient, WordServer) IN
      y.client = WordClient /\ y.size = x.size /\ y.align = x.align
  <2>1. x \in ChunkX
    BY <1>1, WordFacts
  <2> QED BY <1>1, <2>1, PositionedX
<1> HIDE DEF x
<1>5. /\ dwords'[chan][cursor].client = WordClient /\ dwords'[chan][cursor].size = x.size
      /\ dwords'[chan][cursor].align = x.align
  BY <1>3, <1>4
<1>6. clientPos = End(chan, cursor - 1)
  BY <1>1 DEF LaidInv
<1>7. clientPos' = End(chan, cursor - 1)'
  <2>1. cursor' - 1 = cursor /\ cursor # 0
    BY <1>1, <1>2
  <2> QED BY <1>1, <1>5, <2>1 DEF End
<1>8. ASSUME NEW c \in Channel, c < chan'  PROVE \A i \in DOMAIN dwords'[c] : Laid(c, i)'
  <2>1. c < chan /\ c # chan
    BY <1>1, <1>2, <1>8
  <2>2. \A i \in DOMAIN dwords[c] : Laid(c, i)
    BY <1>1, <2>1 DEF LaidInv
  <2> QED BY <1>3, <2>1, <2>2, LaidChannel
<1>9. ASSUME NEW i \in DOMAIN dwords'[chan'], i < cursor'  PROVE Laid(chan, i)'
  <2>1. i \in DOMAIN dwords[chan] /\ i \in 1 .. Len(dwords[chan]) /\ i <= cursor
    BY <1>1, <1>2, <1>3, <1>9
  <2>2. CASE i = cursor
    <3>1. cursor # 1 => dwords'[chan][cursor - 1] = dwords[chan][cursor - 1]
      <4>1. cursor # 1 => cursor - 1 \in DOMAIN dwords[chan] /\ cursor - 1 # cursor
        BY <1>1, <1>2
      <4> QED BY <1>3, <4>1
    <3> DEFINE e == End(chan, cursor - 1)
               to == IF cursor - 1 = 0 THEN HeaderSize
                     ELSE dwords'[chan][cursor - 1].client + dwords'[chan][cursor - 1].size
    <3>2. to = e
      BY <1>1, <3>1 DEF End
    <3>3. Laid(chan, i)' <=> dwords'[chan'][i].client = AlignUp(to, dwords'[chan'][i].align)
      BY <1>1, <2>2 DEF Laid, End, HeaderSize
    <3> HIDE DEF to, e
    <3> QED BY <1>1, <1>5, <1>6, <2>2, <3>2, <3>3 DEF e
  <2>3. CASE i # cursor
    <3>1. i < cursor /\ Laid(chan, i)
      BY <1>1, <1>2, <2>1, <2>3 DEF LaidInv
    <3>2. i = 1 \/ (i - 1 \in DOMAIN dwords[chan] /\ i - 1 # cursor)
      BY <1>1, <1>2, <2>1, <3>1
    <3>3. dwords'[chan][i] = dwords[chan][i] /\ (i = 1 \/ dwords'[chan][i - 1] = dwords[chan][i - 1])
      BY <1>3, <2>1, <2>3, <3>2
    <3>4. i \in Nat \ {0}
      BY <2>1
    <3> QED BY <1>1, <3>1, <3>3, <3>4, LaidKept
  <2> QED BY <2>2, <2>3
<1> QED BY <1>1, <1>7, <1>8, <1>9 DEF LaidInv, Frozen

(* The next channel begins behind the registers, too.                      *)
LEMMA LaidFreezeChannel == TypesX /\ LaidInv /\ FreezeChannel => LaidInv'
<1> SUFFICES ASSUME TypesX, LaidInv, FreezeChannel  PROVE LaidInv'
  OBVIOUS
<1>1. /\ phase = "freeze" /\ cursor > Len(dwords[chan]) /\ cursor' = 1
      /\ dwords' = dwords /\ clientPos' = HeaderSize
      /\ phase' = "pin_assertion" \/ Advance("freeze", "restrict")
  BY DEF FreezeChannel
<1>2. /\ chan \in Channel /\ cursor \in Nat /\ dwords \in [Channel -> Seq(WordChunk)]
      /\ Channel = 0 .. NumExceptions + 1 /\ NumExceptions \in Nat
  BY ConnectionXAssumption DEF TypesX, Channel
<1>3. ASSUME NEW c \in Channel, c <= chan  PROVE \A i \in DOMAIN dwords'[c] : Laid(c, i)'
  <2>1. \A i \in DOMAIN dwords[c] : Laid(c, i)
    <3>1. CASE c = chan
      <4>1. \A i \in DOMAIN dwords[c] : i < cursor
        BY <1>1, <1>2, <3>1
      <4> QED BY <1>1, <3>1, <4>1 DEF LaidInv
    <3>2. CASE c # chan
      <4>1. c < chan
        BY <1>2, <1>3, <3>2
      <4> QED BY <1>1, <4>1 DEF LaidInv
    <3> QED BY <3>1, <3>2
  <2> QED BY <1>1, <2>1, LaidChannel
<1>4. CASE phase' = "pin_assertion"
  BY <1>4 DEF LaidInv, Frozen
<1>5. CASE Advance("freeze", "restrict") /\ chan = NumExceptions + 1
  <2>1. phase' = "restrict"
    BY <1>5 DEF Advance
  <2>2. \A c \in Channel : c <= chan
    BY <1>2, <1>5
  <2> QED BY <1>3, <2>1, <2>2 DEF LaidInv
<1>6. CASE Advance("freeze", "restrict") /\ chan # NumExceptions + 1
  <2>1. phase' = "freeze" /\ chan' = chan + 1
    BY <1>6 DEF Advance
  <2>2. \A c \in Channel : c < chan' => c <= chan
    BY <1>2, <2>1
  <2>3. chan' \in Channel
    BY <1>2, <1>6, <2>1
  <2>4. clientPos' = End(chan, cursor - 1)'
    <3>1. cursor' - 1 = 0
      BY <1>1
    <3> QED BY <1>1, <3>1 DEF End, HeaderSize
  <2>5. \A i \in DOMAIN dwords'[chan'] : ~(i < cursor')
    <3>1. dwords'[chan'] \in Seq(WordChunk)
      BY <1>1, <1>2, <2>3
    <3> QED BY <1>1, <3>1
  <2> QED BY <1>3, <2>1, <2>2, <2>4, <2>5 DEF LaidInv, Frozen
<1> QED BY <1>1, <1>4, <1>5, <1>6

(* Every step keeps the words as close as they are.                        *)
LEMMA LaidStep ==
  TypesX /\ LoopsX /\ AlignInv /\ RegistersInv /\ PlacesInv /\ LaidInv /\ [Next]_vars => LaidInv'
<1> SUFFICES ASSUME TypesX, LoopsX, AlignInv, RegistersInv, PlacesInv, LaidInv, [Next]_vars
             PROVE  LaidInv'
  OBVIOUS
<1>1. CASE UNCHANGED vars
  BY <1>1 DEF vars, lists, place, LaidInv, Laid, End, HeaderSize
<1>2. CASE Finished
  BY <1>1, <1>2 DEF Finished
<1>3. CASE Marshal \/ FillRegisters \/ PlaceReply
  BY <1>3, PhaseBefore DEF LaidInv
<1>4. CASE RestrictServer \/ Finalize
  <2>1. phase \in Frozen /\ phase' \in Frozen /\ dwords' = dwords
    BY <1>4 DEF RestrictServer, Finalize, Frozen
  <2>2. ASSUME NEW c \in Channel  PROVE \A i \in DOMAIN dwords'[c] : Laid(c, i)'
    <3>1. \A i \in DOMAIN dwords[c] : Laid(c, i)
      BY <2>1 DEF LaidInv
    <3> QED BY <2>1, <3>1, LaidChannel
  <2>3. phase' # "freeze"
    BY <2>1 DEF Frozen
  <2> QED BY <2>2, <2>3 DEF LaidInv
<1> QED BY <1>1, <1>2, <1>3, <1>4, LaidPadStrings, LaidFreezeChunk, LaidFreezeChannel
        DEF Next, Freeze

(* Words that differ at most in their places.                              *)
SameWords(list, from) ==
  /\ Len(list) = Len(from)
  /\ \A i \in 1 .. Len(from) :
       list[i].id = from[i].id /\ list[i].size = from[i].size /\ list[i].chans = from[i].chans

(* The first of them have the same bytes.                                  *)
LEMMA LeadingAlike ==
  ASSUME NEW list \in Seq(WordChunk), NEW from \in Seq(WordChunk), SameWords(list, from),
         NEW i \in 0 .. Len(from)
  PROVE  Leading(list, i) = Leading(from, i)
<1> DEFINE a == SubSeq(list, 1, i)
           b == SubSeq(from, 1, i)
<1>1. Len(list) = Len(from) /\ i \in 0 .. Len(list) /\ i \in Nat
  BY DEF SameWords
<1>2. /\ a \in Seq(WordChunk) /\ Len(a) = i /\ \A k \in 1 .. i : a[k] = list[k]
      /\ b \in Seq(WordChunk) /\ Len(b) = i /\ \A k \in 1 .. i : b[k] = from[k]
  BY <1>1, FirstChunks
<1>3. \A k \in 1 .. i : k \in 1 .. Len(from)
  OBVIOUS
<1>4. \A k \in 1 .. Len(b) : a[k].size = b[k].size
  <2> HIDE DEF a, b
  <2> QED BY <1>2, <1>3 DEF SameWords
<1>5. Bytes(a) = Bytes(b)
  <2> HIDE DEF a, b
  <2> QED BY <1>2, <1>4, BytesAlike
<1> QED BY <1>5 DEF Leading

(* Moving words to their places leaves the reply where it begins.          *)
LEMMA OverlapKept ==
  ASSUME TypesX, TypesX', OverlapInv, phase \in Moved, overlap' = overlap,
         svrOutputOffset' = svrOutputOffset, SameWords(In', In), SameWords(Out', Out)
  PROVE  OverlapInv'
<1>1. /\ In \in Seq(WordChunk) /\ Out \in Seq(WordChunk)
      /\ In' \in Seq(WordChunk) /\ Out' \in Seq(WordChunk)
  BY ChannelsX DEF TypesX, In, Out
<1>2. \A i \in 0 .. Len(In) : Leading(In', i) = Leading(In, i)
  BY <1>1, LeadingAlike
<1>3. Len(In') = Len(In) /\ Len(Out') = Len(Out) /\ Len(In) \in Nat /\ Len(Out) \in Nat
  BY <1>1 DEF SameWords
<1>4. Bytes(In') = Bytes(In)
  <2>1. Leading(In, Len(In)) = Bytes(In) /\ Leading(In', Len(In')) = Bytes(In')
    BY <1>1, LeadingX
  <2>2. Leading(In', Len(In)) = Leading(In, Len(In))
    BY <1>2, <1>3
  <2> QED BY <1>3, <2>1, <2>2
<1>5. CASE overlap = "none" /\ svrOutputOffset >= Bytes(In)
  BY <1>4, <1>5 DEF OverlapInv
<1>6. CASE overlap = "inouts" /\ \E n \in 0 .. Len(In) : Overlapped(n)
  <2>1. PICK n \in 0 .. Len(In) : Overlapped(n)
    BY <1>6
  <2>2. svrOutputOffset' = Leading(In', n)
    BY <1>2, <2>1 DEF Overlapped
  <2>3. ASSUME NEW i \in 1 .. n  PROVE ~HasOut(In'[i])
    <3>1. i \in 1 .. Len(In) /\ ~HasOut(In[i])
      BY <1>3, <2>1 DEF Overlapped
    <3> QED BY <3>1 DEF SameWords, HasOut
  <2>4. Len(In') - n <= Len(Out')
    BY <1>3, <2>1 DEF Overlapped
  <2>5. ASSUME NEW k \in 1 .. Len(In) - n  PROVE In'[n + k].id = Out'[k].id
    <3>1. n + k \in 1 .. Len(In) /\ k \in 1 .. Len(Out) /\ In[n + k].id = Out[k].id
      BY <1>3, <2>1 DEF Overlapped
    <3> QED BY <3>1 DEF SameWords
  <2>6. Overlapped(n)'
    BY <1>3, <2>2, <2>3, <2>4, <2>5 DEF Overlapped, HasOut
  <2> QED BY <1>3, <1>6, <2>6 DEF OverlapInv
<1> QED BY <1>5, <1>6 DEF OverlapInv

(* Putting a word in its place changes nothing else about it.              *)
LEMMA SameFreezeChunk ==
  ASSUME TypesX, FreezeChunk, NEW c \in Channel
  PROVE  SameWords(dwords'[c], dwords[c])
<1> DEFINE list == dwords[c]
<1>1. list \in Seq(WordChunk) /\ dwords'[c] \in Seq(WordChunk)
  BY FrozenWords DEF TypesX
<1>2. CASE c # chan
  BY <1>2, FrozenWords DEF SameWords
<1>3. CASE c = chan
  <2>1. DOMAIN dwords'[c] = DOMAIN list
    BY <1>3, FrozenWords
  <2>2. Len(dwords'[c]) = Len(list)
    BY <1>1, <2>1
  <2>3. ASSUME NEW i \in 1 .. Len(list)
        PROVE  /\ dwords'[c][i].id = list[i].id /\ dwords'[c][i].size = list[i].size
               /\ dwords'[c][i].chans = list[i].chans
    <3>1. CASE i = cursor
      <4>1. list[cursor] \in ChunkX /\ WordClient \in Int /\ WordServer \in Int
        BY <1>3, FreezeChunkX, WordFacts
      <4>2. dwords'[c][i] = Positioned(list[cursor], WordClient, WordServer)
        BY <1>3, <3>1, FrozenWords
      <4> HIDE DEF list
      <4> QED BY <3>1, <4>1, <4>2, PositionedX
    <3>2. CASE i # cursor
      <4>1. i \in DOMAIN list
        BY <1>1
      <4> QED BY <1>3, <3>2, <4>1, FrozenWords
    <3> QED BY <3>1, <3>2
  <2> HIDE DEF list
  <2> QED BY <2>2, <2>3 DEF SameWords, list
<1> QED BY <1>2, <1>3

(* The reply begins behind the request, or behind the words that do not go *)
(* back if it begins with all the others.                                  *)
LEMMA OverlapPlaced == TypesX /\ PlaceReply => OverlapInv'
<1> SUFFICES ASSUME TypesX, PlaceReply  PROVE OverlapInv'
  OBVIOUS
<1>1. In' = In /\ Out' = Out
  BY DEF PlaceReply, OverlapReply, ReplyBehindInouts, ReplyBehindRequest, Choosing, lists, In, Out
<1>2. In \in Seq(WordChunk) /\ Out \in Seq(WordChunk) /\ Len(In) \in Nat /\ Len(Out) \in Nat
  <2>1. In \in Seq(WordChunk) /\ Out \in Seq(WordChunk)
    BY ChannelsX DEF TypesX, In, Out
  <2> QED BY <2>1
<1>3. /\ Bytes(In) \in Nat /\ PlainInSize \in Nat /\ VarbufSize \in Nat /\ HeaderSize \in Nat
      /\ outAlign \in Alignments
  BY RequestSizes DEF TypesX, Alignments
<1>4. PlainInSize = Leading(In, PureIn)
  BY DEF PlainInSize, Leading
<1>5. CASE ReplyBehindInouts
  <2> DEFINE s == Bytes(In) + VarbufSize
  <2>1. overlap' = "none" /\ svrOutputOffset' = AlignUp(s, outAlign)
    BY <1>5 DEF ReplyBehindInouts, Choosing
  <2>2. s \in Int /\ s >= Bytes(In)
    BY <1>3
  <2> HIDE DEF s
  <2>3. AlignUp(s, outAlign) >= s /\ AlignUp(s, outAlign) \in Int
    BY <1>3, <2>2, AlignUpX
  <2>4. svrOutputOffset' >= Bytes(In)
    BY <1>3, <2>1, <2>2, <2>3
  <2> QED BY <1>1, <2>1, <2>4 DEF OverlapInv
<1>6. CASE ReplyBehindRequest
  <2> DEFINE s == PlainInSize + HeaderSize + VarbufSize
  <2>1. overlap' = "none" /\ svrOutputOffset' = AlignUp(s, outAlign) /\ PureIn = Len(In)
    BY <1>6 DEF ReplyBehindRequest, Choosing
  <2>2. PlainInSize = Bytes(In)
    BY <1>2, <1>4, <2>1, LeadingX
  <2>3. s \in Int /\ s >= Bytes(In)
    BY <1>3, <2>2
  <2> HIDE DEF s
  <2>4. AlignUp(s, outAlign) >= s /\ AlignUp(s, outAlign) \in Int
    BY <1>3, <2>3, AlignUpX
  <2>5. svrOutputOffset' >= Bytes(In)
    BY <1>3, <2>1, <2>3, <2>4
  <2> QED BY <1>1, <2>1, <2>5 DEF OverlapInv
<1>7. CASE OverlapReply
  <2>1. /\ overlap' = "inouts" /\ svrOutputOffset' = PlainInSize
        /\ PureIn + Common = Len(In)
    BY <1>7 DEF OverlapReply, CanOverlap, Choosing
  <2> DEFINE P == {i \in DOMAIN In : \A j \in 1 .. i : ~HasOut(In[j])}
             n == PureIn
             m == Len(In) - n
             Q == {k \in 1 .. m : \A i \in 1 .. k : i <= Len(Out) /\ In[n + i].id = Out[i].id}
  <2>2. n \in 0 .. Len(In) /\ P = 1 .. n
    <3>1. P \in SUBSET (1 .. Len(In))
      BY <1>2
    <3>2. \A i \in P : \A j \in 1 .. i : j \in P
      BY <1>2
    <3>3. n = Cardinality(P)
      BY DEF PureIn
    <3> HIDE DEF P, n
    <3> QED BY <1>2, <3>1, <3>2, <3>3, InitialSegment
  <2>3. m \in Nat /\ Common = m
    <3>1. Common \in 0 .. m
      <4>1. m \in Nat /\ Q \in SUBSET (1 .. m)
        BY <1>2, <2>2
      <4>2. Common = Cardinality(Q)
        BY DEF Common
      <4> HIDE DEF Q, m
      <4> QED BY <4>1, <4>2, CountedX
    <3> QED BY <1>2, <2>1, <2>2, <3>1
  <2>4. Q = 1 .. m
    <3>1. Q \in SUBSET (1 .. m)
      OBVIOUS
    <3>2. \A i \in Q : \A j \in 1 .. i : j \in Q
      <4> HIDE DEF n, m
      <4> QED BY <2>3
    <3>3. Common = Cardinality(Q)
      BY DEF Common
    <3> HIDE DEF Q, n, m
    <3> QED BY <2>3, <3>1, <3>2, <3>3, InitialSegment
  <2>5. \A i \in 1 .. n : ~HasOut(In[i])
    <3> SUFFICES ASSUME NEW i \in 1 .. n  PROVE ~HasOut(In[i])
      OBVIOUS
    <3>1. i \in P /\ i \in 1 .. i
      <4> HIDE DEF P, n
      <4> QED BY <2>2
    <3> QED BY <3>1
  <2>6. \A k \in 1 .. m : k <= Len(Out) /\ In[n + k].id = Out[k].id
    <3> SUFFICES ASSUME NEW k \in 1 .. m  PROVE k <= Len(Out) /\ In[n + k].id = Out[k].id
      OBVIOUS
    <3>1. k \in Q /\ k \in 1 .. k
      <4> HIDE DEF Q, m
      <4> QED BY <2>3, <2>4
    <3> QED BY <3>1
  <2>7. m <= Len(Out)
    <3> HIDE DEF m, n
    <3>1. CASE m = 0
      BY <1>2, <3>1
    <3>2. CASE m # 0
      <4>1. m \in 1 .. m
        BY <2>3, <3>2
      <4> QED BY <2>6, <4>1
    <3> QED BY <3>1, <3>2
  <2> HIDE DEF P, Q, m, n
  <2>8. PICK l \in 0 .. Len(In) : l = n
    BY <2>2
  <2>9. m = Len(In) - l
    BY <2>8 DEF m
  <2>10. svrOutputOffset' = Leading(In', l) /\ Len(In') - l <= Len(Out')
    BY <1>1, <1>4, <2>1, <2>7, <2>8, <2>9 DEF n
  <2>11. /\ \A i \in 1 .. l : ~HasOut(In'[i])
         /\ \A k \in 1 .. Len(In') - l : In'[l + k].id = Out'[k].id
    BY <1>1, <2>5, <2>6, <2>8, <2>9
  <2>12. Overlapped(l)'
    BY <2>10, <2>11 DEF Overlapped, HasOut
  <2>13. l \in 0 .. Len(In')
    BY <1>1
  <2> QED BY <2>1, <2>12, <2>13 DEF OverlapInv
<1> QED BY <1>5, <1>6, <1>7 DEF PlaceReply

(* Every step keeps it so.                                                 *)
LEMMA OverlapStep == TypesX /\ RegistersInv /\ OverlapInv /\ [Next]_vars => OverlapInv'
<1> SUFFICES ASSUME TypesX, RegistersInv, OverlapInv, [Next]_vars  PROVE OverlapInv'
  OBVIOUS
<1>1. TypesX'
  BY TypesStep
<1>2. CASE UNCHANGED vars
  BY <1>2 DEF vars, lists, offsets, OverlapInv, Overlapped, In, Out, HasOut
<1>3. CASE Finished
  BY <1>2, <1>3 DEF Finished
<1>4. CASE Marshal \/ FillRegisters
  <2>1. phase' \notin Frozen \cup {"freeze"} /\ NoFailure' /\ (phase' = "pad" => PlaceReply)
    BY <1>4, PhaseBefore
  <2>2. CASE phase' = "pad"
    BY <2>1, <2>2, OverlapPlaced
  <2>3. CASE phase' # "pad"
    BY <2>1, <2>3 DEF OverlapInv, NoFailure, Moved, Frozen
  <2> QED BY <2>2, <2>3
<1>5. CASE PlaceReply
  BY <1>5, OverlapPlaced
<1>6. CASE FreezeChunk
  <2>1. /\ phase \in Moved /\ overlap' = overlap /\ svrOutputOffset' = svrOutputOffset
    BY <1>6 DEF FreezeChunk, Moved, offsets
  <2>2. SameWords(In', In) /\ SameWords(Out', Out)
    BY <1>6, SameFreezeChunk, ChannelsX DEF In, Out
  <2> QED BY <1>1, <2>1, <2>2, OverlapKept
<1>7. CASE PadStrings \/ FreezeChannel \/ RestrictServer \/ Finalize
  <2>1. /\ phase \in Moved /\ overlap' = overlap /\ svrOutputOffset' = svrOutputOffset
        /\ dwords' = dwords
    BY <1>7 DEF PadStrings, FreezeChannel, RestrictServer, Finalize, Moved, offsets
  <2>2. SameWords(In', In) /\ SameWords(Out', Out)
    BY <2>1 DEF In, Out, SameWords
  <2> QED BY <1>1, <2>1, <2>2, OverlapKept
<1> QED BY <1>2, <1>3, <1>4, <1>5, <1>6, <1>7 DEF Next, Freeze

(* A position is as aligned as the strictest of the reply's words demands. *)
LEMMA AlignmentDivides ==
  ASSUME NEW d \in Nat, NEW a \in Alignments, NEW b \in {4, 8}, a <= b, d % b = 0
  PROVE  d % a = 0
<1>1. CASE b = 4
  BY <1>1 DEF Alignments
<1>2. CASE b = 8
  BY <1>2 DEF Alignments
<1> QED BY <1>1, <1>2

(* What an aligned number of bytes ahead is aligned is so itself.          *)
LEMMA AlignedBefore ==
  ASSUME NEW s \in Nat, NEW e \in Nat, NEW d \in Nat, NEW a \in Alignments, s = e + d,
         s % a = 0, d % a = 0
  PROVE  e % a = 0
<1>1. CASE a = 1
  BY <1>1
<1>2. CASE a = 2
  BY <1>2
<1>3. CASE a = 4
  BY <1>3
<1>4. CASE a = 8
  BY <1>4
<1> QED BY <1>1, <1>2, <1>3, <1>4 DEF Alignments

(* Every word lies behind all those before it.                             *)
LEMMA LaidOrder ==
  ASSUME TypesX, NEW c \in Channel, \A i \in DOMAIN dwords[c] : Laid(c, i),
         NEW j \in DOMAIN dwords[c], NEW i \in 0 .. j - 1
  PROVE  dwords[c][j].client \in Nat /\ End(c, i) \in Nat /\ End(c, i) <= dwords[c][j].client
<1> DEFINE list == dwords[c]
           n == Len(list)
           G == {k \in 0 .. n : \A m \in 0 .. k : End(c, m) \in Nat /\ End(c, m) <= End(c, k)}
<1>1. list \in Seq(WordChunk) /\ n \in Nat /\ DOMAIN list = 1 .. n
  BY DEF TypesX
<1>2. ASSUME NEW k \in 1 .. n
      PROVE  list[k].size \in Nat /\ list[k].align \in Alignments
  <2>1. list[k] \in WordChunk
    BY <1>1
  <2> QED BY <2>1, WordFacts
<1>3. ASSUME NEW k \in 1 .. n, End(c, k - 1) \in Nat
      PROVE  /\ list[k].client \in Nat /\ End(c, k - 1) <= list[k].client
             /\ End(c, k) \in Nat /\ End(c, k - 1) <= End(c, k)
  <2>1. list[k].client = AlignUp(End(c, k - 1), list[k].align)
    BY <1>1 DEF Laid
  <2>2. End(c, k) = list[k].client + list[k].size
    BY DEF End
  <2>3. End(c, k - 1) \in Int
    BY <1>3
  <2> DEFINE e == End(c, k - 1)
             a == list[k].align
  <2>4. a \in Alignments /\ list[k].size \in Nat
    BY <1>2
  <2> HIDE DEF e, a, list
  <2>5. AlignUp(e, a) >= e /\ AlignUp(e, a) \in Nat
    BY <1>3, <2>3, <2>4, AlignUpX DEF e
  <2> QED BY <1>3, <2>1, <2>2, <2>4, <2>5 DEF e, a
<1>4. 0 \in G
  <2>1. End(c, 0) \in Nat
    BY RequestSizes DEF End
  <2>2. \A m \in 0 .. 0 : m = 0
    OBVIOUS
  <2> QED BY <1>1, <2>1, <2>2
<1>5. ASSUME NEW k \in 0 .. n - 1, k \in G  PROVE k + 1 \in G
  <2> DEFINE l == k + 1
  <2>1. l \in 1 .. n /\ l \in 0 .. n /\ l - 1 = k /\ k \in 0 .. k
    BY <1>1
  <2>2. \A m \in 0 .. k : End(c, m) \in Nat /\ End(c, m) <= End(c, k)
    BY <1>5
  <2> HIDE DEF l, G
  <2>3. End(c, l) \in Nat /\ End(c, k) <= End(c, l) /\ End(c, k) \in Nat
    BY <1>3, <2>1, <2>2
  <2>4. ASSUME NEW m \in 0 .. l  PROVE End(c, m) \in Nat /\ End(c, m) <= End(c, l)
    <3>1. CASE m = l
      BY <2>3, <3>1
    <3>2. CASE m # l
      <4>1. m \in 0 .. k
        BY <3>2, <2>1 DEF l
      <4>2. End(c, m) \in Nat /\ End(c, m) <= End(c, k)
        BY <2>2, <4>1
      <4> QED BY <2>3, <4>2
    <3> QED BY <3>1, <3>2
  <2> QED BY <2>1, <2>4 DEF G, l
<1>6. 0 .. n \subseteq G
  <2> HIDE DEF G, n
  <2> QED BY <1>1, <1>4, <1>5, UpToInduction
<1>7. j \in 1 .. n /\ j - 1 \in 0 .. n /\ i \in 0 .. j - 1 /\ i \in 0 .. n
  BY <1>1
<1>8. /\ End(c, i) \in Nat /\ End(c, j - 1) \in Nat /\ End(c, i) <= End(c, j - 1)
  <2>1. j - 1 \in G /\ j - 1 \in 0 .. j - 1
    BY <1>6, <1>7
  <2> QED BY <1>7, <2>1
<1>9. list[j].client \in Nat /\ End(c, j - 1) <= list[j].client
  <2> HIDE DEF list, n, G
  <2> QED BY <1>3, <1>7, <1>8
<1> QED BY <1>8, <1>9

(* Where the words of an unpadded request and the reply lie in the         *)
(* server's buffer.                                                        *)
LEMMA ServerWords ==
  ASSUME TypesX, LaidInv, PlacesInv, Done, RequestUnpadded
  PROVE  /\ \A i \in DOMAIN In :
              /\ In[i].server = HeaderSize + Leading(In, i - 1) /\ In[i].server \in Nat
              /\ In[i].server % In[i].align = 0
              /\ In[i].server + In[i].size = HeaderSize + Leading(In, i)
         /\ \A k \in DOMAIN Out :
              /\ Out[k].server = Out[k].client + svrOutputOffset /\ Out[k].server \in Nat
              /\ Out[k].server >= HeaderSize + svrOutputOffset
              /\ \A l \in 1 .. k - 1 : Out[l].server + Out[l].size <= Out[k].server
<1>1. /\ In \in Seq(WordChunk) /\ Out \in Seq(WordChunk)
      /\ In = dwords[CHANNEL_IN] /\ Out = dwords[CHANNEL_OUT]
      /\ CHANNEL_IN \in Channel /\ CHANNEL_OUT \in Channel
  BY ChannelsX DEF TypesX, In, Out
<1>2. phase \in Frozen /\ svrOutputOffset \in Nat /\ HeaderSize \in Nat
  BY RequestSizes DEF Done, Frozen, TypesX
<1>3. \A c \in Channel : \A i \in DOMAIN dwords[c] : Laid(c, i) /\ Placed(c, i)
  BY <1>2 DEF LaidInv, PlacesInv
<1>4. ASSUME NEW i \in DOMAIN In
      PROVE  /\ In[i].server = HeaderSize + Leading(In, i - 1) /\ In[i].server \in Nat
             /\ In[i].server % In[i].align = 0
             /\ In[i].server + In[i].size = HeaderSize + Leading(In, i)
  <2>1. In[i] \in WordChunk /\ i \in 1 .. Len(In)
    BY <1>1
  <2>2. In[i].align \in Alignments /\ In[i].size \in Nat /\ In[i].client \in Int
    BY <2>1, WordFacts DEF ChunkX
  <2>3. In[i].server = HeaderSize + Leading(In, i - 1)
    BY <1>1 DEF RequestUnpadded, Leading
  <2>4. Leading(In, i) = Leading(In, i - 1) + In[i].size /\ Leading(In, i - 1) \in Nat
    <3>1. i - 1 \in 0 .. Len(In)
      BY <2>1
    <3> QED BY <1>1, <2>1, <3>1, LeadingMore, LeadingX
  <2>5. In[i].server = In[i].client
    BY <1>1, <1>3, <2>2 DEF Placed, Displacement, CHANNEL_IN, CHANNEL_OUT
  <2>6. End(CHANNEL_IN, i - 1) \in Nat
    <3>1. i - 1 \in 0 .. i - 1
      BY <2>1
    <3> QED BY <1>1, <1>3, <3>1, LaidOrder
  <2>7. In[i].client = AlignUp(End(CHANNEL_IN, i - 1), In[i].align)
    BY <1>1, <1>3 DEF Laid
  <2>8. In[i].client % In[i].align = 0
    BY <2>2, <2>6, <2>7, AlignUpX
  <2> QED BY <1>2, <2>2, <2>3, <2>4, <2>5, <2>8
<1>5. ASSUME NEW k \in DOMAIN Out
      PROVE  /\ Out[k].server = Out[k].client + svrOutputOffset /\ Out[k].server \in Nat
             /\ Out[k].server >= HeaderSize + svrOutputOffset
             /\ \A l \in 1 .. k - 1 : Out[l].server + Out[l].size <= Out[k].server
  <2>1. k \in 1 .. Len(Out) /\ Len(Out) \in Nat
    BY <1>1
  <2>2. \A l \in DOMAIN Out : Out[l].server = Out[l].client + svrOutputOffset
    BY <1>1, <1>3 DEF Placed, Displacement
  <2>3. \A i \in 0 .. k - 1 : Out[k].client \in Nat /\ End(CHANNEL_OUT, i) <= Out[k].client
    BY <1>1, <1>3, LaidOrder
  <2>4. Out[k].client \in Nat /\ HeaderSize <= Out[k].client
    <3>1. 0 \in 0 .. k - 1
      BY <2>1
    <3> QED BY <2>3, <3>1 DEF End
  <2>5. ASSUME NEW l \in 1 .. k - 1  PROVE Out[l].server + Out[l].size <= Out[k].server
    <3>1. l \in 0 .. k - 1 /\ l # 0 /\ l \in DOMAIN Out
      BY <1>1, <2>1
    <3>2. Out[l].client + Out[l].size <= Out[k].client
      BY <1>1, <2>3, <3>1 DEF End
    <3>3. Out[l].client \in Int /\ Out[l].size \in Nat
      <4>1. Out[l] \in WordChunk
        BY <1>1, <3>1
      <4> QED BY <4>1, WordFacts DEF ChunkX
    <3> QED BY <1>2, <2>2, <2>4, <3>1, <3>2, <3>3
  <2> QED BY <1>2, <2>2, <2>4, <2>5
<1> QED BY <1>4, <1>5

(* Where the reply begins with words of the request it finds them where    *)
(* the request has them.                                                   *)
LEMMA RepliesMatch ==
  ASSUME TypesX, IdsInv, AlignInv, LaidInv, PlacesInv, Done, RequestUnpadded,
         NEW n \in 0 .. Len(In), Overlapped(n), NEW k \in 1 .. Len(In) - n
  PROVE  k \in DOMAIN Out /\ In[n + k].server = Out[k].server /\ In[n + k].size = Out[k].size
<1> DEFINE m == Len(In) - n
           G == {i \in 0 .. m : End(CHANNEL_OUT, i) + svrOutputOffset = HeaderSize + Leading(In, n + i)}
<1>1. /\ In \in Seq(WordChunk) /\ Out \in Seq(WordChunk) /\ m \in Nat /\ n \in Nat
      /\ In = dwords[CHANNEL_IN] /\ Out = dwords[CHANNEL_OUT]
      /\ CHANNEL_IN \in Channel /\ CHANNEL_OUT \in Channel
  BY ChannelsX DEF TypesX, In, Out
<1>2. /\ phase \in Frozen /\ svrOutputOffset \in Nat /\ HeaderSize \in Nat
      /\ outAlign \in {4, 8} /\ svrOutputOffset % outAlign = 0
      /\ \A x \in ToSet(Out) : x.align <= outAlign
  <2>1. phase \in Frozen /\ phase \in Measured /\ phase \in Moved
    BY DEF Done, Frozen, Measured, Moved
  <2>2. HeaderSize \in Nat
    BY RequestSizes
  <2>3. svrOutputOffset \in Nat /\ outAlign \in {4, 8}
    BY DEF TypesX
  <2>4. svrOutputOffset % outAlign = 0 /\ \A x \in ToSet(Out) : x.align <= outAlign
    BY <1>1, <2>1 DEF AlignInv
  <2> QED BY <2>1, <2>2, <2>3, <2>4
<1>3. \A i \in DOMAIN Out : Laid(CHANNEL_OUT, i)
  BY <1>1, <1>2 DEF LaidInv
<1>4. ASSUME NEW i \in 1 .. m
      PROVE  /\ i \in DOMAIN Out /\ n + i \in DOMAIN In
             /\ In[n + i].size = Out[i].size /\ In[n + i].align = Out[i].align
             /\ Out[i].size \in Nat /\ Out[i].align \in Alignments /\ Out[i].align <= outAlign
  <2>1. i \in DOMAIN Out /\ n + i \in DOMAIN In /\ In[n + i].id = Out[i].id
    BY <1>1 DEF Overlapped
  <2>2. In[n + i] \in ToSet(In) /\ Out[i] \in ToSet(Out) /\ Out[i] \in WordChunk
    BY <1>1, <2>1 DEF ToSet
  <2>3. Twins(In[n + i], Out[i])
    BY <1>1, <2>1, <2>2 DEF IdsInv
  <2> QED BY <1>2, <2>1, <2>2, <2>3, WordFacts DEF Twins
<1>5. \A i \in DOMAIN In :
        /\ In[i].server = HeaderSize + Leading(In, i - 1) /\ In[i].server \in Nat
        /\ In[i].server % In[i].align = 0
        /\ In[i].server + In[i].size = HeaderSize + Leading(In, i)
  BY ServerWords
<1>6. \A i \in DOMAIN Out : Out[i].server = Out[i].client + svrOutputOffset
  BY ServerWords
<1> HIDE DEF m
<1>7. ASSUME NEW i \in 1 .. m,
             End(CHANNEL_OUT, i - 1) + svrOutputOffset = HeaderSize + Leading(In, n + (i - 1))
      PROVE  /\ In[n + i].server = Out[i].server
             /\ End(CHANNEL_OUT, i) + svrOutputOffset = HeaderSize + Leading(In, n + i)
  <2> DEFINE e == End(CHANNEL_OUT, i - 1)
             a == Out[i].align
             s == In[n + i].server
  <2>1. s = e + svrOutputOffset /\ s \in Nat /\ s % a = 0
    <3>1. n + i \in DOMAIN In /\ In[n + i].align = a
      BY <1>4
    <3>2. (n + i) - 1 = n + (i - 1)
      BY <1>1
    <3>3. s = HeaderSize + Leading(In, n + (i - 1)) /\ s \in Nat /\ s % a = 0
      BY <1>5, <3>1, <3>2
    <3> QED BY <1>7, <3>3
  <2>2. e \in Nat
    <3>1. i - 1 \in 0 .. i - 1 /\ i \in DOMAIN Out
      BY <1>1, <1>4
    <3> QED BY <1>1, <1>3, <3>1, LaidOrder
  <2>3. a \in Alignments /\ a <= outAlign
    BY <1>4
  <2> HIDE DEF e, a, s
  <2>4. svrOutputOffset % a = 0
    BY <1>2, <2>3, AlignmentDivides
  <2>5. e % a = 0
    BY <1>2, <2>1, <2>2, <2>3, <2>4, AlignedBefore
  <2>6. AlignUp(e, a) = e
    <3>1. 0 \in Nat /\ 0 % a = 0 /\ e + 0 = e /\ e \in Int
      BY <2>2, <2>3 DEF Alignments
    <3>2. AlignUp(e + 0, a) = e + 0
      BY <2>3, <2>5, <3>1, AlignedFurther
    <3> QED BY <3>1, <3>2
  <2>7. Out[i].client = e
    <3>1. Out[i].client = AlignUp(e, a)
      BY <1>1, <1>3, <1>4 DEF Laid, e, a
    <3> QED BY <2>6, <3>1
  <2>8. Out[i].server = s
    BY <1>4, <1>6, <2>1, <2>7
  <2>9. End(CHANNEL_OUT, i) = e + Out[i].size
    <3>1. i # 0
      BY <1>1
    <3> QED BY <1>1, <2>7, <3>1 DEF End
  <2>10. s + Out[i].size = HeaderSize + Leading(In, n + i)
    <3>1. n + i \in DOMAIN In /\ In[n + i].size = Out[i].size
      BY <1>4
    <3>2. In[n + i].server + In[n + i].size = HeaderSize + Leading(In, n + i)
      BY <1>5, <3>1
    <3> QED BY <3>1, <3>2 DEF s
  <2>11. End(CHANNEL_OUT, i) + svrOutputOffset = s + Out[i].size
    <3>1. Out[i].size \in Nat
      BY <1>4
    <3>2. svrOutputOffset \in Nat /\ s = e + svrOutputOffset
      BY <1>2, <2>1
    <3> QED BY <2>2, <2>9, <3>1, <3>2
  <2> QED BY <2>8, <2>10, <2>11 DEF s
<1>8. 0 \in G
  <2>1. End(CHANNEL_OUT, 0) = HeaderSize /\ svrOutputOffset = Leading(In, n) /\ n + 0 = n
    BY <1>1 DEF End, Overlapped
  <2> QED BY <1>1, <2>1
<1>9. ASSUME NEW i \in 0 .. m - 1, i \in G  PROVE i + 1 \in G
  <2> DEFINE l == i + 1
  <2>1. l \in 1 .. m /\ l \in 0 .. m /\ l - 1 = i
    BY <1>1
  <2> HIDE DEF l
  <2>2. End(CHANNEL_OUT, l) + svrOutputOffset = HeaderSize + Leading(In, n + l)
    BY <1>7, <1>9, <2>1
  <2> QED BY <2>1, <2>2 DEF l
<1>10. 0 .. m \subseteq G
  <2> HIDE DEF G
  <2> QED BY <1>1, <1>8, <1>9, UpToInduction
<1>11. k \in 1 .. m /\ k - 1 \in G
  <2>1. k \in 1 .. m
    BY DEF m
  <2>2. k - 1 \in 0 .. m
    BY <1>1, <2>1
  <2> QED BY <1>10, <2>1, <2>2
<1> QED BY <1>4, <1>7, <1>11

-----------------------------------------------------------------------------
(* The theorems                                                            *)

(* The invariant holds in every state.                                     *)
LEMMA LayoutAlways == Spec => []LayoutInvX
<1>1. Init => LayoutInvX
  BY InitX
<1>2. LayoutInvX /\ [Next]_vars => LayoutInvX'
  <2> SUFFICES ASSUME LayoutInvX, [Next]_vars  PROVE LayoutInvX'
    OBVIOUS
  <2>1. /\ TypesX /\ LoopsX /\ ChannelsInv /\ IdsInv /\ AlignInv /\ RegistersInv
        /\ PlacesInv /\ NoFailure
    BY DEF LayoutInvX
  <2>2. TypesX'
    BY <2>1, TypesStep
  <2>3. LoopsX' /\ ChannelsInv' /\ IdsInv' /\ AlignInv'
    BY <2>1, <2>2, LoopsStep, ChannelsStep, IdsStep, AlignStep
  <2>4. RegistersInv' /\ PlacesInv' /\ NoFailure'
    BY <2>1, RegistersStep, PlacesStep, FailureStep
  <2> QED BY <2>2, <2>3, <2>4 DEF LayoutInvX
<1> QED BY <1>1, <1>2, PTL DEF Spec

(* The lists hold chunks, the loops stay in their bounds and registers are *)
(* never counted beyond what there are, however many parameters and        *)
(* exceptions the operation has.                                           *)
THEOREM TypesCorrect == Spec => []TypeOK
<1>1. LayoutInvX => TypeOK
  <2> SUFFICES ASSUME TypesX  PROVE TypeOK
    BY DEF LayoutInvX
  <2>1. ASSUME NEW x \in ChunkX  PROVE IsChunk(x)
    BY DEF ChunkX, IsChunk, Number, Alignments, Flags
  <2>2. ASSUME NEW x \in WordChunk  PROVE IsChunk(x)
    BY <2>1, WordFacts
  <2>3. ASSUME NEW c \in Channel
        PROVE  \A list \in {dopes[c], registers[c], dwords[c], vars_[c], strings[c]} :
                 \A i \in DOMAIN list : IsChunk(list[i])
    <3>1. /\ dopes[c] \in Seq(ChunkX) /\ registers[c] \in Seq(ChunkX)
          /\ dwords[c] \in Seq(WordChunk) /\ vars_[c] \in Seq(ChunkX)
      BY DEF TypesX
    <3>2. ASSUME NEW list \in Seq(ChunkX), NEW i \in DOMAIN list  PROVE IsChunk(list[i])
      <4>1. list[i] \in ChunkX
        OBVIOUS
      <4> QED BY <2>1, <4>1
    <3>3. \A i \in DOMAIN dwords[c] : IsChunk(dwords[c][i])
      BY <2>2, <3>1
    <3>4. \A i \in DOMAIN strings[c] : IsChunk(strings[c][i])
      <4>1. CASE phase = "done"
        BY <4>1 DEF TypesX
      <4>2. CASE phase # "done"
        <5>1. strings[c] \in Seq(ChunkX)
          BY <4>2 DEF TypesX
        <5> QED BY <3>2, <5>1
      <4> QED BY <4>1, <4>2
    <3> QED BY <3>1, <3>2, <3>3, <3>4
  <2>4. /\ pos \in 0 .. Len(sig.params) /\ chan \in Channel /\ regsUsed \in [Channel -> 0 .. NumRegs]
        /\ regsLeft \in 0 .. NumRegs /\ outAlign \in {4, 8} /\ svrOutputOffset \in Nat
    BY DEF TypesX
  <2> QED BY <2>3, <2>4 DEF TypeOK
<1> QED BY <1>1, LayoutAlways, PTL

(* The assertions of optimize hold for every operation: the padding behind *)
(* map items finds two registers, no word chunk is aligned on one side and *)
(* misaligned on the other, and no pinned register is taken already.       *)
THEOREM LayoutNeverFails == Spec => []NoLayoutAssertion
<1>1. LayoutInvX => NoLayoutAssertion
  BY DEF LayoutInvX, NoFailure, NoLayoutAssertion
<1> QED BY <1>1, LayoutAlways, PTL

(* No two values of a message get the same bytes of a register, and none   *)
(* gets a register that does not exist, whatever the four loops put there. *)
THEOREM RegistersNeverShared == Spec => []RegistersDisjoint
<1>1. LayoutInvX => RegistersDisjoint
  <2> SUFFICES ASSUME LayoutInvX, Done, NEW c \in Channel
               PROVE  /\ \A chunk \in Registers(c) :
                           chunk.clientIndex >= 0 /\ chunk.client + chunk.size <= HeaderSize
                      /\ \A i, j \in DOMAIN registers[c] :
                           LET a == registers[c][i]
                               b == registers[c][j]
                           IN  i < j => Apart(a.client, a.client + a.size, b.client, b.client + b.size)
    BY DEF RegistersDisjoint
  <2> DEFINE list == registers[c]
             at(i) == DopeSize + WordSize * Register(c, i)
             end(i) == at(i) + list[i].size
  <2>1. Filled(c) /\ Settled(c) /\ list \in Seq(ChunkX)
    BY DEF LayoutInvX, TypesX, RegistersInv, PlacesInv, Moved, Frozen, Done
  <2>2. \A i \in DOMAIN list : list[i].clientIndex = Register(c, i) /\ list[i].client = at(i)
    BY <2>1 DEF Settled
  <2>3. \A i \in DOMAIN list : list[i].size \in Nat
    <3>1. \A x \in ChunkX : x.size \in Nat
      BY DEF ChunkX
    <3>2. \A i \in DOMAIN list : list[i] \in ChunkX
      BY <2>1
    <3> QED BY <3>1, <3>2
  <2>4. /\ \A i \in DOMAIN list : Register(c, i) >= 0 /\ end(i) <= HeaderSize
        /\ \A i, j \in DOMAIN list : i < j => end(i) <= at(j)
    <3>1. CASE Plain(list, Reserved(c)) /\ Len(list) <= NumRegs
      <4> DEFINE n == Len(list)
      <4>1. /\ Reserved(c) \in {0, 1} /\ n \in Nat /\ DOMAIN list = 1 .. n /\ NumRegs \in Nat
            /\ n <= NumRegs /\ n >= Reserved(c)
        BY <2>1, <3>1, ConnectionXAssumption DEF Plain
      <4>2. ASSUME NEW i \in 1 .. n  PROVE list[i].size <= 4 /\ list[i].size \in Nat
        <5>1. CASE i \in 1 .. n - Reserved(c)
          BY <2>3, <3>1, <4>1, <5>1 DEF Plain, Value, Loose, WordSize
        <5>2. CASE Reserved(c) = 1 /\ i = n
          BY <2>3, <3>1, <4>1, <5>2 DEF Plain, Ident, WordSize
        <5> QED BY <4>1, <5>1, <5>2
      <4>3. ASSUME NEW i \in 1 .. n
            PROVE  /\ Register(c, i) \in Nat /\ Register(c, i) < NumRegs
                   /\ \A j \in 1 .. n : i < j => Register(c, i) + 1 <= Register(c, j)
        BY <4>1 DEF Register
      <4>4. ASSUME NEW i \in 1 .. n
            PROVE  /\ end(i) <= at(i) + 4 /\ end(i) \in Int
                   /\ at(i) = 12 + 4 * Register(c, i) /\ at(i) \in Int
        <5> HIDE DEF n, list
        <5> QED BY <4>2, <4>3 DEF DopeSize, WordSize
      <4>5. HeaderSize = 12 + 4 * NumRegs
        BY <4>1 DEF HeaderSize, WordSize
      <4> HIDE DEF n, list, at, end
      <4>6. ASSUME NEW i \in 1 .. n  PROVE Register(c, i) >= 0 /\ end(i) <= HeaderSize
        BY <4>1, <4>3, <4>4, <4>5
      <4>7. ASSUME NEW i \in 1 .. n, NEW j \in 1 .. n, i < j  PROVE end(i) <= at(j)
        <5>1. Register(c, i) + 1 <= Register(c, j)
          BY <4>3, <4>7
        <5>2. /\ Register(c, i) \in Nat /\ Register(c, j) \in Nat /\ end(i) \in Int
              /\ end(i) <= at(i) + 4 /\ at(i) = 12 + 4 * Register(c, i)
              /\ at(j) = 12 + 4 * Register(c, j)
          BY <4>3, <4>4
        <5> QED BY <5>1, <5>2
      <4> QED BY <4>1, <4>6, <4>7
    <3>2. CASE Mapped(list) /\ Reserved(c) = 1
      <4>1. /\ NumRegs = 3 /\ Len(list) = 2 /\ DOMAIN list = {1, 2}
            /\ list[1].size = 8 /\ list[2].size = 4
        BY <2>1, <3>2 DEF Mapped, MapItem, Ident, WordSize
      <4>2. Register(c, 1) = 0 /\ Register(c, 2) = 2
        BY <3>2, <4>1 DEF Register
      <4>3. end(1) = 20 /\ end(2) = 24 /\ at(1) = 12 /\ at(2) = 20 /\ HeaderSize = 24
        BY <4>1, <4>2 DEF DopeSize, WordSize, HeaderSize
      <4> QED BY <4>1, <4>2, <4>3
    <3> QED BY <2>1, <3>1, <3>2 DEF Filled
  <2> HIDE DEF at
  <2> QED BY <2>2, <2>4 DEF Registers, Apart
<1> QED BY <1>1, LayoutAlways, PTL

(* Client and server look for every word of a message at the same          *)
(* distance, for the kernel copies the words as one block.                 *)
THEOREM WordsKeepDistance == Spec => []SameDistance
<1>1. LayoutInvX => SameDistance
  <2> SUFFICES ASSUME LayoutInvX, Done, NEW c \in Channel, NEW chunk \in SentWords(c)
               PROVE  chunk.server - chunk.client = IF c = CHANNEL_OUT THEN svrOutputOffset ELSE 0
    BY DEF SameDistance
  <2>1. PICK i \in DOMAIN dwords[c] : chunk = dwords[c][i]
    BY DEF SentWords, Words
  <2>2. Placed(c, i) /\ dwords[c] \in Seq(WordChunk)
    BY DEF LayoutInvX, TypesX, PlacesInv, Frozen, Done
  <2>3. chunk \in WordChunk
    BY <2>1, <2>2
  <2>4. chunk.client \in Int
    BY <2>3, WordFacts DEF ChunkX
  <2>5. svrOutputOffset \in Nat
    BY DEF LayoutInvX, TypesX
  <2> QED BY <2>1, <2>2, <2>4, <2>5 DEF Placed, Displacement
<1> QED BY <1>1, LayoutAlways, PTL

(* Every value is found where it is due in every state.                    *)
LEMMA FoundAlways == Spec => [](LayoutInvX /\ NumbersInv /\ FoundInv)
<1>1. LayoutInvX /\ NumbersInv /\ FoundInv /\ [Next]_vars => NumbersInv' /\ FoundInv'
  BY FoundStep, NumbersStep DEF LayoutInvX
<1> QED BY <1>1, FoundInit, LayoutAlways, PTL DEF Spec

(* Every value the operation asked for is in each of its messages once,    *)
(* whichever of the loops of optimize moved it, however many there are.    *)
THEOREM EveryValuePlacedOnce == Spec => []EveryValuePlaced
<1>1. LayoutInvX /\ NumbersInv /\ FoundInv => EveryValuePlaced
  <2> SUFFICES ASSUME LayoutInvX, NumbersInv, FoundInv, Done,
                      NEW c \in {CHANNEL_IN, CHANNEL_OUT}, NEW p \in DOMAIN sig.params
               PROVE  LET id == IF sig.oneway THEN p ELSE p + 1
                          aString == sig.params[p].kind = "variable" /\ WorthString(sig.params[p])
                          due == IF aString \/ c \notin sig.params[p].chans THEN 0 ELSE 1
                      IN  Cardinality({i \in DOMAIN PlacedIds(c) : PlacedIds(c)[i] = id}) = due
    BY DEF EveryValuePlaced
  <2> DEFINE id == IF sig.oneway THEN p ELSE p + 1
  <2>1. TypesX /\ LoopsX /\ phase = "done"
    BY DEF LayoutInvX, Done
  <2>2. c \in Channel /\ c \in Both
    BY ChannelsX DEF Both
  <2>3. /\ sig.params \in Seq(Parameter) /\ Len(sig.params) \in Nat /\ p \in 1 .. Len(sig.params)
        /\ pos = Len(sig.params)
    BY <2>1 DEF TypesX, Signature, NumbersInv
  <2>4. id \in Numbers /\ id + 1 - FirstNumber = p /\ p \in 1 .. pos
    <3>1. FirstNumber \in {1, 2} /\ id = p + FirstNumber - 1
      BY <2>3 DEF FirstNumber
    <3> HIDE DEF id
    <3> QED BY <2>3, <3>1 DEF Numbers
  <2> HIDE DEF id
  <2>5. Found(c, id) = Due(c, sig.params[p])
    BY <2>2, <2>4 DEF FoundInv, Wanted
  <2>6. Waiting(c) = <<>>
    BY <2>1 DEF LoopsX, Waiting
  <2> DEFINE a == FlattenSeq(ListIds(registers[c]))
             b == [i \in DOMAIN dwords[c] |-> dwords[c][i].id]
  <2>7. PlacedIds(c) = a \o b
    BY DEF PlacedIds, ListIds, MemberIds
  <2>8. a \in Seq(Number) /\ Occurrences(a, id) = Held(registers[c], id)
    BY <2>1, <2>2, FoundParts, HeldFlat
  <2>9. b \in Seq(Number) /\ Occurrences(b, id) = Held(dwords[c], id)
    BY <2>1, <2>2, FoundParts, HeldWords
  <2>10. Held(registers[c], id) \in Nat /\ Held(dwords[c], id) \in Nat
    BY <2>1, <2>2, FoundParts
  <2> HIDE DEF a, b
  <2>11. Occurrences(a \o b, id) = Occurrences(a, id) + Occurrences(b, id)
    BY <2>8, <2>9, OccurrencesOfBoth
  <2>12. Occurrences(PlacedIds(c), id) = Due(c, sig.params[p])
    BY <2>5, <2>6, <2>7, <2>8, <2>9, <2>10, <2>11, HeldNothing DEF Found
  <2> QED BY <2>12 DEF Occurrences, Due, id
<1> QED BY <1>1, FoundAlways, PTL

(* Words are as close as their alignment allows, and the reply begins      *)
(* behind the request or overlaps it, in every state.                      *)
LEMMA OverlapAlways == Spec => [](LayoutInvX /\ LaidInv /\ OverlapInv)
<1>1. LayoutInvX /\ LaidInv /\ OverlapInv /\ [Next]_vars => LaidInv' /\ OverlapInv'
  BY LaidStep, OverlapStep DEF LayoutInvX
<1>2. Init => LaidInv /\ OverlapInv
  BY DEF Init, LaidInv, OverlapInv, Frozen, Moved
<1> QED BY <1>1, <1>2, LayoutAlways, PTL DEF Spec

(* In an unpadded request no word is overwritten by a word of the reply,   *)
(* unless the two are the same INOUT value, however many words there are   *)
(* and wherever the reply was put.                                         *)
THEOREM UnpaddedInputsNeverOverwritten == Spec => []UnpaddedInputsSurvive
<1>1. LayoutInvX /\ LaidInv /\ OverlapInv => UnpaddedInputsSurvive
  <2> SUFFICES ASSUME LayoutInvX, LaidInv, OverlapInv, RequestUnpadded, Done,
                      NEW in \in Words(CHANNEL_IN), NEW out \in Words(CHANNEL_OUT)
               PROVE  \/ in.id = out.id /\ in.server = out.server
                      \/ Apart(in.server, in.server + in.size, out.server, out.server + out.size)
    BY DEF UnpaddedInputsSurvive, InputsSurvive
  <2>1. PICK i \in DOMAIN In : in = In[i]
    BY DEF Words, In
  <2>2. PICK k \in DOMAIN Out : out = Out[k]
    BY DEF Words, Out
  <2>3. TypesX /\ IdsInv /\ AlignInv /\ PlacesInv
    BY DEF LayoutInvX
  <2>4. /\ In \in Seq(WordChunk) /\ Out \in Seq(WordChunk) /\ svrOutputOffset \in Nat
        /\ HeaderSize \in Nat
    BY <2>3, ChannelsX, RequestSizes DEF TypesX, In, Out
  <2>5. /\ in.server + in.size = HeaderSize + Leading(In, i) /\ in.server \in Nat
        /\ out.server \in Nat /\ out.server >= HeaderSize + svrOutputOffset
    BY <2>1, <2>2, <2>3, ServerWords
  <2>6. /\ i \in 1 .. Len(In) /\ i \in 0 .. Len(In) /\ Len(In) \in 0 .. Len(In)
        /\ k \in 1 .. Len(Out)
    BY <2>4
  <2>7. /\ Leading(In, i) \in Nat /\ Leading(In, i) <= Bytes(In) /\ Bytes(In) \in Nat
    <3>1. i \in 0 .. Len(In) /\ Leading(In, Len(In)) = Bytes(In)
      BY <2>4, <2>6, LeadingX
    <3>2. Leading(In, i) <= Leading(In, Len(In))
      BY <2>4, <2>6, LeadingGrows
    <3> QED BY <2>4, <2>6, <3>1, <3>2, LeadingX
  <2>8. CASE svrOutputOffset >= Leading(In, i)
    <3>1. in.server + in.size <= out.server
      BY <2>4, <2>5, <2>7, <2>8
    <3> QED BY <3>1 DEF Apart
  <2>9. CASE \E n \in 0 .. Len(In) : Overlapped(n)
    <3>1. PICK n \in 0 .. Len(In) : Overlapped(n)
      BY <2>9
    <3>2. CASE i <= n
      <4>1. i \in 0 .. n
        BY <2>6, <3>2
      <4>2. svrOutputOffset >= Leading(In, i)
        BY <2>4, <2>6, <3>1, <4>1, LeadingGrows DEF Overlapped
      <4> QED BY <2>8, <4>2
    <3>3. CASE i > n
      <4> DEFINE l == i - n
      <4>1. l \in 1 .. Len(In) - n /\ n + l = i
        BY <2>6, <3>3
      <4> HIDE DEF l
      <4>2. /\ l \in DOMAIN Out /\ in.server = Out[l].server /\ in.size = Out[l].size
            /\ in.id = Out[l].id
        <5>1. In[n + l].id = Out[l].id
          BY <3>1, <4>1 DEF Overlapped
        <5>2. l \in DOMAIN Out /\ In[n + l].server = Out[l].server /\ In[n + l].size = Out[l].size
          BY <2>3, <3>1, <4>1, RepliesMatch
        <5> QED BY <2>1, <4>1, <5>1, <5>2
      <4>3. CASE l = k
        BY <2>2, <4>2, <4>3
      <4>4. CASE l < k
        <5>1. l \in 1 .. k - 1
          BY <2>6, <4>1, <4>4
        <5>2. Out[l].server + Out[l].size <= Out[k].server
          BY <2>3, <5>1, ServerWords
        <5> QED BY <2>2, <4>2, <5>2 DEF Apart
      <4>5. CASE l > k
        <5>1. k \in 1 .. l - 1
          BY <2>6, <4>1, <4>5
        <5>2. Out[k].server + Out[k].size <= Out[l].server
          BY <2>3, <4>2, <5>1, ServerWords
        <5> QED BY <2>2, <4>2, <5>2 DEF Apart
      <4>6. l \in Nat /\ k \in Nat
        BY <2>6, <4>1
      <4> QED BY <4>3, <4>4, <4>5, <4>6
    <3> QED BY <2>6, <3>2, <3>3
  <2>10. phase \in Moved
    BY DEF Done, Moved
  <2>11. CASE svrOutputOffset >= Bytes(In)
    BY <2>4, <2>7, <2>8, <2>11
  <2> QED BY <2>9, <2>10, <2>11 DEF OverlapInv
<1> QED BY <1>1, OverlapAlways, PTL

(* Where replies overlap an unpadded request every INOUT word of the reply *)
(* is where the request has it, for the stub does not copy it.             *)
THEOREM InoutsStayInPlace == Spec => []InoutsStay
<1>1. LayoutInvX /\ LaidInv /\ OverlapInv => InoutsStay
  <2> SUFFICES ASSUME LayoutInvX, LaidInv, OverlapInv, RequestUnpadded, Done, overlap = "inouts",
                      NEW in \in Words(CHANNEL_IN), NEW out \in Words(CHANNEL_OUT), in.id = out.id
               PROVE  in.server = out.server
    BY DEF InoutsStay
  <2>1. PICK i \in DOMAIN In : in = In[i]
    BY DEF Words, In
  <2>2. PICK k \in DOMAIN Out : out = Out[k]
    BY DEF Words, Out
  <2>3. TypesX /\ IdsInv /\ AlignInv /\ PlacesInv
    BY DEF LayoutInvX
  <2>4. /\ In \in Seq(WordChunk) /\ Out \in Seq(WordChunk)
        /\ In = dwords[CHANNEL_IN] /\ Out = dwords[CHANNEL_OUT] /\ CHANNEL_OUT \in Channel
    BY <2>3, ChannelsX DEF TypesX, In, Out
  <2>5. PICK n \in 0 .. Len(In) : Overlapped(n)
    <3>1. phase \in Moved
      BY DEF Done, Moved
    <3> QED BY <3>1 DEF OverlapInv
  <2>6. HasOut(in)
    <3>1. in \in ToSet(In) /\ out \in ToSet(Out)
      BY <2>1, <2>2 DEF ToSet
    <3>2. Twins(in, out)
      BY <2>3, <2>4, <3>1 DEF IdsInv
    <3> QED BY <3>2 DEF Twins
  <2> DEFINE l == i - n
  <2>7. l \in 1 .. Len(In) - n /\ n + l = i
    <3>1. i \in 1 .. Len(In) /\ ~(i \in 1 .. n)
      BY <2>1, <2>4, <2>5, <2>6 DEF Overlapped
    <3> QED BY <3>1
  <2> HIDE DEF l
  <2>8. In[n + l].id = Out[l].id
    BY <2>5, <2>7 DEF Overlapped
  <2>9. l \in DOMAIN Out /\ In[n + l].server = Out[l].server
    BY <2>3, <2>5, <2>7, RepliesMatch
  <2>10. l = k
    <3>1. IdsDistinct(Out)
      BY <2>3, <2>4 DEF IdsInv
    <3> QED BY <2>1, <2>2, <2>7, <2>8, <2>9, <3>1 DEF IdsDistinct
  <2> QED BY <2>1, <2>2, <2>7, <2>9, <2>10
<1> QED BY <1>1, OverlapAlways, PTL
=============================================================================
