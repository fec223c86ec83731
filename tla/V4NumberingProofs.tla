-------------------------- MODULE V4NumberingProofs -------------------------
(***************************************************************************)
(* Proofs about the string items of V4 messages: which buffers they get,   *)
(* in which order, and that both sides find them there, for any operation; *)
(* with them the results about messages as a whole, and that no chunk is   *)
(* lost on the way.                                                        *)
(***************************************************************************)
EXTENDS V4PackingProofs

-----------------------------------------------------------------------------
(* The strings of the channels                                             *)

(* What does not change when a string is sorted and numbered.              *)
Core(x) == [id |-> x.id, chans |-> x.chans, xfer |-> x.xfer]

(* The strings of a list, for what does not change.                        *)
CoresOf(list) == {Core(x) : x \in ToSet(list)}

(* The strings of a channel, those being numbered included.                *)
Cores(c) == CoresOf(strings[c]) \cup (IF c = chan THEN CoresOf(newList) ELSE {})

(* Strings of one parameter are alike in both channels, and those of       *)
(* different parameters have different ids.                                *)
StringsInv ==
  /\ initialized = IF phase = "options" THEN {CHANNEL_IN} ELSE Channel
  /\ \A c \in Channel : IdsDistinct(strings[c])
  /\ IdsDistinct(newList)
  /\ \A x \in ToSet(strings[chan]), y \in ToSet(newList) : x.id # y.id
  /\ \A c \in Channel : \A x \in Cores(c) :
       /\ x.id \in 0 .. chunkID
       /\ c \in x.chans
       /\ x.chans \subseteq {CHANNEL_IN, CHANNEL_OUT}
       /\ \A d \in x.chans : x \in Cores(d)
  /\ \A c, d \in Channel : \A x \in Cores(c), y \in Cores(d) : x.id = y.id => x = y

(* An element more at the end of a list.                                   *)
LEMMA AppendedCores ==
  ASSUME NEW S, NEW list \in Seq(S), NEW elem \in S
  PROVE  /\ ToSet(Append(list, elem)) = ToSet(list) \cup {elem}
         /\ CoresOf(Append(list, elem)) = CoresOf(list) \cup {Core(elem)}
         /\ IdsDistinct(list) /\ (\A x \in ToSet(list) : x.id # elem.id)
              => IdsDistinct(Append(list, elem))
<1> DEFINE n == Len(list)
           added == Append(list, elem)
<1>1. n \in Nat /\ DOMAIN list = 1 .. n /\ DOMAIN added = 1 .. n + 1
  OBVIOUS
<1>2. added[n + 1] = elem /\ \A i \in 1 .. n : added[i] = list[i]
  OBVIOUS
<1>3. \A i \in 1 .. n + 1 : i \in 1 .. n \/ i = n + 1
  BY <1>1
<1>4. \A i \in 1 .. n : i \in 1 .. n + 1
  BY <1>1
<1>5. n + 1 \in 1 .. n + 1
  BY <1>1
<1> HIDE DEF added, n
<1>6. ToSet(added) = ToSet(list) \cup {elem}
  BY <1>1, <1>2, <1>3, <1>4, <1>5, Zenon DEF ToSet
<1>7. CoresOf(added) = CoresOf(list) \cup {Core(elem)}
  BY <1>6, Zenon DEF CoresOf
<1>8. ASSUME IdsDistinct(list), \A x \in ToSet(list) : x.id # elem.id
      PROVE  IdsDistinct(added)
  <2>1. \A i \in 1 .. n : list[i] \in ToSet(list)
    BY <1>1 DEF ToSet
  <2> QED BY <1>1, <1>2, <1>3, <1>8, <2>1 DEF IdsDistinct
<1> QED BY <1>6, <1>7, <1>8 DEF added

(* Nothing matters but the strings each channel has and the last number    *)
(* given to a chunk.                                                       *)
LEMMA StringsSame ==
  ASSUME StringsInv, \A c \in Channel : Cores(c)' = Cores(c),
         chunkID \in Nat, chunkID' \in Nat, chunkID' >= chunkID,
         initialized' = IF phase' = "options" THEN {CHANNEL_IN} ELSE Channel,
         \A c \in Channel : IdsDistinct(strings'[c]),
         IdsDistinct(newList'),
         \A x \in ToSet(strings'[chan']), y \in ToSet(newList') : x.id # y.id,
         CHANNEL_IN \in Channel, CHANNEL_OUT \in Channel
  PROVE  StringsInv'
<1>1. \A i \in 0 .. chunkID : i \in 0 .. chunkID'
  OBVIOUS
<1>2. ASSUME NEW c \in Channel, NEW x \in Cores(c)'
      PROVE  /\ x.id \in 0 .. chunkID'
             /\ c \in x.chans
             /\ x.chans \subseteq {CHANNEL_IN, CHANNEL_OUT}
             /\ \A d \in x.chans : x \in Cores(d)'
  <2>1. x \in Cores(c)
    OBVIOUS
  <2>2. /\ x.id \in 0 .. chunkID
        /\ c \in x.chans
        /\ x.chans \subseteq {CHANNEL_IN, CHANNEL_OUT}
        /\ \A d \in x.chans : x \in Cores(d)
    BY <2>1 DEF StringsInv
  <2>3. \A d \in x.chans : d \in Channel
    BY <2>2
  <2> QED BY <1>1, <2>2, <2>3
<1>3. \A c, d \in Channel : \A x \in Cores(c)', y \in Cores(d)' : x.id = y.id => x = y
  BY DEF StringsInv
<1> QED BY <1>2, <1>3 DEF StringsInv

(* While nothing is renumbered the strings stay those of their channel.    *)
LEMMA StringsOthers ==
  ASSUME TypeOK, StringsInv, UNCHANGED <<strings, newList>>, chan' = chan \/ newList = <<>>,
         chunkID' \in Nat, chunkID' >= chunkID,
         initialized' = IF phase' = "options" THEN {CHANNEL_IN} ELSE Channel
  PROVE  StringsInv'
<1>1. \A c : Cores(c)' = Cores(c)
  <2>1. CASE chan' = chan
    BY <2>1 DEF Cores
  <2>2. CASE newList = <<>>
    <3>1. CoresOf(newList) = {}
      BY <2>2 DEF CoresOf, ToSet
    <3> QED BY <2>2, <3>1 DEF Cores
  <2> QED BY <2>1, <2>2
<1>2. \A x \in ToSet(strings'[chan']), y \in ToSet(newList') : x.id # y.id
  <2>1. CASE chan' = chan
    BY <2>1 DEF StringsInv
  <2>2. CASE newList = <<>>
    BY <2>2 DEF ToSet
  <2> QED BY <2>1, <2>2
<1>3. (\A c \in Channel : IdsDistinct(strings'[c])) /\ IdsDistinct(newList')
  BY DEF StringsInv
<1>4. chunkID \in Nat
  BY DEF TypeOK
<1> QED BY <1>1, <1>2, <1>3, <1>4, ChannelType, StringsSame

(* A new chunk enters all channels of its parameter or none.               *)
LEMMA StringsAdded ==
  ASSUME TypeOK, StringsInv, newList = <<>>, newList' = <<>>, chan' = chan,
         NEW C \in SUBSET {CHANNEL_IN, CHANNEL_OUT}, NEW chunk \in AnyChunk,
         chunk.id = chunkID + 1, C = {} \/ C = chunk.chans,
         strings' = [c \in Channel |-> IF c \in C THEN Append(strings[c], chunk) ELSE strings[c]],
         chunkID' = chunkID + 1, initialized' = Channel, phase' # "options"
  PROVE  StringsInv'
<1>0. /\ chunkID \in Nat /\ strings \in [Channel -> Seq(AnyChunk)] /\ chan \in Channel
      /\ CHANNEL_IN \in Channel /\ CHANNEL_OUT \in Channel
  BY ChannelType DEF TypeOK
<1> DEFINE new == Core(chunk)
<1>1. new.id = chunkID + 1 /\ new.chans = chunk.chans
  BY DEF Core
<1>2. CoresOf(newList) = {} /\ CoresOf(newList') = {}
  BY DEF CoresOf, ToSet
<1>3. \A c : Cores(c) = CoresOf(strings[c]) /\ Cores(c)' = CoresOf(strings'[c])
  BY <1>2 DEF Cores
<1>4. \A c \in Channel : strings[c] \in Seq(AnyChunk)
  BY <1>0
<1>5. ASSUME NEW c \in Channel
      PROVE  /\ Cores(c)' = Cores(c) \cup (IF c \in C THEN {new} ELSE {})
             /\ IdsDistinct(strings'[c])
  <2>1. \A x \in ToSet(strings[c]) : x.id # chunk.id
    <3> SUFFICES ASSUME NEW x \in ToSet(strings[c])  PROVE x.id # chunk.id
      OBVIOUS
    <3>1. Core(x) \in Cores(c)
      BY <1>3 DEF CoresOf
    <3>2. Core(x).id \in 0 .. chunkID
      BY <3>1 DEF StringsInv
    <3>3. Core(x).id = x.id
      BY DEF Core
    <3> QED BY <1>0, <3>2, <3>3
  <2>2. IdsDistinct(strings[c])
    BY DEF StringsInv
  <2>3. CASE c \in C
    <3>1. strings'[c] = Append(strings[c], chunk)
      BY <2>3
    <3>2. CoresOf(Append(strings[c], chunk)) = CoresOf(strings[c]) \cup {Core(chunk)}
      BY <1>4, AppendedCores
    <3>3. IdsDistinct(Append(strings[c], chunk))
      BY <1>4, <2>1, <2>2, AppendedCores
    <3> QED BY <1>3, <2>3, <3>1, <3>2, <3>3, Zenon
  <2>4. CASE c \notin C
    <3>1. strings'[c] = strings[c]
      BY <2>4
    <3> QED BY <1>3, <2>2, <2>4, <3>1, Zenon
  <2> QED BY <2>3, <2>4
<1> HIDE DEF new
<1>6. ASSUME NEW c \in Channel, NEW x \in Cores(c)'
      PROVE  /\ x.id \in 0 .. chunkID'
             /\ c \in x.chans
             /\ x.chans \subseteq {CHANNEL_IN, CHANNEL_OUT}
             /\ \A d \in x.chans : x \in Cores(d)'
  <2>1. CASE x \in Cores(c)
    <3>1. /\ x.id \in 0 .. chunkID
          /\ c \in x.chans
          /\ x.chans \subseteq {CHANNEL_IN, CHANNEL_OUT}
          /\ \A d \in x.chans : x \in Cores(d)
      BY <2>1 DEF StringsInv
    <3>2. x.id \in 0 .. chunkID'
      BY <1>0, <3>1
    <3>3. \A d \in x.chans : x \in Cores(d)'
      BY <1>0, <1>5, <3>1
    <3> QED BY <3>1, <3>2, <3>3
  <2>2. CASE c \in C /\ x = new
    <3>1. C = new.chans
      BY <1>1, <2>2
    <3>2. x.id \in 0 .. chunkID'
      BY <1>0, <1>1, <2>2
    <3>3. \A d \in C : d \in Channel /\ x \in Cores(d)'
      BY <1>0, <1>5, <2>2
    <3> QED BY <2>2, <3>1, <3>2, <3>3
  <2> QED BY <1>5, <2>1, <2>2
<1>7. ASSUME NEW c \in Channel, NEW d \in Channel, NEW x \in Cores(c)', NEW y \in Cores(d)',
             x.id = y.id
      PROVE  x = y
  <2>1. (x \in Cores(c) \/ x = new) /\ (y \in Cores(d) \/ y = new)
    BY <1>5
  <2>2. CASE x \in Cores(c) /\ y \in Cores(d)
    BY <1>7, <2>2 DEF StringsInv
  <2>3. CASE x \in Cores(c) /\ y = new
    <3>1. x.id \in 0 .. chunkID
      BY <2>3 DEF StringsInv
    <3> QED BY <1>0, <1>1, <1>7, <2>3, <3>1
  <2>4. CASE x = new /\ y \in Cores(d)
    <3>1. y.id \in 0 .. chunkID
      BY <2>4 DEF StringsInv
    <3> QED BY <1>0, <1>1, <1>7, <2>4, <3>1
  <2> QED BY <2>1, <2>2, <2>3, <2>4
<1>8. \A x \in ToSet(strings'[chan']), y \in ToSet(newList') : x.id # y.id
  BY DEF ToSet
<1>9. IdsDistinct(newList')
  BY DEF IdsDistinct
<1> QED BY <1>5, <1>6, <1>7, <1>8, <1>9 DEF StringsInv

(* At the beginning there are no strings.                                  *)
LEMMA StringsInit == Init => StringsInv
<1> SUFFICES ASSUME Init  PROVE StringsInv
  OBVIOUS
<1>1. /\ phase = "options" /\ initialized = {CHANNEL_IN} /\ newList = <<>>
      /\ \A c \in Channel : strings[c] = <<>>
      /\ chan \in Channel
  BY ChannelType DEF Init
<1>2. CoresOf(<<>>) = {} /\ ToSet(<<>>) = {} /\ IdsDistinct(<<>>)
  BY DEF CoresOf, ToSet, IdsDistinct
<1>3. \A c \in Channel : Cores(c) = {}
  BY <1>1, <1>2 DEF Cores
<1> QED BY <1>1, <1>2, <1>3 DEF StringsInv

(* Marshalling puts a parameter's string into all channels of the          *)
(* parameter: every channel takes chunks by then.                          *)
LEMMA StringsMarshal ==
  ASSUME TypeOK, BudgetInv, StringsInv, Marshal
  PROVE  StringsInv'
<1>0. /\ chunkID \in Nat /\ chunkID + 1 \in Nat /\ chunkID + 1 >= chunkID
      /\ strings \in [Channel -> Seq(AnyChunk)]
      /\ CHANNEL_IN \in Channel /\ CHANNEL_OUT \in Channel
  BY ChannelType DEF TypeOK
<1>1. newList = <<>> /\ newList' = <<>> /\ chan' = chan /\ phase' = "marshal"
  <2>1. phase \in {"options", "marshal"} /\ phase' = "marshal" /\ chan' = chan /\ newList' = newList
    BY DEF Marshal, SetOption, MarshalExceptionCode, GetFixedCopyChunk, GetUnboundedCopyChunk,
       GetBoundedCopyChunk, GetMapChunk, Marshalling, numbering
  <2> QED BY <2>1 DEF BudgetInv
<1>2. CASE SetOption
  <2>1. UNCHANGED <<strings, chunkID>> /\ initialized' = initialized \cup AllOut /\ phase = "options"
    BY <1>2 DEF SetOption, lists
  <2>2. initialized' = Channel
    BY <1>0, <2>1 DEF StringsInv, AllOut
  <2> QED BY <1>0, <1>1, <2>1, <2>2, StringsOthers
<1>3. CASE MarshalExceptionCode
  <2> DEFINE chunk == NewChunk(chunkID + 1, "value", 4, W, AllOut, TRUE)
  <2>1. /\ phase = "options" /\ initialized' = initialized \cup AllOut /\ chunkID' = chunkID + 1
        /\ strings' = [c \in Channel |->
                         IF c \in AllOut \cap initialized /\ ~(4 < DirectLimit)
                         THEN AddLast(strings[c], chunk) ELSE strings[c]]
    BY <1>3 DEF MarshalExceptionCode, FixedCopyChunk
  <2> HIDE DEF chunk
  <2>2. initialized = {CHANNEL_IN} /\ initialized' = Channel
    BY <1>0, <2>1 DEF StringsInv, AllOut
  <2>3. AllOut \cap initialized = {}
    BY <2>2 DEF AllOut
  <2>4. strings' = strings
    BY <1>0, <2>1, <2>3
  <2> QED BY <1>0, <1>1, <2>1, <2>2, <2>4, StringsOthers
<1>4. CASE GetFixedCopyChunk
  <2> DEFINE p == sig.params[pos + 1]
             chunk == NewChunk(chunkID + 1, "value", p.size, p.align, p.chans, TRUE)
             C == IF p.size < DirectLimit THEN {} ELSE p.chans
  <2>1. Marshalling("fixed") /\ phase = "marshal"
    BY <1>4 DEF GetFixedCopyChunk, Marshalling
  <2>2. /\ p.size \in Nat /\ p.align \in Nat \ {0} /\ p.chans \in SUBSET Channel
        /\ p.chans \subseteq {CHANNEL_IN, CHANNEL_OUT}
    BY <2>1, NextParameter DEF Parameter
  <2>3. /\ initialized' = initialized \cup p.chans /\ chunkID' = chunkID + 1
        /\ strings' = [c \in Channel |->
                         IF c \in p.chans \cap initialized /\ ~(p.size < DirectLimit)
                         THEN AddLast(strings[c], chunk) ELSE strings[c]]
    BY <1>4 DEF GetFixedCopyChunk, FixedCopyChunk
  <2>4. chunk \in AnyChunk /\ chunk.id = chunkID + 1 /\ chunk.chans = p.chans
    <3>1. chunk.id = chunkID + 1 /\ chunk.chans = p.chans
      BY DEF NewChunk
    <3>2. "value" \in Parts /\ TRUE \in BOOLEAN /\ p.size \in Nat \cup {UNKNOWN}
      BY <2>2 DEF Parts
    <3> HIDE DEF p
    <3>3. chunk \in ChunkOf(Nat \cup {UNKNOWN})
      BY <1>0, <2>2, <3>2, NewChunkType, Zenon
    <3> QED BY <3>1, <3>3 DEF AnyChunk
  <2> HIDE DEF p, chunk
  <2>5. initialized = Channel /\ initialized' = Channel
    BY <2>1, <2>2, <2>3 DEF StringsInv
  <2>6. strings' = [c \in Channel |-> IF c \in C THEN Append(strings[c], chunk) ELSE strings[c]]
    BY <2>2, <2>3, <2>5 DEF AddLast
  <2>7. C \in SUBSET {CHANNEL_IN, CHANNEL_OUT} /\ (C = {} \/ C = chunk.chans)
    BY <2>2, <2>4
  <2> HIDE DEF C
  <2> QED BY <1>1, <2>3, <2>4, <2>5, <2>6, <2>7, StringsAdded
<1>5. CASE GetUnboundedCopyChunk
  <2> DEFINE p == sig.params[pos + 1]
             chunk == NewChunk(chunkID + 1, "string", UNKNOWN, 1, p.chans, TRUE)
  <2>1. Marshalling("string") /\ phase = "marshal"
    BY <1>5 DEF GetUnboundedCopyChunk, Marshalling
  <2>2. p.chans \in SUBSET Channel /\ p.chans \subseteq {CHANNEL_IN, CHANNEL_OUT}
    BY <2>1, NextParameter DEF Parameter
  <2>3. /\ initialized' = initialized /\ chunkID' = chunkID + 1
        /\ strings' = [c \in Channel |-> IF c \in p.chans THEN AddLast(strings[c], chunk)
                                                          ELSE strings[c]]
    BY <1>5 DEF GetUnboundedCopyChunk
  <2>4. chunk \in AnyChunk /\ chunk.id = chunkID + 1 /\ chunk.chans = p.chans
    <3>1. chunk.id = chunkID + 1 /\ chunk.chans = p.chans
      BY DEF NewChunk
    <3>2. "string" \in Parts /\ TRUE \in BOOLEAN /\ UNKNOWN \in Nat \cup {UNKNOWN} /\ 1 \in Nat \ {0}
      BY DEF Parts
    <3> HIDE DEF p
    <3>3. chunk \in ChunkOf(Nat \cup {UNKNOWN})
      BY <1>0, <2>2, <3>2, NewChunkType, Zenon
    <3> QED BY <3>1, <3>3 DEF AnyChunk
  <2> HIDE DEF p, chunk
  <2>5. initialized' = Channel
    BY <2>1, <2>3 DEF StringsInv
  <2>6. strings' = [c \in Channel |-> IF c \in p.chans THEN Append(strings[c], chunk) ELSE strings[c]]
    BY <2>3 DEF AddLast
  <2>7. p.chans \in SUBSET {CHANNEL_IN, CHANNEL_OUT}
    BY <2>2
  <2> QED BY <1>1, <2>3, <2>4, <2>5, <2>6, <2>7, StringsAdded
<1>6. CASE GetBoundedCopyChunk
  <2> DEFINE p == sig.params[pos + 1]
             chunk == NewChunk(chunkID + 1, "temp", p.size, 1, p.chans, FALSE)
  <2>1. Marshalling("bounded") /\ phase = "marshal"
    BY <1>6 DEF GetBoundedCopyChunk, Marshalling
  <2>2. p.size \in Nat /\ p.chans \in SUBSET Channel /\ p.chans \subseteq {CHANNEL_IN, CHANNEL_OUT}
    BY <2>1, NextParameter DEF Parameter
  <2>3. /\ initialized' = initialized /\ chunkID' = chunkID + 1
        /\ strings' = [c \in Channel |-> IF c \in p.chans THEN AddLast(strings[c], chunk)
                                                          ELSE strings[c]]
    BY <1>6 DEF GetBoundedCopyChunk
  <2>4. chunk \in AnyChunk /\ chunk.id = chunkID + 1 /\ chunk.chans = p.chans
    <3>1. chunk.id = chunkID + 1 /\ chunk.chans = p.chans
      BY DEF NewChunk
    <3>2. "temp" \in Parts /\ FALSE \in BOOLEAN /\ p.size \in Nat \cup {UNKNOWN} /\ 1 \in Nat \ {0}
      BY <2>2 DEF Parts
    <3> HIDE DEF p
    <3>3. chunk \in ChunkOf(Nat \cup {UNKNOWN})
      BY <1>0, <2>2, <3>2, NewChunkType, Zenon
    <3> QED BY <3>1, <3>3 DEF AnyChunk
  <2> HIDE DEF p, chunk
  <2>5. initialized' = Channel
    BY <2>1, <2>3 DEF StringsInv
  <2>6. strings' = [c \in Channel |-> IF c \in p.chans THEN Append(strings[c], chunk) ELSE strings[c]]
    BY <2>3 DEF AddLast
  <2>7. p.chans \in SUBSET {CHANNEL_IN, CHANNEL_OUT}
    BY <2>2
  <2> QED BY <1>1, <2>3, <2>4, <2>5, <2>6, <2>7, StringsAdded
<1>7. CASE GetMapChunk
  <2>1. UNCHANGED <<strings, initialized>> /\ chunkID' = chunkID + 1 /\ phase = "marshal"
    BY <1>7 DEF GetMapChunk, Marshalling
  <2>2. initialized' = Channel
    BY <2>1 DEF StringsInv
  <2> QED BY <1>0, <1>1, <2>1, <2>2, StringsOthers
<1> QED BY <1>2, <1>3, <1>4, <1>5, <1>6, <1>7 DEF Marshal

(* The packing and the collection of buffers leave the strings alone.      *)
LEMMA StringsPacking ==
  ASSUME TypeOK, BudgetInv, StringsInv,
         AddTags \/ PackChannel \/ CollectBuffer \/ CollectNextChannel
  PROVE  StringsInv'
<1>1. UNCHANGED <<strings, newList, initialized>> /\ phase # "options" /\ phase' # "options" /\ phase # "number"
  <2>1. CASE AddTags
    BY <2>1 DEF AddTags, request, numbering
  <2>2. CASE PackChannel
    BY <2>2 DEF PackChannel, BeginChannel, TooManyItems, TakeFixed, PutBackFixed, SkipFixed, TryingFixed,
       EndFixedPass, MoveVariable, PassVariable, EndVariablePass, AddRegisterBuffer, NoRegisterBuffer,
       LayoutMemory, Advance, request, numbering, lists
  <2>3. CASE CollectBuffer \/ CollectNextChannel
    BY <2>3 DEF CollectBuffer, CollectNextChannel, Advance, request, lists
  <2> QED BY <2>1, <2>2, <2>3
<1>2. newList = <<>>
  BY <1>1 DEF BudgetInv
<1>3. chunkID \in Nat
  BY DEF TypeOK
<1>4. chunkID' \in Nat /\ chunkID' >= chunkID
  <2>1. CASE AddTags
    <3> DEFINE used == IF sig.oneway THEN Channel \ {CHANNEL_OUT} ELSE Channel
    <3>1. chunkID' = chunkID + Cardinality(used)
      BY <2>1 DEF AddTags
    <3>2. Cardinality(used) \in Nat
      <4>1. IsFiniteSet(Channel)
        BY ConnectionAssumption, FS_Interval DEF Channel
      <4>2. used \subseteq Channel
        OBVIOUS
      <4> HIDE DEF used
      <4> QED BY <4>1, <4>2, FS_Subset, FS_CardinalityType
    <3> HIDE DEF used
    <3> QED BY <1>3, <3>1, <3>2
  <2>2. CASE ~AddTags
    <3>1. chunkID' = chunkID \/ chunkID' = chunkID + 1
      BY <2>2 DEF PackChannel, BeginChannel, TooManyItems, TakeFixed, PutBackFixed, SkipFixed, TryingFixed,
       EndFixedPass, MoveVariable, PassVariable, EndVariablePass, AddRegisterBuffer, NoRegisterBuffer,
       LayoutMemory, CollectBuffer, CollectNextChannel
    <3> QED BY <1>3, <3>1
  <2> QED BY <2>1, <2>2
<1>5. initialized' = Channel
  BY <1>1 DEF StringsInv
<1> QED BY <1>1, <1>2, <1>3, <1>4, <1>5, StringsOthers

-----------------------------------------------------------------------------
(* Steps of the numbering                                                  *)

(* A list without its first element.                                       *)
LEMMA HeadAndTail ==
  ASSUME NEW S, NEW list \in Seq(S), list # <<>>
  PROVE  /\ Head(list) \in S /\ Tail(list) \in Seq(S)
         /\ ToSet(list) = {Head(list)} \cup ToSet(Tail(list))
         /\ CoresOf(list) = {Core(Head(list))} \cup CoresOf(Tail(list))
         /\ IdsDistinct(list) =>
              IdsDistinct(Tail(list)) /\ \A x \in ToSet(Tail(list)) : x.id # Head(list).id
<1> DEFINE n == Len(list)
           rest == Tail(list)
<1>1. n \in Nat \ {0} /\ DOMAIN list = 1 .. n /\ DOMAIN rest = 1 .. n - 1
      /\ Head(list) = list[1] /\ Head(list) \in S /\ rest \in Seq(S)
      /\ \A i \in 1 .. n - 1 : rest[i] = list[i + 1]
  OBVIOUS
<1> HIDE DEF n, rest
<1>2. \A i \in 1 .. n - 1 : i + 1 \in 1 .. n
  BY <1>1
<1>3. \A i \in 1 .. n : i = 1 \/ (i - 1 \in 1 .. n - 1 /\ (i - 1) + 1 = i)
  BY <1>1
<1>4. ASSUME NEW x \in ToSet(list)  PROVE x = Head(list) \/ x \in ToSet(rest)
  <2>1. PICK i \in 1 .. n : x = list[i]
    BY <1>1 DEF ToSet
  <2>2. CASE i = 1
    BY <1>1, <2>1, <2>2
  <2>3. CASE i # 1
    <3>1. i - 1 \in 1 .. n - 1 /\ x = rest[i - 1]
      BY <1>1, <1>3, <2>1, <2>3
    <3> QED BY <1>1, <3>1 DEF ToSet
  <2> QED BY <2>2, <2>3
<1>5. \A x \in ToSet(rest) : x \in ToSet(list)
  BY <1>1, <1>2 DEF ToSet
<1>6. Head(list) \in ToSet(list)
  <2>1. 1 \in 1 .. n
    BY <1>1
  <2> QED BY <1>1, <2>1 DEF ToSet
<1>7. ToSet(list) = {Head(list)} \cup ToSet(rest)
  BY <1>4, <1>5, <1>6
<1>8. CoresOf(list) = {Core(Head(list))} \cup CoresOf(rest)
  BY <1>7, Zenon DEF CoresOf
<1>9. ASSUME IdsDistinct(list)
      PROVE  IdsDistinct(rest) /\ \A x \in ToSet(rest) : x.id # Head(list).id
  <2>1. ASSUME NEW i \in 1 .. n - 1, NEW j \in 1 .. n - 1, rest[i].id = rest[j].id
        PROVE  i = j
    <3>1. list[i + 1].id = list[j + 1].id /\ i + 1 \in 1 .. n /\ j + 1 \in 1 .. n
      BY <1>1, <1>2, <2>1
    <3>2. i + 1 = j + 1
      BY <1>1, <1>9, <3>1 DEF IdsDistinct
    <3> QED BY <3>2
  <2>2. ASSUME NEW x \in ToSet(rest), x.id = Head(list).id  PROVE FALSE
    <3>1. PICK i \in 1 .. n - 1 : x = rest[i]
      BY <1>1 DEF ToSet
    <3>2. list[i + 1].id = list[1].id /\ i + 1 \in 1 .. n /\ 1 \in 1 .. n /\ i + 1 # 1
      BY <1>1, <1>2, <2>2, <3>1
    <3> QED BY <1>1, <1>9, <3>2 DEF IdsDistinct
  <2> QED BY <1>1, <2>1, <2>2 DEF IdsDistinct
<1> QED BY <1>1, <1>7, <1>8, <1>9 DEF rest

(* Numbering changes the offsets only.                                     *)
LEMMA NumberedElements ==
  ASSUME NEW list \in Seq(AnyChunk)
  PROVE  /\ Len(Numbered(list)) = Len(list)
         /\ \A i \in 1 .. Len(list) :
              /\ Numbered(list)[i].offset = i - 1
              /\ Numbered(list)[i].id = list[i].id
              /\ Numbered(list)[i].chans = list[i].chans
              /\ Numbered(list)[i].xfer = list[i].xfer
              /\ Numbered(list)[i].prio = list[i].prio
              /\ Numbered(list)[i].buf = list[i].buf
         /\ CoresOf(Numbered(list)) = CoresOf(list)
         /\ IdsDistinct(list) => IdsDistinct(Numbered(list))
         /\ PrioSorted(list) => PrioSorted(Numbered(list))
<1> DEFINE n == Len(list)
           new == Numbered(list)
           numbered(i) == [list[i] EXCEPT !.offset = i - 1]
<1>1. n \in Nat /\ DOMAIN list = 1 .. n
  OBVIOUS
<1>2. new = [i \in 1 .. n |-> numbered(i)]
  BY <1>1 DEF Numbered
<1>3. ASSUME NEW i \in 1 .. n
      PROVE  /\ numbered(i).offset = i - 1
             /\ numbered(i).id = list[i].id
             /\ numbered(i).chans = list[i].chans
             /\ numbered(i).xfer = list[i].xfer
             /\ numbered(i).prio = list[i].prio
             /\ numbered(i).buf = list[i].buf
  <2>1. list[i] \in ChunkOf(Nat \cup {UNKNOWN})
    BY DEF AnyChunk
  <2> QED BY <2>1 DEF ChunkOf
<1> HIDE DEF numbered
<1>4. DOMAIN new = 1 .. n /\ \A i \in 1 .. n : new[i] = numbered(i)
  BY <1>2
<1>5. Len(new) = n
  <2>1. new \in Seq(AnyChunk) /\ Len(new) = n
    BY NumberedType DEF AnyChunk
  <2> QED BY <2>1
<1> HIDE DEF new, n
<1>6. \A i \in 1 .. n : Core(new[i]) = Core(list[i])
  BY <1>3, <1>4 DEF Core
<1>7. CoresOf(new) = CoresOf(list)
  <2>1. CoresOf(new) = {Core(new[i]) : i \in 1 .. n}
    BY <1>4, Zenon DEF CoresOf, ToSet
  <2>2. CoresOf(list) = {Core(list[i]) : i \in 1 .. n}
    BY <1>1, Zenon DEF CoresOf, ToSet
  <2> QED BY <1>6, <2>1, <2>2
<1>8. IdsDistinct(list) => IdsDistinct(new)
  BY <1>1, <1>3, <1>4 DEF IdsDistinct
<1>9. PrioSorted(list) => PrioSorted(new)
  BY <1>1, <1>3, <1>4 DEF PrioSorted
<1>10. \A i \in 1 .. n : new[i] = numbered(i)
  BY <1>4
<1> QED BY <1>3, <1>5, <1>7, <1>8, <1>9, <1>10 DEF new, n

(* A string that is given a buffer.                                        *)
Buffer(chunk, index) == [chunk EXCEPT !.buf = index]

(* It is sorted in by the number of the buffer, and nothing else of it     *)
(* changes.                                                                *)
LEMMA BufferGiven ==
  ASSUME NEW chunk \in AnyChunk, NEW index \in Nat
  PROVE  /\ Buffer(chunk, index) \in AnyChunk
         /\ Prioritized(Buffer(chunk, index), index) \in AnyChunk
         /\ Prioritized(Buffer(chunk, index), index).prio = index
         /\ Prioritized(Buffer(chunk, index), index).buf = index
         /\ Prioritized(Buffer(chunk, index), index).id = chunk.id
         /\ Core(Prioritized(Buffer(chunk, index), index)) = Core(chunk)
<1> DEFINE buffer == Buffer(chunk, index)
<1>1. /\ buffer \in ChunkOf(Nat \cup {UNKNOWN}) /\ buffer.buf = index
      /\ buffer.id = chunk.id /\ buffer.chans = chunk.chans /\ buffer.xfer = chunk.xfer
  BY DEF AnyChunk, ChunkOf, Buffer
<1> HIDE DEF buffer
<1>2. /\ Prioritized(buffer, index) \in ChunkOf(Nat \cup {UNKNOWN})
      /\ Prioritized(buffer, index).prio = index
      /\ Prioritized(buffer, index).buf = buffer.buf
      /\ Prioritized(buffer, index).id = buffer.id
      /\ Prioritized(buffer, index).chans = buffer.chans
      /\ Prioritized(buffer, index).xfer = buffer.xfer
  BY <1>1, PrioritizedChunk
<1> QED BY <1>1, <1>2 DEF AnyChunk, Core, buffer

(* What NumberString does to the two lists.                                *)
LEMMA NumberedString ==
  ASSUME TypeOK, NumberString
  PROVE  \E chunk \in AnyChunk, index \in Nat, rest \in Seq(AnyChunk) :
           /\ chunk = Head(strings[chan]) /\ rest = Tail(strings[chan])
           /\ index = WalkTo(buffers, chunk.id)
           /\ strings[chan] \in Seq(AnyChunk) /\ strings[chan] # <<>>
           /\ strings' = [strings EXCEPT ![chan] = rest]
           /\ newList' = AddWithPrio(newList, Buffer(chunk, index), index)
           /\ phase = "number" /\ UNCHANGED <<phase, request, chunkID, chan, buffers>>
<1> DEFINE chunk == Head(strings[chan])
           index == WalkTo(buffers, chunk.id)
           rest == Tail(strings[chan])
<1>1. strings[chan] \in Seq(AnyChunk) /\ strings[chan] # <<>>
  BY DEF TypeOK, NumberString
<1>2. chunk \in AnyChunk /\ rest \in Seq(AnyChunk)
  BY <1>1
<1>3. index \in Nat
  BY WalkToType DEF TypeOK
<1>4. /\ strings' = [strings EXCEPT ![chan] = rest]
      /\ newList' = AddWithPrio(newList, Buffer(chunk, index), index)
      /\ phase = "number" /\ UNCHANGED <<phase, request, chunkID, chan, buffers>>
  BY DEF NumberString, Buffer
<1> HIDE DEF chunk, index, rest
<1>5. /\ chunk = Head(strings[chan]) /\ rest = Tail(strings[chan])
      /\ index = WalkTo(buffers, chunk.id)
  BY DEF chunk, index, rest
<1> QED BY <1>1, <1>2, <1>3, <1>4, <1>5

(* Numbering keeps the strings of every channel.                           *)
LEMMA StringsNumberString ==
  ASSUME TypeOK, StringsInv, NumberString
  PROVE  StringsInv' /\ \A c \in Channel : Cores(c)' = Cores(c)
<1>0. /\ chan \in Channel /\ strings \in [Channel -> Seq(AnyChunk)] /\ newList \in Seq(AnyChunk)
      /\ chunkID \in Nat
  BY DEF TypeOK
<1>1. PICK chunk \in AnyChunk, index \in Nat, rest \in Seq(AnyChunk) :
           /\ chunk = Head(strings[chan]) /\ rest = Tail(strings[chan])
           /\ index = WalkTo(buffers, chunk.id)
           /\ strings[chan] \in Seq(AnyChunk) /\ strings[chan] # <<>>
           /\ strings' = [strings EXCEPT ![chan] = rest]
           /\ newList' = AddWithPrio(newList, Buffer(chunk, index), index)
           /\ phase = "number" /\ UNCHANGED <<phase, request, chunkID, chan, buffers>>
  BY NumberedString
<1> DEFINE put == Prioritized(Buffer(chunk, index), index)
<1>2. put \in AnyChunk /\ put.prio = index /\ put.id = chunk.id /\ Core(put) = Core(chunk)
  BY BufferGiven
<1>3. strings'[chan] = rest /\ \A c \in Channel : c # chan => strings'[c] = strings[c]
  BY <1>0, <1>1
<1>4. /\ ToSet(strings[chan]) = {chunk} \cup ToSet(rest)
      /\ CoresOf(strings[chan]) = {Core(chunk)} \cup CoresOf(rest)
      /\ IdsDistinct(strings[chan]) =>
           IdsDistinct(rest) /\ \A x \in ToSet(rest) : x.id # chunk.id
  BY <1>1, HeadAndTail
<1>5. IdsDistinct(rest) /\ \A x \in ToSet(rest) : x.id # chunk.id
  BY <1>0, <1>4 DEF StringsInv
<1>6. \A x \in ToSet(newList) : x.id # put.id
  BY <1>2, <1>4 DEF StringsInv
<1> HIDE DEF put
<1>7. /\ ToSet(newList') = ToSet(newList) \cup {put}
      /\ IdsDistinct(newList')
  <2>1. \A x \in AnyChunk : x.prio \in Nat
    BY DEF AnyChunk, ChunkOf
  <2>2. /\ ToSet(newList') = ToSet(newList) \cup {put}
        /\ IdsDistinct(newList) /\ (\A x \in ToSet(newList) : x.id # put.id) => IdsDistinct(newList')
    BY <1>0, <1>1, <1>2, <2>1, AddWithPrioKeeps DEF put
  <2> QED BY <1>6, <2>2 DEF StringsInv
<1>8. CoresOf(newList') = CoresOf(newList) \cup {Core(chunk)}
  <2>1. CoresOf(newList') = CoresOf(newList) \cup {Core(put)}
    BY <1>7, Zenon DEF CoresOf
  <2> QED BY <1>2, <2>1
<1>9. ASSUME NEW c \in Channel  PROVE Cores(c)' = Cores(c)
  <2>1. CASE c = chan
    <3>1. Cores(c)' = CoresOf(rest) \cup CoresOf(newList')
      BY <1>1, <1>3, <2>1 DEF Cores
    <3>2. Cores(c) = CoresOf(strings[chan]) \cup CoresOf(newList)
      BY <2>1 DEF Cores
    <3> QED BY <1>4, <1>8, <3>1, <3>2
  <2>2. CASE c # chan
    BY <1>1, <1>3, <2>2 DEF Cores
  <2> QED BY <2>1, <2>2
<1>10. \A x \in ToSet(strings'[chan']), y \in ToSet(newList') : x.id # y.id
  <2>1. \A x \in ToSet(rest), y \in ToSet(newList) : x.id # y.id
    BY <1>4 DEF StringsInv
  <2> QED BY <1>1, <1>2, <1>3, <1>5, <1>7, <2>1
<1>11. \A c \in Channel : IdsDistinct(strings'[c])
  BY <1>3, <1>5 DEF StringsInv
<1>12. initialized' = IF phase' = "options" THEN {CHANNEL_IN} ELSE Channel
  BY <1>1 DEF StringsInv, request
<1>13. chunkID' \in Nat /\ chunkID' >= chunkID
  BY <1>0, <1>1
<1> QED BY <1>0, <1>7, <1>9, <1>10, <1>11, <1>12, <1>13, ChannelType, StringsSame

(* What NumberNextChannel does to the two lists.                           *)
LEMMA NumberedChannel ==
  ASSUME TypeOK, NumberNextChannel
  PROVE  /\ chan \in Channel /\ newList \in Seq(AnyChunk)
         /\ strings[chan] = <<>> /\ newList' = <<>>
         /\ strings'[chan] = Numbered(newList)
         /\ \A c \in Channel : c # chan => strings'[c] = strings[c]
         /\ phase = "number"
         /\ \/ chan = NumExceptions + 1 /\ chan' = CHANNEL_IN /\ phase' = "done"
            \/ chan' = chan + 1 /\ phase' = "number"
         /\ UNCHANGED <<request, chunkID, buffers>>
  BY DEF TypeOK, NumberNextChannel, Advance

(* The strings of a channel are back in its list when they are numbered.   *)
LEMMA StringsNumberNext ==
  ASSUME TypeOK, StringsInv, NumberNextChannel
  PROVE  StringsInv' /\ \A c \in Channel : Cores(c)' = Cores(c)
<1>0. /\ chan \in Channel /\ newList \in Seq(AnyChunk)
      /\ strings[chan] = <<>> /\ newList' = <<>>
      /\ strings'[chan] = Numbered(newList)
      /\ \A c \in Channel : c # chan => strings'[c] = strings[c]
      /\ phase = "number" /\ phase' # "options"
      /\ UNCHANGED <<request, chunkID, buffers>>
  BY NumberedChannel
<1>1. CoresOf(<<>>) = {} /\ ToSet(<<>>) = {} /\ IdsDistinct(<<>>)
  BY DEF CoresOf, ToSet, IdsDistinct
<1>2. ASSUME NEW c \in Channel  PROVE Cores(c)' = Cores(c)
  <2>1. Cores(c)' = CoresOf(strings'[c])
    BY <1>0, <1>1 DEF Cores
  <2>2. CASE c = chan
    <3>1. Cores(c) = CoresOf(newList)
      BY <1>0, <1>1, <2>2 DEF Cores
    <3>2. CoresOf(Numbered(newList)) = CoresOf(newList)
      BY <1>0, NumberedElements
    <3> QED BY <1>0, <2>1, <2>2, <3>1, <3>2
  <2>3. CASE c # chan
    BY <1>0, <2>1, <2>3 DEF Cores
  <2> QED BY <2>2, <2>3
<1>3. \A c \in Channel : IdsDistinct(strings'[c])
  <2>1. IdsDistinct(Numbered(newList))
    BY <1>0, NumberedElements DEF StringsInv
  <2> QED BY <1>0, <2>1 DEF StringsInv
<1>4. IdsDistinct(newList')
  BY <1>0, <1>1
<1>5. \A x \in ToSet(strings'[chan']), y \in ToSet(newList') : x.id # y.id
  BY <1>0, <1>1
<1>6. initialized' = IF phase' = "options" THEN {CHANNEL_IN} ELSE Channel
  BY <1>0 DEF StringsInv, request
<1>7. chunkID \in Nat /\ chunkID' \in Nat /\ chunkID' >= chunkID
  BY <1>0 DEF TypeOK
<1> QED BY <1>2, <1>3, <1>4, <1>5, <1>6, <1>7, ChannelType, StringsSame

(* The strings are an invariant of the connection.                         *)
LEMMA StringsNext == TypeOK /\ BudgetInv /\ StringsInv /\ [Next]_vars => StringsInv'
<1> SUFFICES ASSUME TypeOK, BudgetInv, StringsInv, [Next]_vars  PROVE StringsInv'
  OBVIOUS
<1>1. CASE UNCHANGED vars
  <2>1. UNCHANGED <<strings, newList, chan, chunkID, initialized, phase>>
    BY <1>1 DEF vars, lists, numbering, request
  <2>2. initialized' = IF phase' = "options" THEN {CHANNEL_IN} ELSE Channel
    BY <2>1 DEF StringsInv
  <2>3. chunkID' \in Nat /\ chunkID' >= chunkID
    BY <2>1 DEF TypeOK
  <2> QED BY <2>1, <2>2, <2>3, StringsOthers
<1>2. CASE Step
  BY <1>2, StringsMarshal, StringsPacking, StringsNumberString, StringsNumberNext
     DEF Step, NumberBuffers
<1> QED BY <1>1, <1>2 DEF Next, Finished

-----------------------------------------------------------------------------
(* The buffers of the strings                                              *)

(* The channel for which a string's buffer is collected.                   *)
Owner(x, c) == c = CHANNEL_IN \/ CHANNEL_IN \notin x.chans

(* A buffer was made for the string with this id.                          *)
Buffered(id) == \E b \in ToSet(buffers) : b.id = id

(* The strings the collection has come past.                               *)
Collected(c, i) == c < chan \/ (c = chan /\ i < cursor)

(* One buffer for every string that was collected, and for no other; its   *)
(* priority tells the direction of its string.                             *)
CollectedInv ==
  /\ \A b \in ToSet(buffers) : \E c \in Channel : \E i \in DOMAIN strings[c] :
       strings[c][i].id = b.id /\ Collected(c, i) /\ Owner(strings[c][i], c)
  /\ \A c \in Channel : \A i \in DOMAIN strings[c] :
       Collected(c, i) /\ Owner(strings[c][i], c) => Buffered(strings[c][i].id)

(* A buffer is that of a string of its id, with the priority of the        *)
(* channel for which the string was collected.                             *)
OwnedBuffer(buffer) ==
  \E c \in Channel : \E x \in Cores(c) :
    x.id = buffer.id /\ Owner(x, c) /\ buffer.prio = BufferPrio(x, c)

(* The buffers collected so far: one for an id, in the order of their      *)
(* priorities, each that of a string; in the end every string has one.     *)
BuffersInv ==
  /\ phase \in {"layout", "memory"} => cursor = 1
  /\ IdsDistinct(buffers)
  /\ PrioSorted(buffers)
  /\ phase \notin {"collect", "number", "done"} => buffers = <<>>
  /\ \A b \in ToSet(buffers) : OwnedBuffer(b)
  /\ phase = "collect" => CollectedInv
  /\ phase \in {"number", "done"} => \A c \in Channel : \A x \in Cores(c) : Buffered(x.id)

(* There are no buffers before the collection, and the collection starts   *)
(* with the first string of the first channel.                             *)
NoBuffersYet ==
  /\ buffers = <<>>
  /\ phase \in {"layout", "memory"} => cursor = 1
  /\ phase \notin {"number", "done"}
  /\ phase = "collect" => chan = CHANNEL_IN /\ cursor = 1

(* Without buffers there is nothing to say of them.                        *)
LEMMA BuffersBefore == TypeOK /\ NoBuffersYet => BuffersInv
<1> SUFFICES ASSUME TypeOK, NoBuffersYet  PROVE BuffersInv
  OBVIOUS
<1> USE DEF NoBuffersYet
<1>1. ToSet(buffers) = {} /\ IdsDistinct(buffers) /\ PrioSorted(buffers) /\ DOMAIN buffers = {}
  BY DEF ToSet, IdsDistinct, PrioSorted
<1>2. phase = "collect" => CollectedInv
  <2> SUFFICES ASSUME chan = CHANNEL_IN, cursor = 1  PROVE CollectedInv
    OBVIOUS
  <2>1. ASSUME NEW c \in Channel, NEW i \in DOMAIN strings[c], Collected(c, i)
        PROVE  FALSE
    <3>1. c \in Nat /\ i \in Nat /\ i >= 1
      <4>1. strings[c] \in Seq(AnyChunk)
        BY DEF TypeOK
      <4> QED BY <4>1, ChannelType
    <3> QED BY <2>1, <3>1 DEF Collected, CHANNEL_IN
  <2> QED BY <1>1, <2>1 DEF CollectedInv
<1> QED BY <1>1, <1>2 DEF BuffersInv

(* There are no buffers in the beginning.                                  *)
LEMMA BuffersInit == Init => BuffersInv
<1> SUFFICES ASSUME Init  PROVE BuffersInv
  OBVIOUS
<1>1. TypeOK
  BY TypeOKInit
<1>2. buffers = <<>> /\ phase = "options"
  BY DEF Init
<1> QED BY <1>1, <1>2, BuffersBefore DEF NoBuffersYet

(* The walk over the variable chunks leaves the cursor at the beginning.   *)
LEMMA BuffersPacking ==
  ASSUME TypeOK, TypeOK', BudgetInv, BuffersInv, Marshal \/ AddTags \/ PackChannel
  PROVE  BuffersInv'
<1>1. phase \notin {"collect", "number", "done"} /\ buffers' = buffers
  <2>1. CASE Marshal
    BY <2>1 DEF Marshal, SetOption, MarshalExceptionCode, GetFixedCopyChunk, GetUnboundedCopyChunk,
       GetBoundedCopyChunk, GetMapChunk, Marshalling, numbering
  <2>2. CASE AddTags
    BY <2>2 DEF AddTags, numbering
  <2>3. CASE PackChannel
    BY <2>3 DEF PackChannel, BeginChannel, TooManyItems, TakeFixed, PutBackFixed, SkipFixed, TryingFixed,
       EndFixedPass, MoveVariable, PassVariable, EndVariablePass, AddRegisterBuffer, NoRegisterBuffer,
       LayoutMemory, numbering
  <2> QED BY <2>1, <2>2, <2>3
<1>2. buffers' = <<>>
  BY <1>1 DEF BuffersInv
<1>3. /\ phase' \in {"layout", "memory"} => cursor' = 1
      /\ phase' \notin {"number", "done"}
      /\ phase' = "collect" => chan' = CHANNEL_IN /\ cursor' = 1
  <2>1. CASE Marshal
    BY <2>1 DEF Marshal, SetOption, MarshalExceptionCode, GetFixedCopyChunk, GetUnboundedCopyChunk,
       GetBoundedCopyChunk, GetMapChunk, Marshalling
  <2>2. CASE AddTags \/ BeginChannel \/ TooManyItems \/ TakeFixed \/ PutBackFixed \/ SkipFixed
    BY <2>2 DEF AddTags, BeginChannel, TooManyItems, TakeFixed, PutBackFixed, SkipFixed, TryingFixed
  <2>3. CASE EndFixedPass \/ MoveVariable \/ PassVariable \/ EndVariablePass
    BY <2>3 DEF EndFixedPass, MoveVariable, PassVariable, EndVariablePass
  <2>4. CASE AddRegisterBuffer \/ NoRegisterBuffer
    BY <2>4 DEF AddRegisterBuffer, NoRegisterBuffer, BuffersInv
  <2>5. CASE LayoutMemory
    BY <2>5 DEF LayoutMemory, Advance, BuffersInv
  <2> QED BY <2>1, <2>2, <2>3, <2>4, <2>5 DEF PackChannel
<1>4. (TypeOK /\ NoBuffersYet)' => BuffersInv'
  BY BuffersBefore, PTL
<1> QED BY <1>2, <1>3, <1>4 DEF NoBuffersYet

(* What a string of the request or the reply has in common with its core.  *)
LEMMA StringCore ==
  ASSUME TypeOK, NEW c \in Channel, NEW i \in DOMAIN strings[c]
  PROVE  /\ strings[c][i] \in AnyChunk
         /\ Core(strings[c][i]) \in Cores(c)
         /\ Core(strings[c][i]).id = strings[c][i].id
         /\ Core(strings[c][i]).chans = strings[c][i].chans
         /\ Core(strings[c][i]).xfer = strings[c][i].xfer
<1>1. strings[c] \in Seq(AnyChunk)
  BY DEF TypeOK
<1>2. strings[c][i] \in AnyChunk /\ strings[c][i] \in ToSet(strings[c])
  BY <1>1 DEF ToSet
<1>3. Core(strings[c][i]) \in Cores(c)
  BY <1>2, Zenon DEF Cores, CoresOf
<1>4. /\ Core(strings[c][i]).id = strings[c][i].id
      /\ Core(strings[c][i]).chans = strings[c][i].chans
      /\ Core(strings[c][i]).xfer = strings[c][i].xfer
  BY DEF Core
<1> QED BY <1>2, <1>3, <1>4

(* A string is one of the request only, of the reply only, or of both, and *)
(* both have the same.                                                     *)
LEMMA SameString ==
  ASSUME TypeOK, StringsInv, NEW c \in Channel, NEW i \in DOMAIN strings[c],
         NEW d \in Channel, NEW j \in DOMAIN strings[d], strings[c][i].id = strings[d][j].id
  PROVE  /\ strings[c][i].chans = strings[d][j].chans
         /\ strings[c][i].xfer = strings[d][j].xfer
         /\ c \in {CHANNEL_IN, CHANNEL_OUT} /\ c \in strings[d][j].chans
         /\ c = d => i = j
<1>1. Core(strings[c][i]) \in Cores(c) /\ Core(strings[d][j]) \in Cores(d)
  BY StringCore
<1>2. /\ Core(strings[c][i]).id = strings[c][i].id /\ Core(strings[d][j]).id = strings[d][j].id
      /\ Core(strings[c][i]).chans = strings[c][i].chans /\ Core(strings[d][j]).chans = strings[d][j].chans
      /\ Core(strings[c][i]).xfer = strings[c][i].xfer /\ Core(strings[d][j]).xfer = strings[d][j].xfer
  BY StringCore
<1>3. Core(strings[c][i]) = Core(strings[d][j])
  BY <1>1, <1>2 DEF StringsInv
<1>4. c \in Core(strings[c][i]).chans /\ Core(strings[c][i]).chans \subseteq {CHANNEL_IN, CHANNEL_OUT}
  BY <1>1 DEF StringsInv
<1>5. c = d => i = j
  BY DEF StringsInv, IdsDistinct
<1> QED BY <1>2, <1>3, <1>4, <1>5

(* The entry that is made for a string.                                    *)
LEMMA BufferEntry ==
  ASSUME NEW chunk \in AnyChunk, NEW c \in Channel
  PROVE  LET buffer == NewChunk(chunk.id, chunk.part, 1, 1, chunk.chans, FALSE)
             prio == BufferPrio(chunk, c)
         IN  /\ prio \in Nat
             /\ Prioritized(buffer, prio) \in SizedChunk
             /\ Prioritized(buffer, prio).id = chunk.id
             /\ Prioritized(buffer, prio).prio = prio
<1> DEFINE buffer == NewChunk(chunk.id, chunk.part, 1, 1, chunk.chans, FALSE)
           prio == BufferPrio(chunk, c)
<1>1. prio \in Nat
  BY DEF BufferPrio
<1>2. buffer \in ChunkOf(Nat) /\ buffer.id = chunk.id
  <2>1. chunk.id \in Nat /\ chunk.part \in Parts /\ chunk.chans \in SUBSET Channel
    BY DEF AnyChunk, ChunkOf
  <2>2. 1 \in Nat /\ 1 \in Nat \ {0} /\ FALSE \in BOOLEAN
    OBVIOUS
  <2>3. buffer.id = chunk.id
    BY DEF NewChunk
  <2> QED BY <2>1, <2>2, <2>3, NewChunkType, Zenon
<1> HIDE DEF buffer, prio
<1>3. /\ Prioritized(buffer, prio) \in ChunkOf(Nat)
      /\ Prioritized(buffer, prio).id = buffer.id
      /\ Prioritized(buffer, prio).prio = prio
  BY <1>1, <1>2, PrioritizedChunk
<1> QED BY <1>1, <1>2, <1>3 DEF SizedChunk, buffer, prio

(* A string has no buffer before it is collected: as a string of another   *)
(* channel it would have been one of the request.                          *)
LEMMA NotYetBuffered ==
  ASSUME TypeOK, StringsInv, CollectedInv, cursor \in DOMAIN strings[chan],
         Owner(strings[chan][cursor], chan), NEW b \in ToSet(buffers)
  PROVE  b.id # strings[chan][cursor].id
<1>0. chan \in Channel /\ Channel \subseteq Nat
  BY ChannelType DEF TypeOK
<1> SUFFICES ASSUME b.id = strings[chan][cursor].id  PROVE FALSE
  OBVIOUS
<1>c. PICK c \in Channel : \E i \in DOMAIN strings[c] :
        strings[c][i].id = b.id /\ Collected(c, i) /\ Owner(strings[c][i], c)
  BY DEF CollectedInv
<1>1. PICK i \in DOMAIN strings[c] :
        strings[c][i].id = b.id /\ Collected(c, i) /\ Owner(strings[c][i], c)
  BY <1>c
<1>2. /\ strings[c][i].chans = strings[chan][cursor].chans
      /\ c \in {CHANNEL_IN, CHANNEL_OUT} /\ c \in strings[chan][cursor].chans
      /\ c = chan => i = cursor
  BY <1>0, <1>1, SameString
<1>3. chan \in {CHANNEL_IN, CHANNEL_OUT}
  BY <1>0, <1>1, SameString
<1>4. c # chan /\ c < chan
  <2>1. cursor \in Nat
    BY DEF TypeOK
  <2> QED BY <1>0, <1>1, <1>2, <2>1 DEF Collected
<1>5. chan = CHANNEL_OUT /\ c = CHANNEL_IN
  BY <1>2, <1>3, <1>4 DEF CHANNEL_IN, CHANNEL_OUT
<1>6. CHANNEL_IN \notin strings[chan][cursor].chans
  BY <1>5 DEF Owner, CHANNEL_IN, CHANNEL_OUT
<1> QED BY <1>2, <1>5, <1>6

(* A string that is collected brings the buffer that was missing, in the   *)
(* place of its priority.                                                  *)
LEMMA BuffersCollect ==
  ASSUME TypeOK, BudgetInv, StringsInv, BuffersInv, CollectBuffer
  PROVE  BuffersInv'
<1> DEFINE chunk == strings[chan][cursor]
           buffer == NewChunk(chunk.id, chunk.part, 1, 1, chunk.chans, FALSE)
           prio == BufferPrio(chunk, chan)
           put == Prioritized(buffer, prio)
<1>0. /\ chan \in Channel /\ strings[chan] \in Seq(AnyChunk) /\ buffers \in Seq(SizedChunk)
      /\ cursor \in Nat \ {0}
  BY DEF TypeOK
<1>1. /\ phase = "collect" /\ phase' = "collect" /\ cursor <= Len(strings[chan])
      /\ buffers' = IF Owner(chunk, chan) THEN AddWithPrio(buffers, buffer, prio) ELSE buffers
      /\ cursor' = cursor + 1
      /\ UNCHANGED <<chan, strings, newList>>
  BY DEF CollectBuffer, Owner, lists
<1>2. cursor \in DOMAIN strings[chan]
  BY <1>0, <1>1
<1>3. chunk \in AnyChunk /\ Core(chunk) \in Cores(chan)
  BY <1>0, <1>2, StringCore
<1>4. \A c : Cores(c)' = Cores(c)
  BY <1>1 DEF Cores
<1>5. prio \in Nat /\ put \in SizedChunk /\ put.id = chunk.id /\ put.prio = prio
  BY <1>0, <1>3, BufferEntry
<1>6. CollectedInv /\ IdsDistinct(buffers) /\ PrioSorted(buffers)
  BY <1>1 DEF BuffersInv
<1>7. \A c \in Channel : \A i \in DOMAIN strings[c] :
        Collected(c, i)' <=> Collected(c, i) \/ (c = chan /\ i = cursor)
  <2> SUFFICES ASSUME NEW c \in Channel, NEW i \in DOMAIN strings[c]
               PROVE  Collected(c, i)' <=> Collected(c, i) \/ (c = chan /\ i = cursor)
    OBVIOUS
  <2>1. c \in Nat /\ chan \in Nat /\ i \in Nat
    <3>1. strings[c] \in Seq(AnyChunk)
      BY DEF TypeOK
    <3> QED BY <1>0, <3>1, ChannelType
  <2>2. i < cursor + 1 <=> i < cursor \/ i = cursor
    BY <1>0, <2>1
  <2> QED BY <1>1, <2>1, <2>2 DEF Collected
<1>8. CASE Owner(chunk, chan)
  <2>1. \A b \in ToSet(buffers) : b.id # put.id
    BY <1>2, <1>5, <1>6, <1>8, NotYetBuffered
  <2>2. /\ ToSet(buffers') = ToSet(buffers) \cup {put}
        /\ IdsDistinct(buffers') /\ PrioSorted(buffers')
    <3>1. \A x \in SizedChunk : x.prio \in Nat
      BY DEF SizedChunk, ChunkOf
    <3>2. buffers' = AddWithPrio(buffers, buffer, prio)
      BY <1>1, <1>8
    <3> HIDE DEF buffer, prio, chunk
    <3>3. /\ ToSet(buffers') = ToSet(buffers) \cup {put}
          /\ PrioSorted(buffers) => PrioSorted(buffers')
          /\ IdsDistinct(buffers) /\ (\A x \in ToSet(buffers) : x.id # put.id) => IdsDistinct(buffers')
      BY <1>0, <1>5, <3>1, <3>2, AddWithPrioKeeps
    <3> QED BY <1>6, <2>1, <3>3
  <2>4. ASSUME NEW b \in ToSet(buffers')  PROVE OwnedBuffer(b)'
    <3>1. CASE b \in ToSet(buffers)
      BY <1>4, <3>1 DEF BuffersInv, OwnedBuffer
    <3>2. CASE b = put
      <4>1. /\ Core(chunk).id = b.id /\ Owner(Core(chunk), chan)
            /\ b.prio = BufferPrio(Core(chunk), chan)
        BY <1>5, <1>8, <3>2 DEF Core, Owner, BufferPrio
      <4> HIDE DEF chunk
      <4> QED BY <1>0, <1>3, <1>4, <4>1 DEF OwnedBuffer
    <3> QED BY <2>2, <3>1, <3>2
  <2>5. CollectedInv'
    <3>1. ASSUME NEW b \in ToSet(buffers')
          PROVE  \E c \in Channel : \E i \in DOMAIN strings[c] :
                   strings[c][i].id = b.id /\ Collected(c, i)' /\ Owner(strings[c][i], c)
      <4>1. CASE b \in ToSet(buffers)
        BY <1>6, <1>7, <4>1 DEF CollectedInv
      <4>2. CASE b = put
        BY <1>0, <1>2, <1>5, <1>7, <1>8, <4>2
      <4> QED BY <2>2, <4>1, <4>2
    <3>2. ASSUME NEW c \in Channel, NEW i \in DOMAIN strings[c],
                 Collected(c, i)', Owner(strings[c][i], c)
          PROVE  \E b \in ToSet(buffers') : b.id = strings[c][i].id
      <4>1. CASE Collected(c, i)
        <5>1. Buffered(strings[c][i].id)
          BY <1>6, <3>2, <4>1, Zenon DEF CollectedInv
        <5> QED BY <2>2, <5>1 DEF Buffered
      <4>2. CASE c = chan /\ i = cursor
        BY <1>5, <2>2, <4>2
      <4> QED BY <1>7, <3>2, <4>1, <4>2
    <3>3. strings' = strings
      BY <1>1
    <3> HIDE DEF put
    <3> QED BY <3>1, <3>2, <3>3 DEF CollectedInv, Owner, Buffered
  <2> QED BY <1>1, <2>2, <2>4, <2>5 DEF BuffersInv
<1>9. CASE ~Owner(chunk, chan)
  <2>1. buffers' = buffers
    BY <1>1, <1>9
  <2>2. \A b \in ToSet(buffers') : OwnedBuffer(b)'
    BY <1>4, <2>1 DEF BuffersInv, OwnedBuffer
  <2>3. CollectedInv'
    <3>1. \A b \in ToSet(buffers) : \E c \in Channel : \E i \in DOMAIN strings[c] :
            strings[c][i].id = b.id /\ Collected(c, i)' /\ Owner(strings[c][i], c)
      BY <1>6, <1>7 DEF CollectedInv
    <3>2. ASSUME NEW c \in Channel, NEW i \in DOMAIN strings[c],
                 Collected(c, i)', Owner(strings[c][i], c)
          PROVE  Buffered(strings[c][i].id)
      <4>1. Collected(c, i)
        BY <1>7, <1>9, <3>2
      <4> QED BY <1>6, <3>2, <4>1 DEF CollectedInv
    <3>3. strings' = strings
      BY <1>1
    <3> QED BY <2>1, <3>1, <3>2, <3>3 DEF CollectedInv, Owner, Buffered
  <2> QED BY <1>1, <1>6, <2>1, <2>2, <2>3 DEF BuffersInv
<1> QED BY <1>8, <1>9

(* The strings of a channel are those in its list while none is renumbered. *)
LEMMA CoreOfString ==
  ASSUME TypeOK, newList = <<>>, NEW c \in Channel, NEW x \in Cores(c)
  PROVE  \E i \in DOMAIN strings[c] : x = Core(strings[c][i])
<1>1. CoresOf(newList) = {}
  BY DEF CoresOf, ToSet
<1>2. x \in CoresOf(strings[c])
  BY <1>1 DEF Cores
<1> QED BY <1>2, Zenon DEF CoresOf, ToSet

(* All strings were collected when the last channel was: those of the      *)
(* reply that are sent both ways as strings of the request.                *)
LEMMA AllBuffered ==
  ASSUME TypeOK, StringsInv, CollectedInv, newList = <<>>,
         \A c \in Channel : \A i \in DOMAIN strings[c] : Collected(c, i),
         NEW c \in Channel, NEW x \in Cores(c)
  PROVE  Buffered(x.id)
<1>1. PICK i \in DOMAIN strings[c] : x = Core(strings[c][i])
  BY CoreOfString
<1>2. x.id = strings[c][i].id /\ x.chans = strings[c][i].chans
  BY <1>1 DEF Core
<1>3. CASE Owner(x, c)
  BY <1>2, <1>3 DEF CollectedInv, Owner
<1>4. CASE ~Owner(x, c)
  <2>1. CHANNEL_IN \in x.chans
    BY <1>4 DEF Owner
  <2>2. CHANNEL_IN \in Channel /\ x \in Cores(CHANNEL_IN)
    BY <2>1, ChannelType DEF StringsInv
  <2>3. PICK j \in DOMAIN strings[CHANNEL_IN] : x = Core(strings[CHANNEL_IN][j])
    BY <2>2, CoreOfString
  <2>4. x.id = strings[CHANNEL_IN][j].id
    BY <2>3 DEF Core
  <2> QED BY <2>2, <2>4 DEF CollectedInv, Owner
<1> QED BY <1>3, <1>4

(* At the end of a channel all its strings were collected, and the last    *)
(* channel leaves no string without a buffer.                              *)
LEMMA BuffersCollectNext ==
  ASSUME TypeOK, BudgetInv, StringsInv, BuffersInv, CollectNextChannel
  PROVE  BuffersInv'
<1>0. /\ chan \in Channel /\ strings[chan] \in Seq(AnyChunk) /\ cursor \in Nat \ {0}
      /\ Channel \subseteq Nat /\ \A c \in Channel : c <= NumExceptions + 1
  BY ConnectionAssumption, ChannelType DEF TypeOK, Channel
<1>1. /\ phase = "collect" /\ cursor > Len(strings[chan]) /\ cursor' = 1
      /\ \/ chan = NumExceptions + 1 /\ chan' = CHANNEL_IN /\ phase' = "number"
         \/ chan' = chan + 1 /\ phase' = "collect"
      /\ UNCHANGED <<strings, buffers, newList>>
  BY DEF CollectNextChannel, Advance, lists
<1>2. newList = <<>> /\ newList' = <<>>
  BY <1>1 DEF BudgetInv
<1>3. \A c : Cores(c)' = Cores(c)
  <2>1. CoresOf(newList) = {}
    BY <1>2 DEF CoresOf, ToSet
  <2> QED BY <1>1, <2>1 DEF Cores
<1>4. CollectedInv /\ IdsDistinct(buffers) /\ PrioSorted(buffers)
  BY <1>1 DEF BuffersInv
<1>5. \A c \in Channel, i \in Nat : i \in DOMAIN strings[c] => i >= 1 /\ (c = chan => i < cursor)
  <2> SUFFICES ASSUME NEW c \in Channel, NEW i \in DOMAIN strings[c]
               PROVE  i >= 1 /\ (c = chan => i < cursor)
    OBVIOUS
  <2>1. strings[c] \in Seq(AnyChunk)
    BY DEF TypeOK
  <2>2. i \in 1 .. Len(strings[c]) /\ Len(strings[c]) \in Nat
    BY <2>1
  <2> QED BY <1>0, <1>1, <2>2
<1>6. \A b \in ToSet(buffers') : OwnedBuffer(b)'
  BY <1>1, <1>3 DEF BuffersInv, OwnedBuffer
<1>7. ASSUME NEW c \in Channel, NEW i \in DOMAIN strings[c]  PROVE i \in Nat
  <2>1. strings[c] \in Seq(AnyChunk)
    BY DEF TypeOK
  <2> QED BY <2>1
<1>8. CASE chan' = chan + 1 /\ phase' = "collect"
  <2>1. ASSUME NEW c \in Channel, NEW i \in DOMAIN strings[c]
        PROVE  Collected(c, i)' <=> Collected(c, i)
    <3>1. i \in Nat /\ i >= 1 /\ (c = chan => i < cursor)
      BY <1>5, <1>7
    <3>2. c < chan + 1 <=> c < chan \/ c = chan
      BY <1>0
    <3> QED BY <1>0, <1>1, <1>8, <3>1, <3>2 DEF Collected
  <2>2. CollectedInv'
    <3>1. strings' = strings /\ buffers' = buffers
      BY <1>1
    <3>2. \A c \in Channel : \A i \in DOMAIN strings[c] :
            Collected(c, i)' /\ Owner(strings[c][i], c) => Buffered(strings[c][i].id)
      BY <1>4, <2>1 DEF CollectedInv
    <3>3. \A b \in ToSet(buffers) : \E c \in Channel : \E i \in DOMAIN strings[c] :
            strings[c][i].id = b.id /\ Collected(c, i)' /\ Owner(strings[c][i], c)
      BY <1>4, <2>1 DEF CollectedInv
    <3> QED BY <3>1, <3>2, <3>3 DEF CollectedInv, Owner, Buffered
  <2> QED BY <1>1, <1>4, <1>6, <1>8, <2>2 DEF BuffersInv
<1>9. CASE chan = NumExceptions + 1 /\ phase' = "number"
  <2>1. \A c \in Channel : \A i \in DOMAIN strings[c] : Collected(c, i)
    <3> SUFFICES ASSUME NEW c \in Channel, NEW i \in DOMAIN strings[c]  PROVE Collected(c, i)
      OBVIOUS
    <3>1. i \in Nat /\ (c = chan => i < cursor)
      BY <1>5, <1>7
    <3>2. c < chan \/ c = chan
      BY <1>0, <1>9
    <3> QED BY <3>1, <3>2 DEF Collected
  <2>2. \A c \in Channel : \A x \in Cores(c) : Buffered(x.id)
    BY <1>2, <1>4, <2>1, AllBuffered
  <2>3. \A c \in Channel : \A x \in Cores(c)' : \E b \in ToSet(buffers') : b.id = x.id
    BY <1>1, <1>3, <2>2 DEF Buffered
  <2> QED BY <1>1, <1>4, <1>6, <1>9, <2>3 DEF BuffersInv, Buffered
<1> QED BY <1>1, <1>8, <1>9

(* The numbering changes neither the buffers nor who has which.            *)
LEMMA BuffersNumber ==
  ASSUME TypeOK, StringsInv, BuffersInv, NumberString \/ NumberNextChannel
  PROVE  BuffersInv'
<1>1. phase = "number" /\ phase' \in {"number", "done"} /\ buffers' = buffers
  BY DEF NumberString, NumberNextChannel, Advance
<1>2. \A c \in Channel : Cores(c)' = Cores(c)
  BY StringsNumberString, StringsNumberNext
<1>3. \A b \in ToSet(buffers') : OwnedBuffer(b)'
  BY <1>1, <1>2 DEF BuffersInv, OwnedBuffer
<1>4. \A c \in Channel : \A x \in Cores(c)' : \E b \in ToSet(buffers') : b.id = x.id
  BY <1>1, <1>2 DEF BuffersInv, Buffered
<1> QED BY <1>1, <1>3, <1>4 DEF BuffersInv, Buffered

(* Every string has one buffer.                                            *)
LEMMA BuffersNext ==
  TypeOK /\ BudgetInv /\ StringsInv /\ BuffersInv /\ [Next]_vars => BuffersInv'
<1> SUFFICES ASSUME TypeOK, BudgetInv, StringsInv, BuffersInv, [Next]_vars  PROVE BuffersInv'
  OBVIOUS
<1>0. TypeOK'
  BY TypeOKNext
<1>1. CASE UNCHANGED vars
  <2>1. UNCHANGED <<strings, newList, chan, cursor, buffers, phase>>
    BY <1>1 DEF vars, lists, numbering
  <2> QED BY <2>1 DEF BuffersInv, CollectedInv, OwnedBuffer, Collected, Buffered, Cores
<1>2. CASE Step
  BY <1>0, <1>2, BuffersPacking, BuffersCollect, BuffersCollectNext, BuffersNumber
     DEF Step, NumberBuffers
<1> QED BY <1>1, <1>2 DEF Next, Finished

-----------------------------------------------------------------------------
(* The strings in the order of their buffers                               *)

(* A list that was sorted by the numbers of the strings' buffers.          *)
Renumbered(list) ==
  /\ PrioSorted(list)
  /\ \A x \in ToSet(list) : x.buf = WalkTo(buffers, x.id) /\ x.prio = x.buf

(* The strings of the channels that were numbered are sorted by their      *)
(* buffers, and their offsets are their places.                            *)
RenumberedInv ==
  /\ phase = "number" => Renumbered(newList)
  /\ \A c \in Channel : (phase = "number" /\ c < chan) \/ phase = "done" =>
       /\ Renumbered(strings[c])
       /\ \A i \in DOMAIN strings[c] : strings[c][i].offset = i - 1

(* A string goes to the place its buffer has among the others.             *)
LEMMA RenumberedString ==
  ASSUME TypeOK, RenumberedInv, NumberString
  PROVE  RenumberedInv'
<1>0. /\ chan \in Channel /\ strings \in [Channel -> Seq(AnyChunk)] /\ newList \in Seq(AnyChunk)
      /\ Channel \subseteq Nat
  BY ChannelType DEF TypeOK
<1>1. PICK chunk \in AnyChunk, index \in Nat, rest \in Seq(AnyChunk) :
           /\ chunk = Head(strings[chan]) /\ rest = Tail(strings[chan])
           /\ index = WalkTo(buffers, chunk.id)
           /\ strings[chan] \in Seq(AnyChunk) /\ strings[chan] # <<>>
           /\ strings' = [strings EXCEPT ![chan] = rest]
           /\ newList' = AddWithPrio(newList, Buffer(chunk, index), index)
           /\ phase = "number" /\ UNCHANGED <<phase, request, chunkID, chan, buffers>>
  BY NumberedString
<1> DEFINE put == Prioritized(Buffer(chunk, index), index)
<1>2. put \in AnyChunk /\ put.prio = index /\ put.buf = index /\ put.id = chunk.id
  BY BufferGiven
<1> HIDE DEF put
<1>3. Renumbered(newList)
  BY <1>1 DEF RenumberedInv
<1>4. ToSet(newList') = ToSet(newList) \cup {put} /\ PrioSorted(newList')
  <2>1. \A x \in AnyChunk : x.prio \in Nat
    BY DEF AnyChunk, ChunkOf
  <2>2. /\ ToSet(newList') = ToSet(newList) \cup {put}
        /\ PrioSorted(newList) => PrioSorted(newList')
    BY <1>0, <1>1, <1>2, <2>1, AddWithPrioKeeps, SMTT(60) DEF put
  <2> QED BY <1>3, <2>2 DEF Renumbered
<1>5. Renumbered(newList)'
  BY <1>1, <1>2, <1>3, <1>4 DEF Renumbered
<1>6. ASSUME NEW c \in Channel, c < chan
      PROVE  Renumbered(strings[c])' /\ \A i \in DOMAIN strings'[c] : strings'[c][i].offset = i - 1
  <2>1. Renumbered(strings[c]) /\ \A i \in DOMAIN strings[c] : strings[c][i].offset = i - 1
    BY <1>1, <1>6 DEF RenumberedInv
  <2>2. c # chan
    BY <1>0, <1>6
  <2>3. strings'[c] = strings[c]
    BY <1>0, <1>1, <2>2
  <2> QED BY <1>1, <2>1, <2>3 DEF Renumbered
<1> QED BY <1>1, <1>5, <1>6 DEF RenumberedInv

(* A channel that is finished gets its offsets in that order.              *)
LEMMA RenumberedChannel ==
  ASSUME TypeOK, RenumberedInv, NumberNextChannel
  PROVE  RenumberedInv'
<1>0. /\ chan \in Channel /\ newList \in Seq(AnyChunk)
      /\ strings[chan] = <<>> /\ newList' = <<>>
      /\ strings'[chan] = Numbered(newList)
      /\ \A c \in Channel : c # chan => strings'[c] = strings[c]
      /\ phase = "number"
      /\ \/ chan = NumExceptions + 1 /\ chan' = CHANNEL_IN /\ phase' = "done"
         \/ chan' = chan + 1 /\ phase' = "number"
      /\ UNCHANGED <<request, chunkID, buffers>>
  BY NumberedChannel
<1>1. Channel \subseteq Nat /\ \A c \in Channel : c <= NumExceptions + 1
  BY ConnectionAssumption, ChannelType DEF Channel
<1>2. Renumbered(newList)
  BY <1>0 DEF RenumberedInv
<1>3. Renumbered(newList)'
  BY <1>0 DEF Renumbered, PrioSorted, ToSet
<1>5. /\ PrioSorted(Numbered(newList))
      /\ \A x \in ToSet(Numbered(newList)) : x.buf = WalkTo(buffers, x.id) /\ x.prio = x.buf
      /\ \A i \in DOMAIN Numbered(newList) : Numbered(newList)[i].offset = i - 1
  <2> DEFINE new == Numbered(newList)
             n == Len(newList)
  <2>1. /\ Len(new) = n /\ n \in Nat
        /\ \A i \in 1 .. n :
             /\ new[i].offset = i - 1
             /\ new[i].id = newList[i].id
             /\ new[i].prio = newList[i].prio
             /\ new[i].buf = newList[i].buf
        /\ PrioSorted(newList) => PrioSorted(new)
    BY <1>0, NumberedElements
  <2>2. DOMAIN new = 1 .. n /\ DOMAIN newList = 1 .. n
    BY <1>0 DEF Numbered
  <2> HIDE DEF new, n
  <2>3. ASSUME NEW x \in ToSet(new)  PROVE x.buf = WalkTo(buffers, x.id) /\ x.prio = x.buf
    <3>1. PICK i \in 1 .. n : x = new[i]
      BY <2>2 DEF ToSet
    <3>2. newList[i] \in ToSet(newList)
      BY <2>2 DEF ToSet
    <3>3. newList[i].buf = WalkTo(buffers, newList[i].id) /\ newList[i].prio = newList[i].buf
      BY <1>2, <3>2 DEF Renumbered
    <3> QED BY <2>1, <3>1, <3>3
  <2> QED BY <1>2, <2>1, <2>2, <2>3 DEF Renumbered, new
<1>6. ASSUME NEW c \in Channel, (phase' = "number" /\ c < chan') \/ phase' = "done"
      PROVE  /\ PrioSorted(strings'[c])
             /\ \A x \in ToSet(strings'[c]) : x.buf = WalkTo(buffers', x.id) /\ x.prio = x.buf
             /\ \A i \in DOMAIN strings'[c] : strings'[c][i].offset = i - 1
  <2>1. CASE c = chan
    BY <1>0, <1>5, <2>1
  <2>2. CASE c # chan
    <3>1. c < chan
      BY <1>0, <1>1, <1>6, <2>2
    <3>2. Renumbered(strings[c]) /\ \A i \in DOMAIN strings[c] : strings[c][i].offset = i - 1
      BY <1>0, <3>1 DEF RenumberedInv
    <3> QED BY <1>0, <2>2, <3>2 DEF Renumbered
  <2> QED BY <2>1, <2>2
<1> QED BY <1>3, <1>6 DEF RenumberedInv, Renumbered

(* Every step keeps what is known of the numbered channels.                *)
LEMMA RenumberedNext == TypeOK /\ BudgetInv /\ RenumberedInv /\ [Next]_vars => RenumberedInv'
<1> SUFFICES ASSUME TypeOK, BudgetInv, RenumberedInv, [Next]_vars  PROVE RenumberedInv'
  OBVIOUS
<1>1. CASE UNCHANGED vars
  <2>1. UNCHANGED <<strings, newList, chan, buffers, phase>>
    BY <1>1 DEF vars, lists, numbering
  <2> QED BY <2>1 DEF RenumberedInv, Renumbered
<1>2. CASE Marshal \/ AddTags \/ PackChannel \/ CollectBuffer
  <2>1. phase' \notin {"number", "done"}
    BY <1>2 DEF Marshal, SetOption, MarshalExceptionCode, GetFixedCopyChunk, GetUnboundedCopyChunk,
       GetBoundedCopyChunk, GetMapChunk, Marshalling, AddTags,
       PackChannel, BeginChannel, TooManyItems, TakeFixed, PutBackFixed, SkipFixed, TryingFixed,
       EndFixedPass, MoveVariable, PassVariable, EndVariablePass, AddRegisterBuffer, NoRegisterBuffer,
       LayoutMemory, Advance, CollectBuffer
  <2> QED BY <2>1 DEF RenumberedInv
<1>3. CASE CollectNextChannel
  <2>1. /\ phase = "collect" /\ phase' \in {"collect", "number"} /\ newList' = newList
        /\ phase' = "number" => chan' = CHANNEL_IN
    BY <1>3 DEF CollectNextChannel, Advance
  <2>2. newList' = <<>>
    BY <2>1 DEF BudgetInv
  <2>3. Renumbered(newList)'
    BY <2>2 DEF Renumbered, PrioSorted, ToSet
  <2>4. \A c \in Channel : ~(c < CHANNEL_IN)
    BY ChannelType DEF CHANNEL_IN
  <2> QED BY <2>1, <2>3, <2>4 DEF RenumberedInv
<1>4. CASE NumberString \/ NumberNextChannel
  BY <1>4, RenumberedString, RenumberedChannel
<1> QED BY <1>1, <1>2, <1>3, <1>4 DEF Next, Step, NumberBuffers, Finished

-----------------------------------------------------------------------------
(* What the order of the buffers says                                      *)

(* What holds of the lists of strings and buffers.                         *)
NumberingInv == StringsInv /\ BuffersInv /\ RenumberedInv

(* A string finds its buffer in the list of buffers, with the priority of  *)
(* the channel for which it was collected.                                 *)
LEMMA BufferOfString ==
  ASSUME TypeOK, BudgetInv, NumberingInv, Done, NEW c \in Channel, NEW i \in DOMAIN strings[c]
  PROVE  /\ strings[c][i].buf = WalkTo(buffers, strings[c][i].id)
         /\ strings[c][i].buf \in Nat
         /\ strings[c][i].buf + 1 \in DOMAIN buffers
         /\ buffers[strings[c][i].buf + 1].id = strings[c][i].id
         /\ \E d \in Channel :
              /\ Owner(strings[c][i], d) /\ d \in strings[c][i].chans
              /\ buffers[strings[c][i].buf + 1].prio = BufferPrio(strings[c][i], d)
<1> DEFINE x == strings[c][i]
           n == strings[c][i].buf
<1>1. /\ Core(x) \in Cores(c) /\ Core(x).id = x.id /\ Core(x).chans = x.chans
      /\ Core(x).xfer = x.xfer
  BY StringCore
<1>2. n = WalkTo(buffers, x.id)
  <2>1. Renumbered(strings[c])
    BY DEF NumberingInv, RenumberedInv, Done
  <2>2. x \in ToSet(strings[c])
    BY DEF ToSet
  <2> QED BY <2>1, <2>2 DEF Renumbered
<1>3. buffers \in Seq(SizedChunk) /\ \E k \in DOMAIN buffers : buffers[k].id = x.id
  <2>1. Buffered(x.id)
    BY <1>1 DEF NumberingInv, BuffersInv, Done
  <2> QED BY <2>1 DEF Buffered, ToSet, TypeOK
<1>4. n \in Nat /\ n + 1 \in DOMAIN buffers /\ buffers[n + 1].id = x.id
  BY <1>2, <1>3, WalkToMeaning
<1>5. OwnedBuffer(buffers[n + 1])
  <2>1. buffers[n + 1] \in ToSet(buffers)
    BY <1>4 DEF ToSet
  <2> QED BY <2>1 DEF NumberingInv, BuffersInv
<1> HIDE DEF x, n
<1>6. PICK d \in Channel : \E y \in Cores(d) :
        y.id = buffers[n + 1].id /\ Owner(y, d) /\ buffers[n + 1].prio = BufferPrio(y, d)
  BY <1>5 DEF OwnedBuffer
<1>7. PICK y \in Cores(d) :
        y.id = buffers[n + 1].id /\ Owner(y, d) /\ buffers[n + 1].prio = BufferPrio(y, d)
  BY <1>6
<1>8. y = Core(x)
  BY <1>1, <1>4, <1>7 DEF NumberingInv, StringsInv
<1>9. Owner(x, d) /\ d \in x.chans /\ BufferPrio(y, d) = BufferPrio(x, d)
  <2>1. d \in y.chans
    BY <1>7 DEF NumberingInv, StringsInv
  <2> QED BY <1>1, <1>7, <1>8, <2>1 DEF Owner, BufferPrio
<1>10. \E e \in Channel :
          Owner(x, e) /\ e \in x.chans /\ buffers[n + 1].prio = BufferPrio(x, e)
  BY <1>7, <1>9
<1> QED BY <1>2, <1>4, <1>10 DEF x, n

(* Transferred strings come before temporaries, and those of the request   *)
(* before the others.                                                      *)
LEMMA PriorityOfString ==
  ASSUME TypeOK, BudgetInv, NumberingInv, Done, NEW c \in Channel, NEW i \in DOMAIN strings[c]
  PROVE  /\ buffers[strings[c][i].buf + 1].prio \in 1 .. 4
         /\ strings[c][i].xfer <=> buffers[strings[c][i].buf + 1].prio <= 3
         /\ c = CHANNEL_IN /\ strings[c][i].xfer =>
              buffers[strings[c][i].buf + 1].prio <= 2
<1> DEFINE x == strings[c][i]
           prio == buffers[strings[c][i].buf + 1].prio
<1>1. PICK d \in Channel : Owner(x, d) /\ d \in x.chans /\ prio = BufferPrio(x, d)
  BY BufferOfString
<1>2. x.xfer \in BOOLEAN
  BY StringCore DEF AnyChunk, ChunkOf
<1>3. c \in x.chans
  BY SameString DEF NumberingInv
<1> HIDE DEF x, prio
<1>4. BufferPrio(x, d) \in 1 .. 4 /\ (x.xfer <=> BufferPrio(x, d) <= 3)
  BY <1>2 DEF BufferPrio
<1>5. c = CHANNEL_IN /\ x.xfer => BufferPrio(x, d) <= 2
  BY <1>1, <1>3 DEF BufferPrio, Owner
<1> QED BY <1>1, <1>4, <1>5 DEF x, prio

(* Behind a string in its list are strings with later buffers.             *)
LEMMA BuffersInOrder ==
  ASSUME TypeOK, BudgetInv, NumberingInv, Done, NEW c \in Channel,
         NEW i \in DOMAIN strings[c], NEW j \in DOMAIN strings[c], j < i
  PROVE  strings[c][j].buf < strings[c][i].buf
<1>1. /\ strings[c][i].buf \in Nat /\ strings[c][j].buf \in Nat
      /\ buffers[strings[c][i].buf + 1].id = strings[c][i].id
      /\ buffers[strings[c][j].buf + 1].id = strings[c][j].id
  BY BufferOfString
<1>2. i \in Nat /\ j \in Nat
  <2>1. strings[c] \in Seq(AnyChunk)
    BY DEF TypeOK
  <2> QED BY <2>1
<1>3. strings[c][j].buf # strings[c][i].buf
  <2>1. strings[c][j].id # strings[c][i].id
    BY <1>2 DEF NumberingInv, StringsInv, IdsDistinct
  <2> QED BY <1>1, <2>1
<1>4. strings[c][j].buf <= strings[c][i].buf
  <2>1. Renumbered(strings[c])
    BY DEF NumberingInv, RenumberedInv, Done
  <2>2. strings[c][i] \in ToSet(strings[c]) /\ strings[c][j] \in ToSet(strings[c])
    BY DEF ToSet
  <2> QED BY <2>1, <2>2 DEF Renumbered, PrioSorted
<1> QED BY <1>1, <1>3, <1>4

(* The buffers are in the order of their priorities.                       *)
LEMMA EarlierBuffer ==
  ASSUME TypeOK, NumberingInv, NEW k \in DOMAIN buffers, NEW l \in DOMAIN buffers, k <= l
  PROVE  buffers[k].prio <= buffers[l].prio
<1>1. buffers \in Seq(SizedChunk)
  BY DEF TypeOK
<1>2. k \in Nat /\ l \in Nat /\ buffers[k].prio \in Nat
  <2>1. k \in 1 .. Len(buffers) /\ l \in 1 .. Len(buffers)
    BY <1>1
  <2>2. buffers[k] \in ChunkOf(Nat)
    BY <1>1, <2>1 DEF SizedChunk
  <2>3. buffers[k].prio \in Nat
    BY <2>2 DEF ChunkOf
  <2> QED BY <2>1, <2>3
<1> QED BY <1>2 DEF NumberingInv, BuffersInv, PrioSorted

(* Before a transferred string there are only transferred ones.            *)
LEMMA TransferredFirst ==
  ASSUME TypeOK, BudgetInv, NumberingInv, Done, NEW c \in Channel, NEW i \in TransferredStrings(c)
  PROVE  /\ i \in Nat \ {0}
         /\ \A j \in 1 .. i - 1 : j \in TransferredStrings(c)
         /\ {j \in TransferredStrings(c) : j < i} = 1 .. i - 1
         /\ Cardinality({j \in TransferredStrings(c) : j < i}) = i - 1
<1>0. strings[c] \in Seq(AnyChunk) /\ DOMAIN strings[c] = 1 .. Len(strings[c])
  BY DEF TypeOK
<1>1. i \in DOMAIN strings[c] /\ strings[c][i].xfer /\ i \in Nat \ {0}
  BY <1>0 DEF TransferredStrings
<1>2. ASSUME NEW j \in 1 .. i - 1  PROVE j \in TransferredStrings(c)
  <2>1. j \in DOMAIN strings[c] /\ j < i
    BY <1>0, <1>1
  <2>2. strings[c][j].buf < strings[c][i].buf
    BY <1>1, <2>1, BuffersInOrder
  <2>3. /\ strings[c][j].buf \in Nat /\ strings[c][j].buf + 1 \in DOMAIN buffers
        /\ strings[c][i].buf \in Nat /\ strings[c][i].buf + 1 \in DOMAIN buffers
    BY <1>1, <2>1, BufferOfString
  <2>4. buffers[strings[c][j].buf + 1].prio <= buffers[strings[c][i].buf + 1].prio
    BY <2>2, <2>3, EarlierBuffer
  <2>5. /\ buffers[strings[c][i].buf + 1].prio <= 3 /\ buffers[strings[c][i].buf + 1].prio \in 1 .. 4
        /\ buffers[strings[c][j].buf + 1].prio \in 1 .. 4
    BY <1>1, <2>1, PriorityOfString
  <2>6. strings[c][j].xfer
    <3>1. buffers[strings[c][j].buf + 1].prio <= 3
      BY <2>4, <2>5
    <3> QED BY <2>1, <3>1, PriorityOfString
  <2> QED BY <2>1, <2>6 DEF TransferredStrings
<1>3. {j \in TransferredStrings(c) : j < i} = 1 .. i - 1
  <2>1. \A j \in TransferredStrings(c) : j \in Nat \ {0}
    BY <1>0 DEF TransferredStrings
  <2>2. \A j \in 1 .. i - 1 : j < i
    BY <1>1
  <2>3. \A j \in Nat \ {0} : j < i => j \in 1 .. i - 1
    BY <1>1
  <2>4. \A j \in {k \in TransferredStrings(c) : k < i} : j \in 1 .. i - 1
    BY <2>1, <2>3
  <2>5. \A j \in 1 .. i - 1 : j \in {k \in TransferredStrings(c) : k < i}
    BY <1>2, <2>2
  <2> QED BY <2>4, <2>5
<1>4. Cardinality(1 .. i - 1) = i - 1
  BY <1>1, UpToCardinality
<1> QED BY <1>1, <1>2, <1>3, <1>4

(* The strings before a transferred one of the request have the buffers    *)
(* before its own: what is numbered before them is sent with the request.  *)
LEMMA RequestBuffers ==
  ASSUME TypeOK, BudgetInv, NumberingInv, Done, NEW i \in TransferredStrings(CHANNEL_IN)
  PROVE  strings[CHANNEL_IN][i].buf = i - 1
<1> DEFINE list == strings[CHANNEL_IN]
           n == list[i].buf
           f == [j \in 1 .. i - 1 |-> list[j].buf + 1]
<1>0. /\ CHANNEL_IN \in Channel /\ list \in Seq(AnyChunk) /\ buffers \in Seq(SizedChunk)
      /\ DOMAIN list = 1 .. Len(list) /\ DOMAIN buffers = 1 .. Len(buffers)
  BY ChannelType DEF TypeOK
<1>1. i \in DOMAIN list /\ list[i].xfer /\ i \in Nat \ {0}
  BY <1>0 DEF TransferredStrings
<1>2. \A j \in 1 .. i - 1 : j \in DOMAIN list /\ j < i /\ j \in Nat
  BY <1>0, <1>1
<1>3. n \in Nat /\ n + 1 \in DOMAIN buffers /\ buffers[n + 1].prio \in 1 .. 4 /\ buffers[n + 1].prio <= 2
  BY <1>0, <1>1, BufferOfString, PriorityOfString
<1>4. ASSUME NEW j \in 1 .. i - 1
      PROVE  /\ list[j].buf \in Nat /\ list[j].buf < n
             /\ list[j].buf + 1 \in DOMAIN buffers /\ buffers[list[j].buf + 1].id = list[j].id
  BY <1>0, <1>1, <1>2, BufferOfString, BuffersInOrder
<1>5. f \in [1 .. i - 1 -> 1 .. n]
  <2>1. \A j \in 1 .. i - 1 : list[j].buf + 1 \in 1 .. n
    BY <1>3, <1>4
  <2> HIDE DEF list, n
  <2> QED BY <2>1
<1>6. ASSUME NEW j \in 1 .. i - 1, NEW k \in 1 .. i - 1, f[j] = f[k]  PROVE j = k
  <2>1. list[j].buf = list[k].buf
    BY <1>4, <1>6
  <2>2. list[j].id = list[k].id
    BY <1>4, <2>1
  <2> QED BY <1>0, <1>2, <2>2 DEF NumberingInv, StringsInv, IdsDistinct
<1>7. ASSUME NEW k \in 1 .. n  PROVE \E j \in 1 .. i - 1 : f[j] = k
  <2>1. k \in DOMAIN buffers /\ k <= n + 1
    BY <1>0, <1>3
  <2>2. buffers[k].prio <= buffers[n + 1].prio
    BY <1>3, <2>1, EarlierBuffer
  <2>3. OwnedBuffer(buffers[k])
    BY <2>1 DEF NumberingInv, BuffersInv, ToSet
  <2>4. PICK c \in Channel : \E x \in Cores(c) :
          x.id = buffers[k].id /\ Owner(x, c) /\ buffers[k].prio = BufferPrio(x, c)
    BY <2>3 DEF OwnedBuffer
  <2>5. PICK x \in Cores(c) :
          x.id = buffers[k].id /\ Owner(x, c) /\ buffers[k].prio = BufferPrio(x, c)
    BY <2>4
  <2>6. c = CHANNEL_IN
    <3>1. buffers[k].prio <= 2
      BY <1>3, <2>2, <2>5 DEF BufferPrio
    <3> QED BY <2>5, <3>1 DEF BufferPrio
  <2>7. PICK j \in DOMAIN list : x = Core(list[j])
    <3>1. newList = <<>>
      BY DEF BudgetInv, Done
    <3> QED BY <1>0, <2>5, <2>6, <3>1, CoreOfString
  <2>8. /\ list[j].buf \in Nat /\ list[j].buf + 1 \in DOMAIN buffers
        /\ buffers[list[j].buf + 1].id = list[j].id
    BY <1>0, BufferOfString
  <2>9. list[j].buf + 1 = k
    <3>1. list[j].id = buffers[k].id
      BY <2>5, <2>7 DEF Core
    <3> QED BY <2>1, <2>8, <3>1 DEF NumberingInv, BuffersInv, IdsDistinct
  <2>10. j \in 1 .. i - 1
    <3>1. j \in 1 .. Len(list)
      BY <1>0
    <3>2. CASE j < i
      BY <1>1, <3>1, <3>2
    <3>3. CASE j = i
      BY <1>3, <2>9, <3>3
    <3>4. CASE i < j
      <4>1. n < list[j].buf
        BY <1>0, <1>1, <3>4, BuffersInOrder
      <4> QED BY <1>3, <2>8, <2>9, <4>1
    <3> QED BY <1>1, <3>1, <3>2, <3>3, <3>4
  <2> QED BY <2>9, <2>10
<1> HIDE DEF f, n
<1>8. IsFiniteSet(1 .. i - 1) /\ Cardinality(1 .. i - 1) = i - 1 /\ Cardinality(1 .. n) = n
  <2>1. i - 1 \in Nat
    BY <1>1
  <2> QED BY <1>3, <2>1, UpToCardinality
<1>9. f \in Surjection(1 .. i - 1, 1 .. n) /\ f \in Injection(1 .. i - 1, 1 .. n)
  <2>1. \A k \in 1 .. n : \E j \in 1 .. i - 1 : f[j] = k
    BY <1>7
  <2>2. IsInjective(f)
    <3>1. DOMAIN f = 1 .. i - 1
      BY <1>5
    <3> QED BY <1>6, <3>1 DEF IsInjective
  <2>3. f \in Surjection(1 .. i - 1, 1 .. n)
    BY <1>5, <2>1, Zenon DEF Surjection
  <2>4. f \in Injection(1 .. i - 1, 1 .. n)
    BY <1>5, <2>2, Zenon DEF Injection
  <2> QED BY <2>3, <2>4
<1>10. Cardinality(1 .. n) = Cardinality(1 .. i - 1)
  BY <1>8, <1>9, FS_Surjection
<1> QED BY <1>8, <1>10 DEF n

(* A string that is sent has as many strings before it as there are        *)
(* buffers before its own.                                                 *)
LEMMA ArriveWhereRead == TypeOK /\ BudgetInv /\ NumberingInv => StringsArriveWhereRead
<1> SUFFICES ASSUME TypeOK, BudgetInv, NumberingInv, Done  PROVE StringsArriveWhereRead
  BY DEF StringsArriveWhereRead
<1>0. CHANNEL_IN \in Channel /\ CHANNEL_OUT \in Channel
  BY ChannelType
<1>1. ASSUME ~NeedsMem(CHANNEL_IN), NEW i \in TransferredStrings(CHANNEL_IN)
      PROVE  strings[CHANNEL_IN][i].buf = ItemNumber(CHANNEL_IN, i)
  <2>1. i \in Nat \ {0} /\ Cardinality({j \in TransferredStrings(CHANNEL_IN) : j < i}) = i - 1
    BY <1>0, TransferredFirst
  <2>2. ItemNumber(CHANNEL_IN, i) = i - 1
    BY <1>1, <2>1 DEF ItemNumber
  <2> QED BY <2>2, RequestBuffers
<1>2. ASSUME ~NeedsMem(CHANNEL_OUT), NEW i \in TransferredStrings(CHANNEL_OUT)
      PROVE  BufferReached(i)
  <2> DEFINE T == TransferredStrings(CHANNEL_OUT)
  <2>1. /\ i \in Nat \ {0} /\ Cardinality({j \in T : j < i}) = i - 1
        /\ {j \in T : j < i} = 1 .. i - 1 /\ \A j \in 1 .. i - 1 : j \in T
    BY <1>0, TransferredFirst
  <2>2. ItemNumber(CHANNEL_OUT, i) = i - 1
    BY <1>2, <2>1 DEF ItemNumber
  <2>3. strings[CHANNEL_OUT][i].offset = i - 1
    <3>1. i \in DOMAIN strings[CHANNEL_OUT]
      BY DEF TransferredStrings
    <3> QED BY <1>0, <3>1 DEF NumberingInv, RenumberedInv, Done
  <2>4. OutStringItems = Cardinality(T) /\ IsFiniteSet(T) /\ Cardinality(T) \in Nat
    <3>1. T \subseteq 1 .. Len(strings[CHANNEL_OUT]) /\ Len(strings[CHANNEL_OUT]) \in Nat
      <4>1. strings[CHANNEL_OUT] \in Seq(AnyChunk)
        BY <1>0 DEF TypeOK
      <4> QED BY <4>1 DEF TransferredStrings
    <3>2. IsFiniteSet(T)
      BY <3>1, UpToCardinality, FS_Subset
    <3>3. Cardinality(T) \in Nat
      BY <3>2, FS_CardinalityType
    <3> QED BY <1>2, <3>2, <3>3 DEF OutStringItems
  <2>5. i <= Cardinality(T)
    <3>1. \A j \in 1 .. i : j \in T
      <4> TAKE j \in 1 .. i
      <4>1. j \in 1 .. i - 1 \/ j = i
        BY <2>1
      <4> QED BY <2>1, <4>1
    <3>2. (1 .. i) \subseteq T
      BY <3>1
    <3>3. Cardinality(1 .. i) = i
      BY <2>1, UpToCardinality
    <3> HIDE DEF T
    <3> QED BY <2>4, <3>2, <3>3, FS_Subset
  <2> HIDE DEF T
  <2>6. ClientBufferHolds(i - 1, i)
    BY <1>2, <2>3 DEF ClientBufferHolds, MemoryBuffer
  <2>7. ASSUME NEW k \in 0 .. i - 1  PROVE BufferFollows(k)
    BY <1>2, <2>1, <2>4, <2>5 DEF BufferFollows, MemoryBuffer
  <2> QED BY <2>2, <2>6, <2>7 DEF BufferReached
<1> QED BY <1>1, <1>2 DEF StringsArriveWhereRead

-----------------------------------------------------------------------------
(* The buffers are enough and not shared                                   *)

(* The service allocates as many buffers as the largest index needs.       *)
LEMMA BuffersAllocated ==
  ASSUME TypeOK, BudgetInv, NumberingInv, Done, NEW c \in Channel, NEW i \in DOMAIN strings[c]
  PROVE  strings[c][i].buf \in 0 .. StringBuffers - 1
<1> DEFINE f(d) == [j \in DOMAIN strings[d] |-> 1 + strings[d][j].buf]
           m(d) == Max({0} \cup {1 + strings[d][j].buf : j \in DOMAIN strings[d]})
           g == [d \in Channel |-> m(d) + (IF NeedsMem(d) THEN 1 ELSE 0)]
<1>1. ASSUME NEW d \in Channel
      PROVE  m(d) \in Nat /\ \A j \in DOMAIN strings[d] : 1 + strings[d][j].buf <= m(d)
  <2>1. IsFiniteSet(DOMAIN strings[d])
    <3>1. strings[d] \in Seq(AnyChunk)
      BY DEF TypeOK
    <3>2. DOMAIN strings[d] = 1 .. Len(strings[d]) /\ Len(strings[d]) \in Nat
      BY <3>1
    <3> QED BY <3>2, UpToCardinality
  <2>2. \A j \in DOMAIN strings[d] : strings[d][j].buf \in Nat
    BY BufferOfString
  <2>3. f(d) \in [DOMAIN strings[d] -> Int] /\ \A j \in DOMAIN strings[d] : f(d)[j] = 1 + strings[d][j].buf
    BY <2>2
  <2>4. m(d) = Max({0} \cup {f(d)[j] : j \in DOMAIN strings[d]})
    BY <2>3
  <2> HIDE DEF f, m
  <2>5. /\ Max({0} \cup {f(d)[j] : j \in DOMAIN strings[d]}) \in Nat
        /\ \A j \in DOMAIN strings[d] : f(d)[j] <= Max({0} \cup {f(d)[k] : k \in DOMAIN strings[d]})
    BY <2>1, <2>3, LargestOf
  <2> QED BY <2>3, <2>4, <2>5
<1>2. StringBuffers = Max({0} \cup {g[d] : d \in Channel})
  BY DEF StringBuffers
<1> HIDE DEF m
<1>3. g \in [Channel -> Int] /\ \A d \in Channel : g[d] >= m(d)
  BY <1>1
<1>4. IsFiniteSet(Channel)
  BY ConnectionAssumption, FS_Interval DEF Channel
<1> HIDE DEF g
<1>5. StringBuffers \in Nat /\ g[c] <= StringBuffers
  <2>1. Max({0} \cup {g[d] : d \in Channel}) \in Nat
    BY <1>3, <1>4, LargestOf
  <2>2. \A d \in Channel : g[d] <= Max({0} \cup {g[e] : e \in Channel})
    BY <1>3, <1>4, LargestOf
  <2> QED BY <1>2, <2>1, <2>2
<1>6. strings[c][i].buf \in Nat
  BY BufferOfString
<1>7. g[c] \in Int /\ m(c) \in Nat /\ g[c] >= m(c) /\ 1 + strings[c][i].buf <= m(c)
  BY <1>1, <1>3
<1> QED BY <1>5, <1>6, <1>7

(* Two strings have the same place among the buffers only if they have the *)
(* same id.                                                                *)
LEMMA NotShared == TypeOK /\ BudgetInv /\ NumberingInv => BuffersNotShared
<1> SUFFICES ASSUME TypeOK, BudgetInv, NumberingInv, Done,
                    NEW c \in Channel, NEW d \in Channel,
                    NEW i \in DOMAIN strings[c], NEW j \in DOMAIN strings[d]
             PROVE  /\ strings[c][i].buf = strings[d][j].buf <=> strings[c][i].id = strings[d][j].id
                    /\ strings[c][i].buf \in 0 .. StringBuffers - 1
  BY DEF BuffersNotShared
<1>1. /\ strings[c][i].buf = WalkTo(buffers, strings[c][i].id)
      /\ buffers[strings[c][i].buf + 1].id = strings[c][i].id
      /\ strings[d][j].buf = WalkTo(buffers, strings[d][j].id)
      /\ buffers[strings[d][j].buf + 1].id = strings[d][j].id
  BY BufferOfString
<1>2. strings[c][i].buf \in 0 .. StringBuffers - 1
  BY BuffersAllocated
<1>3. strings[c][i].buf = strings[d][j].buf => strings[c][i].id = strings[d][j].id
  BY <1>1
<1>4. strings[c][i].id = strings[d][j].id => strings[c][i].buf = strings[d][j].buf
  BY <1>1
<1> QED BY <1>2, <1>3, <1>4

-----------------------------------------------------------------------------
(* The invariant of the message                                            *)

(* The numbering starts from nothing.                                      *)
LEMMA NumberingInit == Init => NumberingInv
<1> SUFFICES ASSUME Init  PROVE NumberingInv
  OBVIOUS
<1>1. RenumberedInv
  BY DEF Init, RenumberedInv
<1> QED BY <1>1, StringsInit, BuffersInit DEF NumberingInv

(* Every step keeps the three invariants of the numbering.                 *)
LEMMA NumberingNext == TypeOK /\ BudgetInv /\ NumberingInv /\ [Next]_vars => NumberingInv'
  BY StringsNext, BuffersNext, RenumberedNext DEF NumberingInv

(* All that is proved of a message that is being put together.             *)
MessageInv ==
  /\ TypeOK
  /\ BudgetInv
  /\ RegistersCovered
  /\ NoBufferYet
  /\ TagLaidOut
  /\ PlacedInv
  /\ VarbufInv
  /\ NumberingInv

(* The invariant of the message holds in the beginning.                    *)
LEMMA MessageInit == Init => MessageInv
  BY TypeOKInit, BudgetInit, CoveredInit, PlacedInit, VarbufInit, NumberingInit DEF MessageInv

(* Every step of the back end keeps it.                                    *)
LEMMA MessageNext == MessageInv /\ [Next]_vars => MessageInv'
  BY TypeOKNext, BudgetNext, CoveredNext, NoBufferNext, TagNext, PlacedNext, VarbufNext,
     NumberingNext DEF MessageInv

(* It is an invariant of the connection.                                   *)
LEMMA MessageInvariant == Spec => []MessageInv
  BY MessageInit, MessageNext, PTL DEF Spec

(* The comparison with the kernel's messages changes nothing of it.        *)
LEMMA MessageCompare == KernelInv /\ MessageInv /\ Compare => MessageInv'
<1> SUFFICES ASSUME KernelInv, MessageInv, Compare  PROVE MessageInv'
  OBVIOUS
<1>1. KernelInv'
  BY KernelOrdinary, KernelPagefault, KernelOther DEF Compare
<1>2. /\ phase = "marshal" /\ phase' \in {"marshal", "malformed"}
      /\ UNCHANGED <<request, chunkID, regFixed, regVar, memVar, strings, fpages,
                     chan, budget, loop, cursor, numbering>>
  BY DEF Compare, OrdinaryOperation, AcceptPagefault, AcceptOther, Refuse, ComparingKernelMessage,
     Comparing
<1>3. RegistersCovered'
  BY <1>2 DEF MessageInv, RegistersCovered
<1>4. VarbufInv'
  BY <1>2 DEF MessageInv, VarbufInv, Unpacked, Behind, Packing, AllPacked, Marshalled, Waiting
<1>5. StringsInv'
  <2>1. UNCHANGED <<strings, newList, chan, chunkID, initialized>>
    BY <1>2 DEF request, numbering
  <2>2. initialized' = IF phase' = "options" THEN {CHANNEL_IN} ELSE Channel
    BY <1>2, <2>1 DEF MessageInv, NumberingInv, StringsInv
  <2>3. chunkID' \in Nat /\ chunkID' >= chunkID
    BY <2>1 DEF MessageInv, TypeOK
  <2> QED BY <2>1, <2>2, <2>3, StringsOthers DEF MessageInv, NumberingInv
<1>6. BuffersInv'
  <2>1. UNCHANGED <<buffers, cursor>>
    BY <1>2 DEF numbering
  <2>2. (TypeOK /\ NoBuffersYet)' => BuffersInv'
    BY BuffersBefore, PTL
  <2>3. NoBuffersYet'
    BY <1>2, <2>1 DEF NoBuffersYet, MessageInv, NumberingInv, BuffersInv
  <2> QED BY <1>1, <2>2, <2>3 DEF KernelInv
<1>7. RenumberedInv'
  BY <1>2 DEF RenumberedInv
<1>8. TagLaidOut'
  BY <1>2 DEF TagLaidOut
<1>9. NoBufferYet'
  <2>1. /\ chan' = chan /\ Marshalled /\ phase' # "fixed"
        /\ \A c \in Channel : memFixed[c] \in Seq(DataChunk)
    BY <1>2 DEF Marshalled, MessageInv, NoBufferYet
  <2>2. \/ memFixed' = memFixed
        \/ /\ Len(memFixed[CHANNEL_IN]) = 3
           /\ memFixed' = [memFixed EXCEPT ![CHANNEL_IN] = RemoveAt(memFixed[CHANNEL_IN], 3)]
    BY DEF Compare, OrdinaryOperation, AcceptPagefault, AcceptOther, Refuse, PagefaultForm,
       TakePrivileges, Args, RemoveElement
  <2>3. memFixed \in [Channel -> Seq(SizedChunk)] /\ CHANNEL_IN \in Channel
    BY ChannelType DEF MessageInv, TypeOK
  <2>4. ASSUME Len(memFixed[CHANNEL_IN]) = 3
        PROVE  RemoveAt(memFixed[CHANNEL_IN], 3) \in Seq(DataChunk)
    <3>1. memFixed[CHANNEL_IN] \in Seq(DataChunk) /\ 3 \in 1 .. Len(memFixed[CHANNEL_IN])
      BY <2>1, <2>3, <2>4
    <3> QED BY <3>1, RemoveAtElements
  <2>5. \A c \in Channel : memFixed'[c] \in Seq(DataChunk)
    BY <2>1, <2>2, <2>3, <2>4
  <2> QED BY <2>1, <2>5 DEF NoBufferYet
<1>10. PlacedInv'
  <2>1. \A c \in Channel : regFixed'[c] = <<>>
    BY <1>2 DEF MessageInv, BudgetInv, Marshalled
  <2>2. DOMAIN <<>> = {}
    OBVIOUS
  <2> QED BY <2>1, <2>2 DEF PlacedInv, WithinLayout
<1> QED BY <1>1, <1>3, <1>4, <1>5, <1>6, <1>7, <1>8, <1>9, <1>10 DEF MessageInv, NumberingInv, KernelInv

(* Every step of the connection with kernel messages keeps it.             *)
LEMMA MessageKernelNext ==
  KernelInv /\ MessageInv /\ [KernelNext]_<<vars, kernelVars>> => MessageInv'
<1> SUFFICES ASSUME KernelInv, MessageInv, [KernelNext]_<<vars, kernelVars>>  PROVE MessageInv'
  OBVIOUS
<1>1. CASE Compare
  BY <1>1, MessageCompare
<1>2. CASE ~Compare
  <2>1. [Next]_vars
    BY <1>2, OtherStepsAreConnections DEF KernelNext, KernelStep
  <2> QED BY <2>1, MessageNext
<1> QED BY <1>1, <1>2

(* It is an invariant of the connection with kernel messages.              *)
LEMMA MessageKernelInvariant == KernelSpec => []MessageInv
<1>1. KernelInit => MessageInv
  BY MessageInit DEF KernelInit
<1> QED BY <1>1, MessageKernelNext, KernelInvariant, PTL DEF KernelSpec

-----------------------------------------------------------------------------
(* How often a list holds a chunk                                          *)

(* The places where a list holds the chunk of that key.                    *)
Places(list, key) == {i \in DOMAIN list : Key(list[i]) = key}

(* A chunk counts for its own key.                                         *)
Counts(chunk, key) == IF Key(chunk) = key THEN 1 ELSE 0

(* A list holds a chunk some number of times, and not at all if it holds   *)
(* it nowhere.                                                             *)
LEMMA CopiesType ==
  ASSUME NEW S, NEW list \in Seq(S), NEW key
  PROVE  /\ IsFiniteSet(Places(list, key))
         /\ Copies(list, key) = Cardinality(Places(list, key))
         /\ Copies(list, key) \in Nat
         /\ \A i \in DOMAIN list : Key(list[i]) = key => Copies(list, key) # 0
<1>1. DOMAIN list = 1 .. Len(list) /\ Len(list) \in Nat
  OBVIOUS
<1>2. IsFiniteSet(1 .. Len(list))
  BY <1>1, UpToCardinality
<1>3. Places(list, key) \in SUBSET (1 .. Len(list))
  BY <1>1 DEF Places
<1>4. IsFiniteSet(Places(list, key))
  BY <1>2, <1>3, FS_Subset
<1>5. Copies(list, key) = Cardinality(Places(list, key))
  BY DEF Copies, Places
<1>6. Cardinality(Places(list, key)) \in Nat
  BY <1>4, FS_CardinalityType
<1>7. Cardinality(Places(list, key)) = 0 => Places(list, key) = {}
  BY <1>4, FS_EmptySet
<1>8. ASSUME NEW i \in DOMAIN list, Key(list[i]) = key  PROVE i \in Places(list, key)
  BY <1>8 DEF Places
<1> QED BY <1>4, <1>5, <1>6, <1>7, <1>8

(* Nothing is in a list without elements.                                  *)
LEMMA CopiesOfNothing == \A key : Copies(<<>>, key) = 0
<1> TAKE key
<1>1. {i \in DOMAIN <<>> : Key(<<>>[i]) = key} = {}
  OBVIOUS
<1> QED BY <1>1, FS_EmptySet DEF Copies

(* Two lists of chunks with the same keys.                                 *)
LEMMA CopiesOfSameKeys ==
  ASSUME NEW S, NEW list \in Seq(S), NEW other \in Seq(S), Len(other) = Len(list),
         \A i \in 1 .. Len(list) : Key(other[i]) = Key(list[i]), NEW key
  PROVE  Copies(other, key) = Copies(list, key)
<1>1. DOMAIN list = 1 .. Len(list) /\ DOMAIN other = 1 .. Len(list)
  OBVIOUS
<1>2. {i \in DOMAIN other : Key(other[i]) = key} = {i \in DOMAIN list : Key(list[i]) = key}
  BY <1>1
<1> QED BY <1>2 DEF Copies

(* The chunks of a list that are counted, after the place of each of them  *)
(* became another one.                                                     *)
LEMMA MovedPlaces ==
  ASSUME NEW P, IsFiniteSet(P), NEW Q, NEW f \in [P -> Q],
         \A i, j \in P : f[i] = f[j] => i = j,
         \A k \in Q : \E i \in P : f[i] = k
  PROVE  IsFiniteSet(Q) /\ Cardinality(Q) = Cardinality(P)
<1>1. f \in Bijection(P, Q)
  BY DEF Bijection, Injection, Surjection, IsInjective
<1>2. ExistsBijection(P, Q)
  BY <1>1 DEF ExistsBijection
<1> QED BY <1>2, FS_Bijection

(* A list with one chunk more counts that one more.                        *)
LEMMA CopiesWithOneMore ==
  ASSUME NEW S, NEW list \in Seq(S), NEW more \in Seq(S), NEW at \in 1 .. Len(list) + 1,
         Len(more) = Len(list) + 1,
         \A i \in 1 .. at - 1 : Key(more[i]) = Key(list[i]),
         \A i \in at .. Len(list) : Key(more[i + 1]) = Key(list[i]), NEW key
  PROVE  Copies(more, key) = Copies(list, key) + Counts(more[at], key)
<1> DEFINE n == Len(list)
           P == Places(list, key)
           Q == Places(more, key) \ {at}
           to(i) == IF i < at THEN i ELSE i + 1
           f == [i \in P |-> to(i)]
<1>1. n \in Nat /\ DOMAIN list = 1 .. n /\ DOMAIN more = 1 .. n + 1 /\ at \in 1 .. n + 1
  OBVIOUS
<1>2. P \in SUBSET (1 .. n) /\ \A i \in 1 .. n : i \in P <=> Key(list[i]) = key
  BY <1>1 DEF Places
<1>3. /\ Places(more, key) \in SUBSET (1 .. n + 1)
      /\ \A i \in 1 .. n + 1 : i \in Places(more, key) <=> Key(more[i]) = key
  BY <1>1 DEF Places
<1>4. \A i \in 1 .. n : to(i) \in 1 .. n + 1 /\ to(i) # at /\ Key(more[to(i)]) = Key(list[i])
  <2> TAKE i \in 1 .. n
  <2>1. CASE i < at
    <3>1. i \in 1 .. at - 1 /\ to(i) = i
      BY <1>1, <2>1
    <3> QED BY <1>1, <2>1, <3>1
  <2>2. CASE ~(i < at)
    <3>1. i \in at .. n /\ to(i) = i + 1
      BY <1>1, <2>2
    <3> QED BY <1>1, <3>1
  <2> QED BY <2>1, <2>2
<1>5. \A i, j \in 1 .. n : to(i) = to(j) => i = j
  BY <1>1
<1>6. ASSUME NEW k \in 1 .. n + 1, k # at  PROVE \E i \in 1 .. n : to(i) = k
  <2>1. CASE k < at
    BY <1>1, <1>6, <2>1
  <2>2. CASE k > at
    <3>1. k - 1 \in 1 .. n /\ to(k - 1) = k
      BY <1>1, <2>2
    <3> QED BY <3>1
  <2> QED BY <1>1, <1>6, <2>1, <2>2
<1> HIDE DEF to, n, P
<1>7. f \in [P -> Q]
  BY <1>2, <1>3, <1>4
<1>8. \A i, j \in P : f[i] = f[j] => i = j
  BY <1>2, <1>5
<1>9. ASSUME NEW k \in Q  PROVE \E i \in P : f[i] = k
  <2>1. k \in 1 .. n + 1 /\ k # at /\ Key(more[k]) = key
    BY <1>3
  <2>2. PICK i \in 1 .. n : to(i) = k
    BY <1>6, <2>1
  <2>3. i \in P
    BY <1>2, <1>4, <2>1, <2>2
  <2> QED BY <2>2, <2>3
<1>10. IsFiniteSet(P) /\ Copies(list, key) = Cardinality(P) /\ Cardinality(P) \in Nat
  BY CopiesType DEF P
<1> HIDE DEF Q, f
<1>11. IsFiniteSet(Q) /\ Cardinality(Q) = Cardinality(P)
  BY <1>7, <1>8, <1>9, <1>10, MovedPlaces
<1>12. Copies(more, key) = Cardinality(Places(more, key))
  BY CopiesType
<1>13. CASE Key(more[at]) = key
  <2>1. at \in Places(more, key)
    BY <1>1, <1>3, <1>13
  <2>2. Places(more, key) = Q \cup {at} /\ at \notin Q
    BY <2>1 DEF Q
  <2>3. Cardinality(Q \cup {at}) = Cardinality(Q) + 1
    BY <1>11, <2>2, FS_AddElement
  <2> QED BY <1>10, <1>11, <1>12, <1>13, <2>2, <2>3 DEF Counts
<1>14. CASE Key(more[at]) # key
  <2>1. at \notin Places(more, key)
    BY <1>1, <1>3, <1>14
  <2>2. Places(more, key) = Q
    BY <2>1 DEF Q
  <2> QED BY <1>10, <1>11, <1>12, <1>14, <2>2 DEF Counts
<1> QED BY <1>13, <1>14

(* A list of two lists counts what both count.                             *)
LEMMA CopiesOfBoth ==
  ASSUME NEW S, NEW s \in Seq(S), NEW t \in Seq(S), NEW key
  PROVE  Copies(s \o t, key) = Copies(s, key) + Copies(t, key)
<1> DEFINE n == Len(s)
           m == Len(t)
           both == s \o t
           P == Places(s, key)
           R == Places(t, key)
           Q == Places(both, key) \ P
           f == [i \in R |-> n + i]
<1>1. n \in Nat /\ m \in Nat /\ DOMAIN s = 1 .. n /\ DOMAIN t = 1 .. m
  OBVIOUS
<1>2. /\ both \in Seq(S) /\ Len(both) = n + m
      /\ \A i \in 1 .. n : both[i] = s[i]
      /\ \A i \in 1 .. m : both[n + i] = t[i]
  BY ConcatElements
<1> HIDE DEF both, n, m
<1>3. DOMAIN both = 1 .. n + m
  BY <1>2
<1>4. P \in SUBSET (1 .. n) /\ \A i \in 1 .. n : i \in P <=> Key(s[i]) = key
  BY <1>1 DEF Places
<1>5. R \in SUBSET (1 .. m) /\ \A i \in 1 .. m : i \in R <=> Key(t[i]) = key
  BY <1>1 DEF Places
<1>6. /\ Places(both, key) \in SUBSET (1 .. n + m)
      /\ \A i \in 1 .. n + m : i \in Places(both, key) <=> Key(both[i]) = key
  BY <1>3 DEF Places
<1> HIDE DEF P, R
<1>7. \A i \in 1 .. n : i \in 1 .. n + m /\ (i \in Places(both, key) <=> i \in P)
  BY <1>1, <1>2, <1>4, <1>6
<1>8. \A i \in 1 .. m : n + i \in 1 .. n + m /\ n + i \notin 1 .. n
                        /\ (n + i \in Places(both, key) <=> i \in R)
  <2> TAKE i \in 1 .. m
  <2>1. n + i \in 1 .. n + m /\ n + i \notin 1 .. n
    BY <1>1
  <2>2. Key(both[n + i]) = Key(t[i])
    BY <1>2
  <2> QED BY <1>5, <1>6, <2>1, <2>2
<1>9. P \subseteq Places(both, key)
  BY <1>4, <1>7
<1>10. \A i \in Q : i \in 1 .. n + m /\ i \notin 1 .. n
  BY <1>6, <1>7
<1>11. f \in [R -> Q]
  BY <1>4, <1>5, <1>8
<1>12. \A i, j \in R : f[i] = f[j] => i = j
  BY <1>1, <1>5
<1>13. ASSUME NEW k \in Q  PROVE \E i \in R : f[i] = k
  <2>1. k - n \in 1 .. m /\ k = n + (k - n)
    BY <1>1, <1>10
  <2>2. k - n \in R
    BY <1>8, <2>1
  <2> QED BY <2>1, <2>2
<1>14. /\ IsFiniteSet(P) /\ Copies(s, key) = Cardinality(P) /\ Cardinality(P) \in Nat
       /\ IsFiniteSet(R) /\ Copies(t, key) = Cardinality(R) /\ Cardinality(R) \in Nat
  BY CopiesType DEF P, R
<1>15. IsFiniteSet(Places(both, key)) /\ Copies(both, key) = Cardinality(Places(both, key))
  BY <1>2, CopiesType
<1> HIDE DEF f
<1>16. IsFiniteSet(Q) /\ Cardinality(Q) = Cardinality(R)
  <2> HIDE DEF Q
  <2> QED BY <1>11, <1>12, <1>13, <1>14, MovedPlaces
<1>17. Cardinality(P \cup Q) = Cardinality(P) + Cardinality(Q) - Cardinality(P \cap Q)
  BY <1>14, <1>16, FS_Union
<1>18. P \cup Q = Places(both, key) /\ P \cap Q = {}
  BY <1>9
<1>19. Cardinality({}) = 0
  BY FS_EmptySet
<1>20. Cardinality(P \cap Q) = 0 /\ Copies(both, key) = Cardinality(P \cup Q)
  BY <1>15, <1>18, <1>19
<1> HIDE DEF Q
<1> QED BY <1>14, <1>16, <1>17, <1>20 DEF both

(* A chunk added by priority.                                              *)
LEMMA CopiesAdded ==
  ASSUME NEW Sizes, NEW list \in Seq(ChunkOf(Sizes)), NEW chunk \in ChunkOf(Sizes),
         NEW prio \in Nat, NEW key
  PROVE  Copies(AddWithPrio(list, chunk, prio), key) = Copies(list, key) + Counts(chunk, key)
<1> DEFINE put == Prioritized(chunk, prio)
           at == PrioPosition(list, prio)
           added == AddWithPrio(list, chunk, prio)
<1>1. put \in ChunkOf(Sizes) /\ put.id = chunk.id /\ put.part = chunk.part
  BY PrioritizedChunk
<1>2. /\ at \in 1 .. Len(list) + 1
      /\ added \in Seq(ChunkOf(Sizes))
      /\ Len(added) = Len(list) + 1
      /\ \A i \in 1 .. at - 1 : added[i] = list[i]
      /\ added[at] = put
      /\ \A i \in at .. Len(list) : added[i + 1] = list[i]
  BY <1>1, AddedElements
<1> HIDE DEF put, at, added
<1>3. Copies(added, key) = Copies(list, key) + Counts(added[at], key)
  BY <1>2, CopiesWithOneMore, SMTT(60)
<1>4. Counts(put, key) = Counts(chunk, key)
  BY <1>1 DEF Counts, Key
<1> QED BY <1>2, <1>3, <1>4 DEF added

(* A chunk added at the end.                                               *)
LEMMA CopiesAppended ==
  ASSUME NEW S, NEW list \in Seq(S), NEW elem \in S, NEW key
  PROVE  Copies(AddLast(list, elem), key) = Copies(list, key) + Counts(elem, key)
<1> DEFINE n == Len(list)
           added == Append(list, elem)
<1>1. /\ n \in Nat /\ added \in Seq(S) /\ Len(added) = n + 1 /\ added[n + 1] = elem
      /\ \A i \in 1 .. n : added[i] = list[i]
  OBVIOUS
<1>2. n + 1 \in 1 .. n + 1 /\ (n + 1) - 1 = n /\ \A i \in n + 1 .. n : FALSE
  BY <1>1
<1>3. \A i \in 1 .. (n + 1) - 1 : Key(added[i]) = Key(list[i])
  BY <1>1, <1>2
<1> HIDE DEF added
<1>4. Copies(added, key) = Copies(list, key) + Counts(added[n + 1], key)
  BY <1>1, <1>2, <1>3, CopiesWithOneMore
<1> QED BY <1>1, <1>4 DEF added, AddLast

(* The first chunk taken out.                                              *)
LEMMA CopiesBehindHead ==
  ASSUME NEW S, NEW list \in Seq(S), list # <<>>, NEW key
  PROVE  Copies(Tail(list), key) \in Nat
         /\ Copies(list, key) = Copies(Tail(list), key) + Counts(Head(list), key)
<1> DEFINE rest == Tail(list)
           n == Len(rest)
<1>1. /\ n \in Nat /\ rest \in Seq(S) /\ Len(list) = n + 1 /\ list[1] = Head(list)
      /\ \A i \in 1 .. n : list[i + 1] = rest[i]
  OBVIOUS
<1>2. 1 \in 1 .. n + 1 /\ \A i \in 1 .. 1 - 1 : FALSE
  BY <1>1
<1> HIDE DEF rest
<1>3. Copies(list, key) = Copies(rest, key) + Counts(list[1], key)
  BY <1>1, <1>2, CopiesWithOneMore
<1>4. Copies(rest, key) \in Nat
  BY <1>1, CopiesType
<1> QED BY <1>1, <1>3, <1>4 DEF rest

(* A chunk taken out anywhere.                                             *)
LEMMA CopiesWithout ==
  ASSUME NEW S, NEW list \in Seq(S), NEW at \in 1 .. Len(list), NEW key
  PROVE  Copies(RemoveElement(list, at), key) \in Nat
         /\ Copies(list, key) = Copies(RemoveElement(list, at), key) + Counts(list[at], key)
<1> DEFINE rest == RemoveAt(list, at)
           n == Len(rest)
<1>1. /\ rest \in Seq(S) /\ Len(rest) = Len(list) - 1
      /\ \A i \in 1 .. at - 1 : rest[i] = list[i]
      /\ \A i \in at .. Len(list) - 1 : rest[i] = list[i + 1]
  BY RemoveAtElements
<1> HIDE DEF rest
<1>2. n \in Nat /\ Len(list) = n + 1 /\ Len(list) - 1 = n /\ at \in 1 .. n + 1
  BY <1>1
<1>3. /\ \A i \in 1 .. at - 1 : Key(list[i]) = Key(rest[i])
      /\ \A i \in at .. n : Key(list[i + 1]) = Key(rest[i])
  BY <1>1, <1>2
<1>4. rest \in Seq(S) /\ at \in 1 .. Len(rest) + 1 /\ Len(list) = Len(rest) + 1
  BY <1>1, <1>2
<1>5. Copies(list, key) = Copies(rest, key) + Counts(list[at], key)
  BY <1>3, <1>4, CopiesWithOneMore, SMTT(60)
<1>6. Copies(rest, key) \in Nat
  BY <1>1, CopiesType
<1> QED BY <1>5, <1>6 DEF rest, RemoveElement

(* A chunk that got an offset.                                             *)
LEMMA KeyKept ==
  ASSUME NEW Sizes, NEW chunk \in ChunkOf(Sizes), NEW value \in Int
  PROVE  /\ Key([chunk EXCEPT !.offset = value]) = Key(chunk)
         /\ Key([chunk EXCEPT !.buf = value]) = Key(chunk)
  BY DEF ChunkOf, Key

(* The layout moves chunks only.                                           *)
LEMMA CopiesLaidOut ==
  ASSUME NEW list \in Seq(SizedChunk), NEW key
  PROVE  Copies(LaidOut(list), key) = Copies(list, key)
<1> DEFINE ends == Ends(Shape(list))
           placed(i) == [list[i] EXCEPT !.offset = ends[i] - list[i].size]
<1>1. Len(list) \in Nat /\ DOMAIN list = 1 .. Len(list)
  OBVIOUS
<1>2. ASSUME NEW i \in 1 .. Len(list)  PROVE Key(placed(i)) = Key(list[i])
  <2>1. list[i] \in ChunkOf(Nat)
    BY DEF SizedChunk
  <2>2. ends[i] \in Nat
    <3>1. Shape(list) \in Seq(Piece) /\ Len(Shape(list)) = Len(list)
      BY ShapeType
    <3>2. ends \in [0 .. Len(list) -> Nat] /\ i \in 0 .. Len(list)
      BY <1>1, <3>1, EndsEquation
    <3> HIDE DEF ends
    <3> QED BY <3>2
  <2> HIDE DEF ends
  <2>3. ends[i] - list[i].size \in Int
    BY <2>1, <2>2, ChunkFields
  <2> QED BY <2>1, <2>3, KeyKept, ZenonT(60)
<1>3. LaidOut(list) = [i \in 1 .. Len(list) |-> placed(i)]
  BY <1>1, Zenon DEF LaidOut
<1> HIDE DEF placed
<1>4. \A i \in 1 .. Len(list) : Key(LaidOut(list)[i]) = Key(list[i])
  BY <1>2, <1>3
<1>5. LaidOut(list) \in Seq(SizedChunk) /\ Len(LaidOut(list)) = Len(list)
  BY LaidOutType
<1> QED BY <1>4, <1>5, CopiesOfSameKeys

(* So does the numbering.                                                  *)
LEMMA CopiesNumbered ==
  ASSUME NEW Sizes, NEW list \in Seq(ChunkOf(Sizes)), NEW key
  PROVE  Copies(Numbered(list), key) = Copies(list, key)
<1> DEFINE numbered(i) == [list[i] EXCEPT !.offset = i - 1]
<1>1. Len(list) \in Nat /\ DOMAIN list = 1 .. Len(list)
  OBVIOUS
<1>2. ASSUME NEW i \in 1 .. Len(list)  PROVE Key(numbered(i)) = Key(list[i])
  <2>1. list[i] \in ChunkOf(Sizes) /\ i - 1 \in Int
    OBVIOUS
  <2> QED BY <2>1, KeyKept, Zenon
<1>3. Numbered(list) = [i \in 1 .. Len(list) |-> numbered(i)]
  BY <1>1, Zenon DEF Numbered
<1> HIDE DEF numbered
<1>4. \A i \in 1 .. Len(list) : Key(Numbered(list)[i]) = Key(list[i])
  BY <1>2, <1>3
<1>5. Numbered(list) \in Seq(ChunkOf(Sizes)) /\ Len(Numbered(list)) = Len(list)
  BY NumberedType
<1> QED BY <1>4, <1>5, CopiesOfSameKeys

-----------------------------------------------------------------------------
(* No chunk is lost                                                        *)

(* What travels beside the tags and the shared buffers.                    *)
DataKey == Nat \X (Parts \ {"tag", "varbuf"})

First == IF sig.oneway THEN 0 ELSE 1

(* What the first n parameters put into a channel.                         *)
Demanded(c, n) ==
  UNION {{<<First + k, part>> : part \in PartsOf(sig.params[k])} :
           k \in {k \in 1 .. n : c \in sig.params[k].chans}}

(* What the lists of a channel hold.                                       *)
Listed(c, key) ==
  Copies(regFixed[c], key) + Copies(memFixed[c], key)
    + Copies(regVar[c], key) + Copies(memVar[c], key)
    + Copies(strings[c], key) + Copies(fpages[c], key)

(* What a loop has in its hands, and the tag's part.                       *)
Moving(c, key) == IF c = chan THEN Copies(processed, key) + Copies(newList, key) ELSE 0
Tagged(c, key) == IF c = CHANNEL_IN THEN Copies(special, key) ELSE 0

Total(c, key) == Listed(c, key) + Moving(c, key) + Tagged(c, key)

(* What was marshalled is there exactly once, and nothing else is.         *)
ConservedInv ==
  /\ phase # "fixed" => processed = <<>>
  /\ phase = "options" => pos = 0
  /\ phase = "marshal" => chunkID = First + pos
  /\ phase = "options" => chunkID = 0
  /\ phase \notin {"options", "marshal"} => pos = Len(sig.params)
  /\ \A c \in Channel, key \in DataKey :
       Total(c, key) = IF key \in Demanded(c, pos) THEN 1 ELSE 0

(* All numbers that are added up are numbers.                              *)
LEMMA TotalType ==
  ASSUME TypeOK, KernelTypeOK, NEW c \in Channel, NEW key
  PROVE  /\ Copies(regFixed[c], key) \in Nat /\ Copies(memFixed[c], key) \in Nat
         /\ Copies(regVar[c], key) \in Nat /\ Copies(memVar[c], key) \in Nat
         /\ Copies(strings[c], key) \in Nat /\ Copies(fpages[c], key) \in Nat
         /\ Copies(processed, key) \in Nat /\ Copies(newList, key) \in Nat
         /\ Copies(special, key) \in Nat
         /\ Listed(c, key) \in Nat /\ Moving(c, key) \in Nat /\ Tagged(c, key) \in Nat
<1>1. /\ regFixed[c] \in Seq(SizedChunk) /\ memFixed[c] \in Seq(SizedChunk)
      /\ regVar[c] \in Seq(SizedChunk) /\ memVar[c] \in Seq(SizedChunk)
      /\ strings[c] \in Seq(AnyChunk) /\ fpages[c] \in Seq(SizedChunk)
      /\ processed \in Seq(SizedChunk) /\ newList \in Seq(AnyChunk)
  BY DEF TypeOK
<1>2. special \in Seq(SizedChunk)
  BY DEF KernelTypeOK
<1>3. /\ Copies(regFixed[c], key) \in Nat /\ Copies(memFixed[c], key) \in Nat
      /\ Copies(regVar[c], key) \in Nat /\ Copies(memVar[c], key) \in Nat
      /\ Copies(fpages[c], key) \in Nat
  BY <1>1, CopiesType
<1>4. /\ Copies(strings[c], key) \in Nat
      /\ Copies(processed, key) \in Nat /\ Copies(newList, key) \in Nat
      /\ Copies(special, key) \in Nat
  BY <1>1, <1>2, CopiesType
<1> QED BY <1>3, <1>4 DEF Listed, Moving, Tagged

(* A chunk that is no data does not count.                                 *)
LEMMA NotData ==
  ASSUME NEW chunk, NEW key \in DataKey, chunk.part \in {"tag", "varbuf"}
  PROVE  Counts(chunk, key) = 0
  BY DEF DataKey, Counts, Key

(* Nothing was demanded before the first parameter.                        *)
LEMMA DemandedAtFirst == \A c : Demanded(c, 0) = {}
  BY DEF Demanded

(* At the end everything is.                                               *)
LEMMA DemandedInTheEnd ==
  ASSUME TypeOK, NEW c
  PROVE  Demanded(c, Len(sig.params)) = Requested(c)
<1>1. DOMAIN sig.params = 1 .. Len(sig.params)
  BY DEF TypeOK, Signature
<1> QED BY <1>1 DEF Demanded, Requested, First

(* A step that moves chunks from one list to another, or none.             *)
LEMMA ConservedStep ==
  ASSUME TypeOK, KernelTypeOK, ConservedInv,
         UNCHANGED <<sig, pos>>,
         phase' # "fixed" => processed' = <<>>,
         phase' = "options" => phase = "options" /\ chunkID' = chunkID,
         phase' = "marshal" => chunkID' = First + pos,
         phase' \notin {"options", "marshal"} => pos = Len(sig.params),
         \A c \in Channel, key \in DataKey : Total(c, key)' = Total(c, key)
  PROVE  ConservedInv'
<1>1. First' = First /\ \A c : Demanded(c, pos)' = Demanded(c, pos)
  BY DEF First, Demanded
<1>2. \A c \in Channel, key \in DataKey :
        Total(c, key)' = IF key \in Demanded(c, pos)' THEN 1 ELSE 0
  BY <1>1 DEF ConservedInv
<1> QED BY <1>1, <1>2 DEF ConservedInv

(* What the next parameter demands was not demanded before.                *)
LEMMA DemandedNext ==
  ASSUME TypeOK, pos < Len(sig.params), NEW c \in Channel, NEW key
  PROVE  /\ key \in Demanded(c, pos + 1) <=>
              \/ key \in Demanded(c, pos)
              \/ /\ c \in sig.params[pos + 1].chans
                 /\ \E part \in PartsOf(sig.params[pos + 1]) : key = <<First + pos + 1, part>>
         /\ \A part : <<First + pos + 1, part>> \notin Demanded(c, pos)
<1>1. pos \in Nat /\ First \in Nat
  BY DEF TypeOK, First
<1>2. key \in Demanded(c, pos + 1) <=>
        \E k \in 1 .. pos + 1 : /\ c \in sig.params[k].chans
                                /\ \E part \in PartsOf(sig.params[k]) : key = <<First + k, part>>
  BY DEF Demanded
<1>3. key \in Demanded(c, pos) <=>
        \E k \in 1 .. pos : /\ c \in sig.params[k].chans
                            /\ \E part \in PartsOf(sig.params[k]) : key = <<First + k, part>>
  BY DEF Demanded
<1>4. \A k : k \in 1 .. pos + 1 <=> k \in 1 .. pos \/ k = pos + 1
  BY <1>1
<1>5. First + pos + 1 = First + (pos + 1)
  BY <1>1
<1>6. ASSUME NEW part, <<First + pos + 1, part>> \in Demanded(c, pos)  PROVE FALSE
  <2>1. PICK k \in 1 .. pos : \E q \in PartsOf(sig.params[k]) : <<First + pos + 1, part>> = <<First + k, q>>
    BY <1>6 DEF Demanded
  <2>2. First + pos + 1 = First + k
    BY <2>1
  <2> QED BY <1>1, <2>2
<1> QED BY <1>2, <1>3, <1>4, <1>5, <1>6

(* A step that marshals a parameter puts each of its parts once into each  *)
(* of its channels.                                                        *)
LEMMA ConservedParameter ==
  ASSUME TypeOK, KernelTypeOK, ConservedInv,
         phase = "marshal", phase' = "marshal", pos < Len(sig.params),
         sig' = sig, pos' = pos + 1, chunkID' = chunkID + 1, processed' = processed,
         \A c \in Channel, key \in DataKey :
           Total(c, key)' = Total(c, key) +
             (IF /\ c \in sig.params[pos + 1].chans
                 /\ \E part \in PartsOf(sig.params[pos + 1]) : key = <<chunkID + 1, part>>
              THEN 1 ELSE 0)
  PROVE  ConservedInv'
<1>1. First' = First /\ First \in Nat /\ pos \in Nat /\ chunkID = First + pos
  BY DEF First, TypeOK, ConservedInv
<1>2. \A c : Demanded(c, pos)' = Demanded(c, pos + 1)
  BY <1>1 DEF Demanded
<1>3. chunkID' = First' + pos'
  BY <1>1
<1>4. ASSUME NEW c \in Channel, NEW key \in DataKey
      PROVE  Total(c, key)' = IF key \in Demanded(c, pos)' THEN 1 ELSE 0
  <2> DEFINE New == /\ c \in sig.params[pos + 1].chans
                    /\ \E part \in PartsOf(sig.params[pos + 1]) : key = <<chunkID + 1, part>>
  <2>1. chunkID + 1 = First + pos + 1
    BY <1>1
  <2>2. key \in Demanded(c, pos + 1) <=> key \in Demanded(c, pos) \/ New
    BY <2>1, DemandedNext
  <2>3. New => key \notin Demanded(c, pos)
    BY <2>1, DemandedNext
  <2>4. Total(c, key)' = Total(c, key) + (IF New THEN 1 ELSE 0)
    OBVIOUS
  <2>5. Total(c, key) = IF key \in Demanded(c, pos) THEN 1 ELSE 0
    BY DEF ConservedInv
  <2> HIDE DEF New
  <2> QED BY <1>2, <2>2, <2>3, <2>4, <2>5
<1>5. processed' = <<>>
  BY DEF ConservedInv
<1> QED BY <1>3, <1>4, <1>5 DEF ConservedInv

(* Before marshalling nothing is there.                                    *)
LEMMA ConservedInit == KernelInit => ConservedInv
<1> SUFFICES ASSUME KernelInit  PROVE ConservedInv
  OBVIOUS
<1>1. /\ phase = "options" /\ pos = 0 /\ chunkID = 0
      /\ processed = <<>> /\ newList = <<>> /\ special = <<>>
      /\ \A c \in Channel :
           /\ regFixed[c] = <<>> /\ memFixed[c] = <<>> /\ regVar[c] = <<>>
           /\ memVar[c] = <<>> /\ strings[c] = <<>> /\ fpages[c] = <<>>
  BY DEF KernelInit, Init
<1>2. \A c \in Channel, key \in DataKey : Total(c, key) = 0
  BY <1>1, CopiesOfNothing DEF Total, Listed, Moving, Tagged
<1> QED BY <1>1, <1>2, DemandedAtFirst DEF ConservedInv

(* Nothing is moved.                                                       *)
LEMMA TotalQuiet ==
  ASSUME ConservedInv, UNCHANGED <<lists, processed, newList, special>>,
         chan' = chan \/ (newList = <<>> /\ processed = <<>>)
  PROVE  \A c, key : Total(c, key)' = Total(c, key)
<1> TAKE c, key
<1>1. Listed(c, key)' = Listed(c, key) /\ Tagged(c, key)' = Tagged(c, key)
  BY DEF lists, Listed, Tagged
<1>2. Moving(c, key)' = Moving(c, key)
  <2>1. CASE chan' = chan
    BY <2>1 DEF Moving
  <2>2. CASE newList = <<>> /\ processed = <<>>
    <3>1. newList' = <<>> /\ processed' = <<>>
      BY <2>2
    <3> QED BY <2>2, <3>1, CopiesOfNothing DEF Moving
  <2> QED BY <2>1, <2>2
<1> QED BY <1>1, <1>2 DEF Total

(* The first steps store nothing.                                          *)
LEMMA ConservedOptions ==
  ASSUME TypeOK, KernelTypeOK, StringsInv, ConservedInv, SetOption \/ MarshalExceptionCode,
         UNCHANGED special
  PROVE  ConservedInv'
<1>1. /\ phase = "options" /\ phase' = "marshal" /\ UNCHANGED <<sig, pos, chan>>
      /\ UNCHANGED <<processed, newList>>
  BY DEF SetOption, MarshalExceptionCode, loop, numbering
<1>2. pos = 0 /\ chunkID = 0
  BY <1>1 DEF ConservedInv
<1>3. lists' = lists /\ chunkID' = First + pos
  <2>1. CASE SetOption
    <3>1. lists' = lists /\ chunkID' = chunkID /\ sig.oneway
      BY <2>1 DEF SetOption
    <3> QED BY <1>2, <3>1 DEF First
  <2>2. CASE MarshalExceptionCode
    <3>1. FixedCopyChunk(AllOut, 4, W) /\ ~sig.oneway
      BY <2>2 DEF MarshalExceptionCode
    <3>2. AllOut \cap initialized = {}
      BY <1>1 DEF StringsInv, AllOut
    <3>3. /\ memFixed' = [c \in Channel |-> memFixed[c]] /\ strings' = [c \in Channel |-> strings[c]]
          /\ chunkID' = chunkID + 1 /\ UNCHANGED <<regFixed, regVar, memVar, fpages>>
      BY <3>1, <3>2 DEF FixedCopyChunk
    <3>4. memFixed' = memFixed /\ strings' = strings
      BY <3>3 DEF TypeOK
    <3> QED BY <1>2, <3>1, <3>3, <3>4 DEF First, lists
  <2> QED BY <2>1, <2>2
<1>4. \A c, key : Total(c, key)' = Total(c, key)
  BY <1>1, <1>3, TotalQuiet
<1>5. processed' = <<>>
  BY <1>1 DEF ConservedInv
<1> QED BY <1>1, <1>3, <1>4, <1>5, ConservedStep

(* What a step of marshalling does to the rest.                            *)
LEMMA MarshallingFrame ==
  ASSUME TypeOK, NEW kind, Marshalling(kind)
  PROVE  /\ phase = "marshal" /\ phase' = "marshal" /\ pos < Len(sig.params)
         /\ sig' = sig /\ pos' = pos + 1
         /\ UNCHANGED <<chan, processed, newList>>
         /\ sig.params[pos + 1].kind = kind
         /\ sig.params[pos + 1].size \in Nat
         /\ sig.params[pos + 1].align \in Nat \ {0}
         /\ sig.params[pos + 1].chans \in SUBSET Channel
         /\ chunkID + 1 \in Nat
<1>1. /\ phase = "marshal" /\ phase' = "marshal" /\ pos < Len(sig.params)
      /\ sig' = sig /\ pos' = pos + 1
      /\ UNCHANGED <<chan, processed, newList>>
  BY DEF Marshalling, loop, numbering
<1>2. chunkID + 1 \in Nat
  BY DEF TypeOK
<1> QED BY <1>1, <1>2, NextParameter

(* A value of a fixed size goes to one list of each of its channels.       *)
LEMMA ConservedFixed ==
  ASSUME TypeOK, KernelTypeOK, StringsInv, ConservedInv, GetFixedCopyChunk, UNCHANGED special
  PROVE  ConservedInv'
<1> DEFINE p == sig.params[pos + 1]
           chunk == NewChunk(chunkID + 1, "value", p.size, p.align, p.chans, TRUE)
           prio == AlignmentPrio(p.align)
           InMem == IF p.size < DirectLimit THEN p.chans ELSE {}
           InStrings == IF p.size < DirectLimit THEN {} ELSE p.chans
<1>1. /\ phase = "marshal" /\ phase' = "marshal" /\ pos < Len(sig.params)
      /\ sig' = sig /\ pos' = pos + 1
      /\ UNCHANGED <<chan, processed, newList>>
      /\ p.kind = "fixed" /\ p.size \in Nat /\ p.align \in Nat \ {0} /\ p.chans \in SUBSET Channel
      /\ chunkID + 1 \in Nat
  BY MarshallingFrame DEF GetFixedCopyChunk
<1>2. /\ chunkID' = chunkID + 1
      /\ memFixed' = [c \in Channel |->
                        IF c \in p.chans \cap initialized /\ p.size < DirectLimit
                        THEN AddWithPrio(memFixed[c], chunk, prio) ELSE memFixed[c]]
      /\ strings' = [c \in Channel |->
                       IF c \in p.chans \cap initialized /\ ~(p.size < DirectLimit)
                       THEN AddLast(strings[c], chunk) ELSE strings[c]]
      /\ UNCHANGED <<regFixed, regVar, memVar, fpages>>
  BY DEF GetFixedCopyChunk, FixedCopyChunk
<1>3. initialized = Channel
  BY <1>1 DEF StringsInv
<1>4. PartsOf(p) = {"value"}
  BY <1>1 DEF PartsOf
<1>5. chunk \in ChunkOf(Nat) /\ chunk \in AnyChunk
  <2>1. "value" \in Parts /\ TRUE \in BOOLEAN
    BY DEF Parts
  <2> HIDE DEF p
  <2>2. chunk \in ChunkOf(Nat)
    BY <1>1, <2>1, NewChunkType, Zenon
  <2> QED BY <2>2, SizedIsAny
<1>6. prio \in Nat
  BY <1>1, AlignmentPrioType
<1>7. \A key : Counts(chunk, key) = IF key = <<chunkID + 1, "value">> THEN 1 ELSE 0
  BY DEF Counts, Key, NewChunk
<1> HIDE DEF p, chunk, prio
<1>8. /\ memFixed' = [c \in Channel |-> IF c \in InMem THEN AddWithPrio(memFixed[c], chunk, prio)
                                                        ELSE memFixed[c]]
      /\ strings' = [c \in Channel |-> IF c \in InStrings THEN AddLast(strings[c], chunk)
                                                           ELSE strings[c]]
  BY <1>1, <1>2, <1>3
<1>9. /\ memFixed \in [Channel -> Seq(ChunkOf(Nat))]
      /\ strings \in [Channel -> Seq(ChunkOf(Nat \cup {UNKNOWN}))]
      /\ chunk \in ChunkOf(Nat \cup {UNKNOWN})
  BY <1>5 DEF TypeOK, SizedChunk, AnyChunk
<1>10. ASSUME NEW c \in Channel, NEW key \in DataKey
       PROVE  Total(c, key)' = Total(c, key) +
                (IF c \in p.chans /\ \E part \in PartsOf(p) : key = <<chunkID + 1, part>>
                 THEN 1 ELSE 0)
  <2>0. memFixed[c] \in Seq(ChunkOf(Nat)) /\ strings[c] \in Seq(ChunkOf(Nat \cup {UNKNOWN}))
    BY <1>9
  <2>1. Copies(memFixed'[c], key) = Copies(memFixed[c], key)
                                      + (IF c \in InMem THEN Counts(chunk, key) ELSE 0)
    <3> HIDE DEF InMem
    <3>1. Copies(AddWithPrio(memFixed[c], chunk, prio), key)
            = Copies(memFixed[c], key) + Counts(chunk, key)
      BY <1>5, <1>6, <2>0, CopiesAdded
    <3>2. memFixed'[c] = IF c \in InMem THEN AddWithPrio(memFixed[c], chunk, prio) ELSE memFixed[c]
      BY <1>8
    <3> QED BY <3>1, <3>2, TotalType
  <2>2. Copies(strings'[c], key) = Copies(strings[c], key)
                                     + (IF c \in InStrings THEN Counts(chunk, key) ELSE 0)
    <3> HIDE DEF InStrings
    <3>1. Copies(AddLast(strings[c], chunk), key) = Copies(strings[c], key) + Counts(chunk, key)
      BY <1>9, <2>0, CopiesAppended
    <3>2. strings'[c] = IF c \in InStrings THEN AddLast(strings[c], chunk) ELSE strings[c]
      BY <1>8
    <3> QED BY <3>1, <3>2, TotalType
  <2>3. /\ Copies(regFixed'[c], key) = Copies(regFixed[c], key)
        /\ Copies(regVar'[c], key) = Copies(regVar[c], key)
        /\ Copies(memVar'[c], key) = Copies(memVar[c], key)
        /\ Copies(fpages'[c], key) = Copies(fpages[c], key)
        /\ Moving(c, key)' = Moving(c, key) /\ Tagged(c, key)' = Tagged(c, key)
    BY <1>1, <1>2 DEF Moving, Tagged
  <2>4. (\E part \in PartsOf(p) : key = <<chunkID + 1, part>>) <=> key = <<chunkID + 1, "value">>
    BY <1>4
  <2> DEFINE n == IF c \in p.chans /\ key = <<chunkID + 1, "value">> THEN 1 ELSE 0
  <2>5. (IF c \in InMem THEN Counts(chunk, key) ELSE 0)
          + (IF c \in InStrings THEN Counts(chunk, key) ELSE 0) = n
    BY <1>7
  <2> DEFINE m == IF c \in InMem THEN Counts(chunk, key) ELSE 0
             s == IF c \in InStrings THEN Counts(chunk, key) ELSE 0
  <2>6. m \in Nat /\ s \in Nat
    BY <1>7
  <2> HIDE DEF m, s, n
  <2>7. Total(c, key)' = Total(c, key) + n
    BY <2>1, <2>2, <2>3, <2>5, <2>6, TotalType DEF Total, Listed, m, s
  <2> QED BY <2>4, <2>7 DEF n
<1> QED BY <1>1, <1>2, <1>10, ConservedParameter DEF p

(* A string item goes to the strings of its channels.                      *)
LEMMA ConservedUnbounded ==
  ASSUME TypeOK, KernelTypeOK, ConservedInv, GetUnboundedCopyChunk, UNCHANGED special
  PROVE  ConservedInv'
<1> DEFINE p == sig.params[pos + 1]
           chunk == NewChunk(chunkID + 1, "string", UNKNOWN, 1, p.chans, TRUE)
<1>1. /\ phase = "marshal" /\ phase' = "marshal" /\ pos < Len(sig.params)
      /\ sig' = sig /\ pos' = pos + 1
      /\ UNCHANGED <<chan, processed, newList>>
      /\ p.kind = "string" /\ p.chans \in SUBSET Channel
      /\ chunkID + 1 \in Nat
  BY MarshallingFrame DEF GetUnboundedCopyChunk
<1>2. /\ chunkID' = chunkID + 1
      /\ strings' = [c \in Channel |-> IF c \in p.chans THEN AddLast(strings[c], chunk) ELSE strings[c]]
      /\ UNCHANGED <<regFixed, regVar, memFixed, memVar, fpages>>
  BY DEF GetUnboundedCopyChunk
<1>3. PartsOf(p) = {"string"}
  BY <1>1 DEF PartsOf
<1>4. chunk \in AnyChunk
  <2>1. "string" \in Parts /\ TRUE \in BOOLEAN /\ UNKNOWN \in Nat \cup {UNKNOWN} /\ 1 \in Nat \ {0}
    BY DEF Parts
  <2> HIDE DEF p
  <2> QED BY <1>1, <2>1, NewChunkType, Zenon DEF AnyChunk
<1>5. \A key : Counts(chunk, key) = IF key = <<chunkID + 1, "string">> THEN 1 ELSE 0
  BY DEF Counts, Key, NewChunk
<1> HIDE DEF p, chunk
<1>6. ASSUME NEW c \in Channel, NEW key \in DataKey
      PROVE  Total(c, key)' = Total(c, key) +
               (IF c \in p.chans /\ \E part \in PartsOf(p) : key = <<chunkID + 1, part>>
                THEN 1 ELSE 0)
  <2>1. strings[c] \in Seq(AnyChunk)
    BY DEF TypeOK
  <2>2. Copies(AddLast(strings[c], chunk), key) = Copies(strings[c], key) + Counts(chunk, key)
    BY <1>4, <2>1, CopiesAppended
  <2>3. strings'[c] = IF c \in p.chans THEN AddLast(strings[c], chunk) ELSE strings[c]
    BY <1>2
  <2>4. /\ Copies(regFixed'[c], key) = Copies(regFixed[c], key)
        /\ Copies(regVar'[c], key) = Copies(regVar[c], key)
        /\ Copies(memFixed'[c], key) = Copies(memFixed[c], key)
        /\ Copies(memVar'[c], key) = Copies(memVar[c], key)
        /\ Copies(fpages'[c], key) = Copies(fpages[c], key)
        /\ Moving(c, key)' = Moving(c, key) /\ Tagged(c, key)' = Tagged(c, key)
    BY <1>1, <1>2 DEF Moving, Tagged
  <2>5. (\E part \in PartsOf(p) : key = <<chunkID + 1, part>>) <=> key = <<chunkID + 1, "string">>
    BY <1>3
  <2> DEFINE n == IF c \in p.chans /\ key = <<chunkID + 1, "string">> THEN 1 ELSE 0
  <2>6. n \in Nat /\ Copies(strings'[c], key) = Copies(strings[c], key) + n
    BY <1>5, <2>2, <2>3, TotalType
  <2> HIDE DEF n
  <2>7. Total(c, key)' = Total(c, key) + n
    BY <2>4, <2>6, TotalType DEF Total, Listed
  <2> QED BY <2>5, <2>7 DEF n
<1> QED BY <1>1, <1>2, <1>6, ConservedParameter DEF p

(* A mapping goes to the map items of its channels.                        *)
LEMMA ConservedMap ==
  ASSUME TypeOK, KernelTypeOK, ConservedInv, GetMapChunk, UNCHANGED special
  PROVE  ConservedInv'
<1> DEFINE p == sig.params[pos + 1]
           chunk == NewChunk(chunkID + 1, "fpage", 1, 1, p.chans, TRUE)
<1>1. /\ phase = "marshal" /\ phase' = "marshal" /\ pos < Len(sig.params)
      /\ sig' = sig /\ pos' = pos + 1
      /\ UNCHANGED <<chan, processed, newList>>
      /\ p.kind = "fpage" /\ p.chans \in SUBSET Channel
      /\ chunkID + 1 \in Nat
  BY MarshallingFrame DEF GetMapChunk
<1>2. /\ chunkID' = chunkID + 1
      /\ fpages' = [c \in Channel |-> IF c \in p.chans THEN AddLast(fpages[c], chunk) ELSE fpages[c]]
      /\ UNCHANGED <<regFixed, regVar, memFixed, memVar, strings>>
  BY DEF GetMapChunk
<1>3. PartsOf(p) = {"fpage"}
  BY <1>1 DEF PartsOf
<1>4. chunk \in SizedChunk
  <2>1. "fpage" \in Parts /\ TRUE \in BOOLEAN /\ 1 \in Nat /\ 1 \in Nat \ {0}
    BY DEF Parts
  <2> HIDE DEF p
  <2> QED BY <1>1, <2>1, NewChunkType, Zenon DEF SizedChunk
<1>5. \A key : Counts(chunk, key) = IF key = <<chunkID + 1, "fpage">> THEN 1 ELSE 0
  BY DEF Counts, Key, NewChunk
<1> HIDE DEF p, chunk
<1>6. ASSUME NEW c \in Channel, NEW key \in DataKey
      PROVE  Total(c, key)' = Total(c, key) +
               (IF c \in p.chans /\ \E part \in PartsOf(p) : key = <<chunkID + 1, part>>
                THEN 1 ELSE 0)
  <2>1. fpages[c] \in Seq(SizedChunk)
    BY DEF TypeOK
  <2>2. Copies(AddLast(fpages[c], chunk), key) = Copies(fpages[c], key) + Counts(chunk, key)
    BY <1>4, <2>1, CopiesAppended
  <2>3. fpages'[c] = IF c \in p.chans THEN AddLast(fpages[c], chunk) ELSE fpages[c]
    BY <1>2
  <2>4. /\ Copies(regFixed'[c], key) = Copies(regFixed[c], key)
        /\ Copies(regVar'[c], key) = Copies(regVar[c], key)
        /\ Copies(memFixed'[c], key) = Copies(memFixed[c], key)
        /\ Copies(memVar'[c], key) = Copies(memVar[c], key)
        /\ Copies(strings'[c], key) = Copies(strings[c], key)
        /\ Moving(c, key)' = Moving(c, key) /\ Tagged(c, key)' = Tagged(c, key)
    BY <1>1, <1>2 DEF Moving, Tagged
  <2>5. (\E part \in PartsOf(p) : key = <<chunkID + 1, part>>) <=> key = <<chunkID + 1, "fpage">>
    BY <1>3
  <2> DEFINE n == IF c \in p.chans /\ key = <<chunkID + 1, "fpage">> THEN 1 ELSE 0
  <2>6. n \in Nat /\ Copies(fpages'[c], key) = Copies(fpages[c], key) + n
    BY <1>5, <2>2, <2>3, TotalType
  <2> HIDE DEF n
  <2>7. Total(c, key)' = Total(c, key) + n
    BY <2>4, <2>6, TotalType DEF Total, Listed
  <2> QED BY <2>5, <2>7 DEF n
<1> QED BY <1>1, <1>2, <1>6, ConservedParameter DEF p

(* A bounded string becomes three chunks in three lists.                   *)
LEMMA ConservedBounded ==
  ASSUME TypeOK, KernelTypeOK, ConservedInv, GetBoundedCopyChunk, UNCHANGED special
  PROVE  ConservedInv'
<1> DEFINE p == sig.params[pos + 1]
           data == NewChunk(chunkID + 1, "data", p.size, 1, p.chans, TRUE)
           count == NewChunk(chunkID + 1, "count", W, W, p.chans, TRUE)
           temp == NewChunk(chunkID + 1, "temp", p.size, 1, p.chans, FALSE)
<1>1. /\ phase = "marshal" /\ phase' = "marshal" /\ pos < Len(sig.params)
      /\ sig' = sig /\ pos' = pos + 1
      /\ UNCHANGED <<chan, processed, newList>>
      /\ p.kind = "bounded" /\ p.size \in Nat /\ p.chans \in SUBSET Channel
      /\ chunkID + 1 \in Nat
  BY MarshallingFrame DEF GetBoundedCopyChunk
<1>2. /\ chunkID' = chunkID + 1
      /\ memVar' = [c \in Channel |-> IF c \in p.chans THEN AddLast(memVar[c], data) ELSE memVar[c]]
      /\ memFixed' = [c \in Channel |-> IF c \in p.chans THEN AddLast(memFixed[c], count)
                                                         ELSE memFixed[c]]
      /\ strings' = [c \in Channel |-> IF c \in p.chans THEN AddLast(strings[c], temp)
                                                        ELSE strings[c]]
      /\ UNCHANGED <<regFixed, regVar, fpages>>
  BY DEF GetBoundedCopyChunk
<1>3. PartsOf(p) = {"data", "count", "temp"}
  BY <1>1 DEF PartsOf
<1>4. data \in SizedChunk /\ count \in SizedChunk /\ temp \in AnyChunk
  <2> HIDE DEF p
  <2>1. W \in Nat \ {0} /\ W \in Nat /\ 1 \in Nat \ {0}
    BY ConnectionAssumption
  <2>2. "data" \in Parts /\ "count" \in Parts /\ "temp" \in Parts
    BY DEF Parts
  <2>3. TRUE \in BOOLEAN /\ FALSE \in BOOLEAN /\ p.size \in Nat \cup {UNKNOWN}
    BY <1>1
  <2> QED BY <1>1, <2>1, <2>2, <2>3, NewChunkType, Zenon DEF AnyChunk, SizedChunk
<1>5. \A key : /\ Counts(data, key) = IF key = <<chunkID + 1, "data">> THEN 1 ELSE 0
               /\ Counts(count, key) = IF key = <<chunkID + 1, "count">> THEN 1 ELSE 0
               /\ Counts(temp, key) = IF key = <<chunkID + 1, "temp">> THEN 1 ELSE 0
  BY DEF Counts, Key, NewChunk
<1> HIDE DEF p, data, count, temp
<1>6. ASSUME NEW c \in Channel, NEW key \in DataKey
      PROVE  Total(c, key)' = Total(c, key) +
               (IF c \in p.chans /\ \E part \in PartsOf(p) : key = <<chunkID + 1, part>>
                THEN 1 ELSE 0)
  <2>1. memVar[c] \in Seq(SizedChunk) /\ memFixed[c] \in Seq(SizedChunk) /\ strings[c] \in Seq(AnyChunk)
    BY DEF TypeOK
  <2>2. /\ Copies(AddLast(memVar[c], data), key) = Copies(memVar[c], key) + Counts(data, key)
        /\ Copies(AddLast(memFixed[c], count), key) = Copies(memFixed[c], key) + Counts(count, key)
        /\ Copies(AddLast(strings[c], temp), key) = Copies(strings[c], key) + Counts(temp, key)
    BY <1>4, <2>1, CopiesAppended
  <2>3. /\ memVar'[c] = IF c \in p.chans THEN AddLast(memVar[c], data) ELSE memVar[c]
        /\ memFixed'[c] = IF c \in p.chans THEN AddLast(memFixed[c], count) ELSE memFixed[c]
        /\ strings'[c] = IF c \in p.chans THEN AddLast(strings[c], temp) ELSE strings[c]
    BY <1>2
  <2>4. /\ Copies(regFixed'[c], key) = Copies(regFixed[c], key)
        /\ Copies(regVar'[c], key) = Copies(regVar[c], key)
        /\ Copies(fpages'[c], key) = Copies(fpages[c], key)
        /\ Moving(c, key)' = Moving(c, key) /\ Tagged(c, key)' = Tagged(c, key)
    BY <1>1, <1>2 DEF Moving, Tagged
  <2> DEFINE Is(part) == key = <<chunkID + 1, part>>
             d == IF c \in p.chans /\ Is("data") THEN 1 ELSE 0
             n == IF c \in p.chans /\ Is("count") THEN 1 ELSE 0
             t == IF c \in p.chans /\ Is("temp") THEN 1 ELSE 0
  <2>5. (\E part \in PartsOf(p) : key = <<chunkID + 1, part>>) <=> Is("data") \/ Is("count") \/ Is("temp")
    BY <1>3
  <2>6. /\ d \in Nat /\ Copies(memVar'[c], key) = Copies(memVar[c], key) + d
        /\ n \in Nat /\ Copies(memFixed'[c], key) = Copies(memFixed[c], key) + n
        /\ t \in Nat /\ Copies(strings'[c], key) = Copies(strings[c], key) + t
    BY <1>5, <2>2, <2>3, TotalType
  <2>7. /\ ~(Is("data") /\ Is("count"))
        /\ ~(Is("data") /\ Is("temp"))
        /\ ~(Is("count") /\ Is("temp"))
    OBVIOUS
  <2> HIDE DEF Is
  <2>8. d + n + t = IF c \in p.chans /\ (Is("data") \/ Is("count") \/ Is("temp")) THEN 1 ELSE 0
    BY <2>7
  <2> HIDE DEF d, n, t
  <2>9. Total(c, key)' = Total(c, key) + (d + n + t)
    BY <2>4, <2>6, TotalType DEF Total, Listed
  <2> QED BY <2>5, <2>8, <2>9
<1> QED BY <1>1, <1>2, <1>6, ConservedParameter DEF p

(* So marshalling puts everything where it belongs.                        *)
LEMMA ConservedMarshal ==
  ASSUME TypeOK, KernelTypeOK, StringsInv, ConservedInv, Marshal, UNCHANGED special
  PROVE  ConservedInv'
  BY ConservedOptions, ConservedFixed, ConservedUnbounded, ConservedBounded, ConservedMap DEF Marshal

(* The tags are no data.                                                   *)
LEMMA ConservedTags ==
  ASSUME TypeOK, KernelTypeOK, ConservedInv, AddTags, UNCHANGED special
  PROVE  ConservedInv'
<1> DEFINE used == IF sig.oneway THEN Channel \ {CHANNEL_OUT} ELSE Channel
           rank(c) == IF sig.oneway /\ c > CHANNEL_OUT THEN c ELSE c + 1
           tag(c) == NewChunk(chunkID + rank(c), "tag", W, W, {c}, FALSE)
<1>1. /\ phase = "marshal" /\ phase' = "budget" /\ pos = Len(sig.params)
      /\ regFixed' = [c \in Channel |-> IF c \in used THEN AddLast(regFixed[c], tag(c)) ELSE regFixed[c]]
      /\ UNCHANGED <<sig, pos, regVar, memFixed, memVar, strings, fpages, chan, processed, newList>>
  BY DEF AddTags, request, loop, numbering
<1> HIDE DEF used
<1>2. ASSUME NEW c \in Channel, NEW key \in DataKey  PROVE Total(c, key)' = Total(c, key)
  <2>1. regFixed[c] \in Seq(SizedChunk)
    BY DEF TypeOK
  <2>2. tag(c) \in SizedChunk /\ tag(c).part = "tag"
    <3>1. chunkID + rank(c) \in Nat
      <4>1. c \in Nat /\ rank(c) \in {c, c + 1}
        BY ChannelType
      <4> QED BY <4>1 DEF TypeOK
    <3>2. "tag" \in Parts /\ W \in Nat /\ W \in Nat \ {0} /\ {c} \in SUBSET Channel /\ FALSE \in BOOLEAN
      BY ConnectionAssumption DEF Parts
    <3>3. tag(c).part = "tag"
      BY DEF NewChunk
    <3> HIDE DEF rank
    <3> QED BY <3>1, <3>2, <3>3, NewChunkType, Zenon DEF SizedChunk
  <2> HIDE DEF tag
  <2>3. Copies(AddLast(regFixed[c], tag(c)), key) = Copies(regFixed[c], key) + Counts(tag(c), key)
    BY <2>1, <2>2, CopiesAppended
  <2>4. Counts(tag(c), key) = 0
    BY <2>2, NotData
  <2>5. Copies(regFixed'[c], key) = Copies(regFixed[c], key)
    <3>1. regFixed'[c] = IF c \in used THEN AddLast(regFixed[c], tag(c)) ELSE regFixed[c]
      BY <1>1
    <3>2. Copies(regFixed[c], key) \in Nat
      BY TotalType
    <3> QED BY <2>3, <2>4, <3>1, <3>2
  <2>6. /\ Copies(memFixed'[c], key) = Copies(memFixed[c], key)
        /\ Copies(regVar'[c], key) = Copies(regVar[c], key)
        /\ Copies(memVar'[c], key) = Copies(memVar[c], key)
        /\ Copies(strings'[c], key) = Copies(strings[c], key)
        /\ Copies(fpages'[c], key) = Copies(fpages[c], key)
        /\ Moving(c, key)' = Moving(c, key) /\ Tagged(c, key)' = Tagged(c, key)
    BY <1>1 DEF Moving, Tagged
  <2> QED BY <2>5, <2>6 DEF Total, Listed
<1>3. processed' = <<>>
  BY <1>1 DEF ConservedInv
<1> QED BY <1>1, <1>2, <1>3, ConservedStep

(* The first chunk of the memory message goes to the registers.            *)
LEMMA TriedCopies ==
  ASSUME TypeOK, memFixed[chan] # <<>>, NEW key
  PROVE  /\ Counts(Candidate, key) \in Nat
         /\ Copies(Tail(memFixed[chan]), key) \in Nat
         /\ Copies(memFixed[chan], key) = Copies(Tail(memFixed[chan]), key) + Counts(Candidate, key)
         /\ Copies(Tried, key) = Copies(regFixed[chan], key) + Counts(Candidate, key)
<1>1. memFixed[chan] \in Seq(SizedChunk) /\ regFixed[chan] \in Seq(SizedChunk)
  BY DEF TypeOK
<1>2. Candidate \in SizedChunk /\ CandidatePrio \in Nat
  BY TriedType
<1>3. /\ Copies(Tail(memFixed[chan]), key) \in Nat
      /\ Copies(memFixed[chan], key) = Copies(Tail(memFixed[chan]), key) + Counts(Candidate, key)
  BY <1>1, CopiesBehindHead DEF Candidate
<1> DEFINE added == AddWithPrio(regFixed[chan], Candidate, CandidatePrio)
<1>4. added \in Seq(SizedChunk)
  BY <1>1, <1>2, AddChunkType, Zenon DEF SizedChunk
<1>5. Copies(added, key) = Copies(regFixed[chan], key) + Counts(Candidate, key)
  BY <1>1, <1>2, CopiesAdded, Zenon DEF SizedChunk
<1>6. Tried = LaidOut(added)
  BY DEF Tried
<1> HIDE DEF added
<1>7. Copies(Tried, key) = Copies(added, key)
  BY <1>4, <1>6, CopiesLaidOut
<1>8. Counts(Candidate, key) \in Nat
  BY DEF Counts
<1> QED BY <1>3, <1>5, <1>7, <1>8

(* What every round does.                                                  *)
LEMMA TryingFrame ==
  ASSUME TypeOK, ConservedInv, TryingFixed
  PROVE  /\ phase = "fixed" /\ phase' = "fixed" /\ memFixed[chan] # <<>>
         /\ memFixed' = [memFixed EXCEPT ![chan] = Tail(memFixed[chan])]
         /\ UNCHANGED <<sig, pos, regVar, memVar, strings, fpages, chan, newList>>
         /\ pos = Len(sig.params) /\ chan \in Channel
  BY DEF TryingFixed, request, numbering, ConservedInv, TypeOK

(* What one list loses two others gain.                                    *)
LEMMA SameSum ==
  ASSUME NEW r \in Nat, NEW m \in Nat, NEW v \in Nat, NEW w \in Nat, NEW s \in Nat, NEW f \in Nat,
         NEW p \in Nat, NEW n \in Nat, NEW k \in Nat, NEW q \in Nat, NEW l \in Nat, NEW o \in Nat,
         m = l + k, q + o = r + p + k
  PROVE  (q + l + v + w + s + f) + (o + n) = (r + m + v + w + s + f) + (p + n)
  OBVIOUS

(* A fixed chunk goes to the registers, or into the hands of the loop.     *)
LEMMA TotalTrying ==
  ASSUME TypeOK, KernelTypeOK, ConservedInv, TryingFixed, UNCHANGED special, NEW key,
         \A c \in Channel : c # chan => regFixed'[c] = regFixed[c],
         Copies(regFixed'[chan], key) \in Nat, Copies(processed', key) \in Nat,
         Copies(regFixed'[chan], key) + Copies(processed', key)
           = Copies(regFixed[chan], key) + Copies(processed, key) + Counts(Candidate, key),
         NEW c \in Channel
  PROVE  Total(c, key)' = Total(c, key)
<1>1. /\ memFixed[chan] # <<>> /\ chan \in Channel
      /\ memFixed' = [memFixed EXCEPT ![chan] = Tail(memFixed[chan])]
      /\ UNCHANGED <<regVar, memVar, strings, fpages, chan, newList>>
  BY TryingFrame
<1>2. /\ Copies(regVar'[c], key) = Copies(regVar[c], key)
      /\ Copies(memVar'[c], key) = Copies(memVar[c], key)
      /\ Copies(strings'[c], key) = Copies(strings[c], key)
      /\ Copies(fpages'[c], key) = Copies(fpages[c], key)
      /\ Copies(newList', key) = Copies(newList, key)
      /\ Tagged(c, key)' = Tagged(c, key)
  BY <1>1 DEF Tagged
<1>3. CASE c # chan
  <2>1. memFixed'[c] = memFixed[c] /\ regFixed'[c] = regFixed[c]
    BY <1>1, <1>3 DEF TypeOK
  <2>2. Moving(c, key)' = Moving(c, key)
    BY <1>1, <1>3 DEF Moving
  <2> QED BY <1>2, <2>1, <2>2 DEF Total, Listed
<1>4. CASE c = chan
  <2>1. memFixed'[c] = Tail(memFixed[chan])
    BY <1>1, <1>4 DEF TypeOK
  <2>2. /\ Copies(memFixed'[c], key) \in Nat /\ Counts(Candidate, key) \in Nat
        /\ Copies(memFixed[c], key) = Copies(memFixed'[c], key) + Counts(Candidate, key)
    BY <1>1, <1>4, <2>1, TriedCopies
  <2>3. /\ Moving(c, key)' = Copies(processed', key) + Copies(newList, key)
        /\ Moving(c, key) = Copies(processed, key) + Copies(newList, key)
    BY <1>1, <1>2, <1>4 DEF Moving
  <2>4. Listed(c, key)' = Copies(regFixed'[c], key) + Copies(memFixed'[c], key)
                            + Copies(regVar[c], key) + Copies(memVar[c], key)
                            + Copies(strings[c], key) + Copies(fpages[c], key)
    BY <1>2 DEF Listed
  <2>5. Listed(c, key)' + Moving(c, key)' = Listed(c, key) + Moving(c, key)
    <3>1. /\ Copies(regFixed[c], key) \in Nat /\ Copies(regVar[c], key) \in Nat
          /\ Copies(memVar[c], key) \in Nat /\ Copies(strings[c], key) \in Nat
          /\ Copies(fpages[c], key) \in Nat
      BY TotalType
    <3>2. Copies(processed, key) \in Nat /\ Copies(newList, key) \in Nat
      BY TotalType
    <3>3. /\ Copies(regFixed'[c], key) \in Nat /\ Copies(processed', key) \in Nat
          /\ Copies(regFixed'[c], key) + Copies(processed', key)
               = Copies(regFixed[c], key) + Copies(processed, key) + Counts(Candidate, key)
      BY <1>4
    <3>4. Listed(c, key) = Copies(regFixed[c], key) + Copies(memFixed[c], key)
                             + Copies(regVar[c], key) + Copies(memVar[c], key)
                             + Copies(strings[c], key) + Copies(fpages[c], key)
      BY DEF Listed
    <3>5. Copies(memFixed[c], key) \in Nat
      BY TotalType
    <3>6. (Copies(regFixed'[c], key) + Copies(memFixed'[c], key) + Copies(regVar[c], key)
             + Copies(memVar[c], key) + Copies(strings[c], key) + Copies(fpages[c], key))
            + (Copies(processed', key) + Copies(newList, key))
          = (Copies(regFixed[c], key) + Copies(memFixed[c], key) + Copies(regVar[c], key)
               + Copies(memVar[c], key) + Copies(strings[c], key) + Copies(fpages[c], key))
              + (Copies(processed, key) + Copies(newList, key))
      BY <2>2, <3>1, <3>2, <3>3, <3>5, SameSum
    <3> QED BY <2>3, <2>4, <3>4, <3>6
  <2>6. Listed(c, key)' \in Nat /\ Moving(c, key)' \in Nat
    BY <1>4, <2>2, <2>3, <2>4, TotalType
  <2> QED BY <1>2, <2>5, <2>6, TotalType DEF Total
<1> QED BY <1>3, <1>4

(* It fits.                                                                *)
LEMMA ConservedTake ==
  ASSUME TypeOK, KernelTypeOK, ConservedInv, TakeFixed, UNCHANGED special
  PROVE  ConservedInv'
<1>1. TryingFixed /\ regFixed' = [regFixed EXCEPT ![chan] = Tried] /\ processed' = processed
  BY DEF TakeFixed
<1>2. /\ phase = "fixed" /\ phase' = "fixed" /\ UNCHANGED <<sig, pos>>
      /\ pos = Len(sig.params) /\ chan \in Channel /\ memFixed[chan] # <<>>
  BY <1>1, TryingFrame
<1>3. ASSUME NEW c \in Channel, NEW key \in DataKey  PROVE Total(c, key)' = Total(c, key)
  <2>1. regFixed'[chan] = Tried /\ \A d \in Channel : d # chan => regFixed'[d] = regFixed[d]
    BY <1>1, <1>2 DEF TypeOK
  <2>2. /\ Counts(Candidate, key) \in Nat
        /\ Copies(Tried, key) = Copies(regFixed[chan], key) + Counts(Candidate, key)
    BY <1>2, TriedCopies
  <2>3. Copies(regFixed[chan], key) \in Nat /\ Copies(processed, key) \in Nat
    BY <1>2, TotalType
  <2>4. /\ Copies(regFixed'[chan], key) \in Nat /\ Copies(processed', key) \in Nat
        /\ Copies(regFixed'[chan], key) + Copies(processed', key)
             = Copies(regFixed[chan], key) + Copies(processed, key) + Counts(Candidate, key)
    BY <1>1, <2>1, <2>2, <2>3
  <2> QED BY <1>1, <2>1, <2>4, TotalTrying
<1> QED BY <1>2, <1>3, ConservedStep

(* It is put back.                                                         *)
LEMMA ConservedPutBack ==
  ASSUME TypeOK, KernelTypeOK, ConservedInv, PutBackFixed, UNCHANGED special
  PROVE  ConservedInv'
<1> DEFINE at == PrioPosition(regFixed[chan], CandidatePrio)
<1>1. /\ TryingFixed
      /\ regFixed' = [regFixed EXCEPT ![chan] = RemoveElement(Tried, at)]
      /\ processed' = AddLast(processed, Tried[at])
  BY DEF PutBackFixed
<1>2. /\ phase = "fixed" /\ phase' = "fixed" /\ UNCHANGED <<sig, pos>>
      /\ pos = Len(sig.params) /\ chan \in Channel /\ memFixed[chan] # <<>>
  BY <1>1, TryingFrame
<1>3. Tried \in Seq(SizedChunk) /\ at \in 1 .. Len(Tried) /\ processed \in Seq(SizedChunk)
  BY <1>2, TriedType DEF TypeOK
<1> HIDE DEF at
<1>4. Tried[at] \in SizedChunk
  BY <1>3
<1>5. ASSUME NEW c \in Channel, NEW key \in DataKey  PROVE Total(c, key)' = Total(c, key)
  <2>1. /\ regFixed'[chan] = RemoveElement(Tried, at)
        /\ \A d \in Channel : d # chan => regFixed'[d] = regFixed[d]
    BY <1>1, <1>2 DEF TypeOK
  <2>2. /\ Counts(Candidate, key) \in Nat
        /\ Copies(Tried, key) = Copies(regFixed[chan], key) + Counts(Candidate, key)
    BY <1>2, TriedCopies
  <2>3. Copies(regFixed[chan], key) \in Nat /\ Copies(processed, key) \in Nat
    BY <1>2, TotalType
  <2>4. /\ Copies(RemoveElement(Tried, at), key) \in Nat
        /\ Copies(Tried, key) = Copies(RemoveElement(Tried, at), key) + Counts(Tried[at], key)
    BY <1>3, CopiesWithout
  <2>5. Copies(AddLast(processed, Tried[at]), key) = Copies(processed, key) + Counts(Tried[at], key)
    BY <1>3, <1>4, CopiesAppended
  <2>6. Counts(Tried[at], key) \in Nat
    BY DEF Counts
  <2>7. /\ Copies(regFixed'[chan], key) \in Nat /\ Copies(processed', key) \in Nat
        /\ Copies(regFixed'[chan], key) + Copies(processed', key)
             = Copies(regFixed[chan], key) + Copies(processed, key) + Counts(Candidate, key)
    BY <1>1, <2>1, <2>2, <2>3, <2>4, <2>5, <2>6
  <2> QED BY <1>1, <2>1, <2>7, TotalTrying
<1> QED BY <1>2, <1>5, ConservedStep

(* It is passed over.                                                      *)
LEMMA ConservedSkip ==
  ASSUME TypeOK, KernelTypeOK, ConservedInv, SkipFixed, UNCHANGED special
  PROVE  ConservedInv'
<1>1. TryingFixed /\ regFixed' = regFixed /\ processed' = AddLast(processed, Candidate)
  BY DEF SkipFixed
<1>2. /\ phase = "fixed" /\ phase' = "fixed" /\ UNCHANGED <<sig, pos>>
      /\ pos = Len(sig.params) /\ chan \in Channel /\ memFixed[chan] # <<>>
  BY <1>1, TryingFrame
<1>3. Candidate \in SizedChunk /\ processed \in Seq(SizedChunk)
  BY <1>2, TriedType DEF TypeOK
<1>4. ASSUME NEW c \in Channel, NEW key \in DataKey  PROVE Total(c, key)' = Total(c, key)
  <2>1. Copies(regFixed[chan], key) \in Nat /\ Copies(processed, key) \in Nat
    BY <1>2, TotalType
  <2>2. Counts(Candidate, key) \in Nat
    BY DEF Counts
  <2>3. Copies(AddLast(processed, Candidate), key) = Copies(processed, key) + Counts(Candidate, key)
    BY <1>3, CopiesAppended
  <2>4. /\ Copies(regFixed'[chan], key) \in Nat /\ Copies(processed', key) \in Nat
        /\ Copies(regFixed'[chan], key) + Copies(processed', key)
             = Copies(regFixed[chan], key) + Copies(processed, key) + Counts(Candidate, key)
    BY <1>1, <2>1, <2>2, <2>3
  <2> QED BY <1>1, <2>4, TotalTrying
<1> QED BY <1>2, <1>4, ConservedStep

(* What a pass passed over comes back.                                     *)
LEMMA ConservedEndFixed ==
  ASSUME TypeOK, KernelTypeOK, BudgetInv, ConservedInv, EndFixedPass, UNCHANGED special
  PROVE  ConservedInv'
<1>1. /\ phase = "fixed" /\ memFixed[chan] = <<>>
      /\ memFixed' = [memFixed EXCEPT ![chan] = Merge(memFixed[chan], processed)]
      /\ processed' = <<>>
      /\ phase' = phase \/ phase' = "variable"
      /\ UNCHANGED <<sig, pos, regFixed, regVar, memVar, strings, fpages, chan, newList>>
  BY DEF EndFixedPass, request, numbering
<1>2. pos = Len(sig.params) /\ newList = <<>> /\ chan \in Channel
  BY <1>1 DEF ConservedInv, BudgetInv, TypeOK
<1>3. ASSUME NEW c \in Channel, NEW key \in DataKey  PROVE Total(c, key)' = Total(c, key)
  <2>1. /\ Copies(regFixed'[c], key) = Copies(regFixed[c], key)
        /\ Copies(regVar'[c], key) = Copies(regVar[c], key)
        /\ Copies(memVar'[c], key) = Copies(memVar[c], key)
        /\ Copies(strings'[c], key) = Copies(strings[c], key)
        /\ Copies(fpages'[c], key) = Copies(fpages[c], key)
        /\ Tagged(c, key)' = Tagged(c, key)
    BY <1>1 DEF Tagged
  <2>2. Copies(newList, key) = 0 /\ Copies(newList', key) = 0 /\ Copies(processed', key) = 0
    BY <1>1, <1>2, CopiesOfNothing
  <2>3. CASE c # chan
    <3>1. memFixed'[c] = memFixed[c] /\ Moving(c, key)' = Moving(c, key)
      BY <1>1, <2>3 DEF TypeOK, Moving
    <3> QED BY <2>1, <3>1 DEF Total, Listed
  <2>4. CASE c = chan
    <3>1. memFixed'[c] = <<>> \o processed
      BY <1>1, <1>2, <2>4 DEF TypeOK, Merge
    <3>2. <<>> \in Seq(SizedChunk) /\ processed \in Seq(SizedChunk)
      BY DEF TypeOK
    <3>3. Copies(memFixed'[c], key) = Copies(<<>>, key) + Copies(processed, key)
      <4>1. Copies(<<>> \o processed, key) = Copies(<<>>, key) + Copies(processed, key)
        BY <3>2, CopiesOfBoth, Zenon
      <4> QED BY <3>1, <4>1, Zenon
    <3>4. Copies(memFixed[c], key) = 0 /\ Copies(<<>>, key) = 0
      BY <1>1, <2>4, CopiesOfNothing
    <3>5. Moving(c, key) = Copies(processed, key) + 0 /\ Moving(c, key)' = 0 + 0
      BY <1>1, <2>2, <2>4 DEF Moving
    <3> DEFINE r == Copies(regFixed[c], key)
               v == Copies(regVar[c], key)
               w == Copies(memVar[c], key)
               s == Copies(strings[c], key)
               f == Copies(fpages[c], key)
               p == Copies(processed, key)
               t == Tagged(c, key)
    <3>6. r \in Nat /\ v \in Nat /\ w \in Nat /\ s \in Nat /\ f \in Nat /\ p \in Nat /\ t \in Nat
      BY TotalType
    <3>7. /\ Total(c, key) = (r + 0 + v + w + s + f) + (p + 0) + t
          /\ Total(c, key)' = (r + (0 + p) + v + w + s + f) + (0 + 0) + t
      BY <2>1, <3>3, <3>4, <3>5 DEF Total, Listed
    <3> HIDE DEF r, v, w, s, f, p, t
    <3> QED BY <3>6, <3>7
  <2> QED BY <2>3, <2>4
<1> QED BY <1>1, <1>2, <1>3, ConservedStep

(* A variable chunk goes from the memory message to the registers.         *)
LEMMA ConservedMove ==
  ASSUME TypeOK, KernelTypeOK, ConservedInv, MoveVariable, UNCHANGED special
  PROVE  ConservedInv'
<1> DEFINE chunk == memVar[chan][cursor]
<1>1. /\ phase = "variable" /\ phase' = "variable" /\ cursor <= Len(memVar[chan])
      /\ memVar' = [memVar EXCEPT ![chan] = RemoveElement(memVar[chan], cursor)]
      /\ regVar' = [regVar EXCEPT ![chan] = AddLast(regVar[chan], chunk)]
      /\ UNCHANGED <<sig, pos, regFixed, memFixed, strings, fpages, chan, processed, newList>>
  BY DEF MoveVariable, request, numbering
<1>2. pos = Len(sig.params) /\ processed = <<>> /\ chan \in Channel
  BY <1>1 DEF ConservedInv, TypeOK
<1>3. memVar[chan] \in Seq(SizedChunk) /\ regVar[chan] \in Seq(SizedChunk)
  BY DEF TypeOK
<1>4. cursor \in 1 .. Len(memVar[chan])
  BY <1>1, <1>3 DEF TypeOK
<1>5. chunk \in SizedChunk
  BY <1>3, <1>4
<1> HIDE DEF chunk
<1>6. ASSUME NEW c \in Channel, NEW key \in DataKey  PROVE Total(c, key)' = Total(c, key)
  <2>1. /\ Copies(regFixed'[c], key) = Copies(regFixed[c], key)
        /\ Copies(memFixed'[c], key) = Copies(memFixed[c], key)
        /\ Copies(strings'[c], key) = Copies(strings[c], key)
        /\ Copies(fpages'[c], key) = Copies(fpages[c], key)
        /\ Moving(c, key)' = Moving(c, key) /\ Tagged(c, key)' = Tagged(c, key)
    BY <1>1 DEF Tagged, Moving
  <2>2. CASE c # chan
    <3>1. memVar'[c] = memVar[c] /\ regVar'[c] = regVar[c]
      BY <1>1, <2>2 DEF TypeOK
    <3> QED BY <2>1, <3>1 DEF Total, Listed
  <2>3. CASE c = chan
    <3> DEFINE rest == RemoveElement(memVar[chan], cursor)
               n == Counts(chunk, key)
               v == Copies(regVar[c], key)
               w == Copies(rest, key)
               r == Copies(regFixed[c], key)
               m == Copies(memFixed[c], key)
               s == Copies(strings[c], key)
               f == Copies(fpages[c], key)
               h == Moving(c, key)
               t == Tagged(c, key)
    <3>1. memVar'[c] = rest /\ regVar'[c] = AddLast(regVar[chan], chunk)
      BY <1>1, <2>3 DEF TypeOK
    <3>2. w \in Nat /\ Copies(memVar[c], key) = w + n
      BY <1>3, <1>4, <2>3, CopiesWithout DEF chunk
    <3>3. Copies(regVar'[c], key) = v + n
      BY <1>3, <1>5, <2>3, <3>1, CopiesAppended
    <3>4. n \in Nat
      BY DEF Counts
    <3>5. r \in Nat /\ m \in Nat /\ v \in Nat /\ s \in Nat /\ f \in Nat /\ h \in Nat /\ t \in Nat
      BY TotalType
    <3>6. Copies(memVar'[c], key) = w
      BY <3>1
    <3>7. /\ Total(c, key) = (r + m + v + (w + n) + s + f) + h + t
          /\ Total(c, key)' = (r + m + (v + n) + w + s + f) + h + t
      BY <2>1, <3>2, <3>3, <3>6 DEF Total, Listed
    <3> HIDE DEF rest, n, v, w, r, m, s, f, h, t
    <3> QED BY <3>2, <3>4, <3>5, <3>7
  <2> QED BY <2>2, <2>3
<1>7. processed' = <<>>
  BY <1>1, <1>2
<1> QED BY <1>1, <1>2, <1>6, <1>7, ConservedStep

(* A shared buffer is no data.                                             *)
LEMMA CopiesWithBuffer ==
  ASSUME NEW list \in Seq(SizedChunk), NEW varbuf \in SizedChunk, varbuf.part = "varbuf",
         NEW key \in DataKey
  PROVE  Copies(LaidOut(AddWithPrio(list, varbuf, 99)), key) = Copies(list, key)
<1> DEFINE added == AddWithPrio(list, varbuf, 99)
<1>1. added \in Seq(SizedChunk)
  BY AddChunkType, Zenon DEF SizedChunk
<1> HIDE DEF added
<1>2. Copies(added, key) = Copies(list, key) + Counts(varbuf, key)
  <2>1. list \in Seq(ChunkOf(Nat)) /\ varbuf \in ChunkOf(Nat) /\ 99 \in Nat
    BY DEF SizedChunk
  <2> QED BY <2>1, CopiesAdded, ZenonT(60) DEF added
<1>3. Counts(varbuf, key) = 0 /\ Copies(list, key) \in Nat
  BY NotData, CopiesType
<1>4. Copies(LaidOut(added), key) = Copies(added, key)
  BY <1>1, CopiesLaidOut
<1> QED BY <1>2, <1>3, <1>4 DEF added

(* The registers get a shared buffer.                                      *)
LEMMA ConservedRegisterBuffer ==
  ASSUME TypeOK, KernelTypeOK, ConservedInv, AddRegisterBuffer, UNCHANGED special
  PROVE  ConservedInv'
<1> DEFINE varbuf == NewChunk(chunkID + 1, "varbuf", oldRemaining - remaining, W, {chan}, TRUE)
           laid == LaidOut(AddWithPrio(regFixed[chan], varbuf, 99))
<1>1. /\ phase = "layout" /\ remaining < oldRemaining
      /\ phase' \in {"memory", "varbuf_overflow"}
      /\ regFixed' = [regFixed EXCEPT ![chan] = laid]
      /\ UNCHANGED <<sig, pos, regVar, memFixed, memVar, strings, fpages, chan, processed, newList>>
  BY DEF AddRegisterBuffer, request, loop, numbering
<1>2. /\ pos = Len(sig.params) /\ processed = <<>> /\ chan \in Channel
      /\ regFixed[chan] \in Seq(SizedChunk)
  BY <1>1 DEF ConservedInv, TypeOK
<1>3. varbuf \in SizedChunk /\ varbuf.part = "varbuf"
  <2>1. /\ chunkID + 1 \in Nat /\ "varbuf" \in Parts /\ oldRemaining - remaining \in Nat
        /\ W \in Nat \ {0} /\ {chan} \in SUBSET Channel /\ TRUE \in BOOLEAN
    BY <1>1, <1>2, ConnectionAssumption DEF TypeOK, Parts
  <2>2. varbuf.part = "varbuf"
    BY DEF NewChunk
  <2> QED BY <2>1, <2>2, NewChunkType, Zenon DEF SizedChunk
<1> HIDE DEF varbuf
<1>4. ASSUME NEW c \in Channel, NEW key \in DataKey  PROVE Total(c, key)' = Total(c, key)
  <2>1. Copies(laid, key) = Copies(regFixed[chan], key)
    BY <1>2, <1>3, CopiesWithBuffer
  <2> HIDE DEF laid
  <2>2. regFixed'[c] = IF c = chan THEN laid ELSE regFixed[c]
    BY <1>1 DEF TypeOK
  <2>3. Copies(regFixed'[c], key) = Copies(regFixed[c], key)
    BY <2>1, <2>2
  <2>4. /\ Copies(memFixed'[c], key) = Copies(memFixed[c], key)
        /\ Copies(regVar'[c], key) = Copies(regVar[c], key)
        /\ Copies(memVar'[c], key) = Copies(memVar[c], key)
        /\ Copies(strings'[c], key) = Copies(strings[c], key)
        /\ Copies(fpages'[c], key) = Copies(fpages[c], key)
        /\ Moving(c, key)' = Moving(c, key) /\ Tagged(c, key)' = Tagged(c, key)
    BY <1>1 DEF Moving, Tagged
  <2> QED BY <2>3, <2>4 DEF Total, Listed
<1>5. processed' = <<>>
  BY <1>1, <1>2
<1> QED BY <1>1, <1>2, <1>4, <1>5, ConservedStep

(* The memory message is laid out, and the map items numbered.             *)
LEMMA ConservedMemory ==
  ASSUME TypeOK, KernelTypeOK, BudgetInv, ConservedInv, LayoutMemory, UNCHANGED special
  PROVE  ConservedInv'
<1> DEFINE bytes == VarBytes(memVar[chan])
           varbuf == NewChunk(chunkID + 1, "varbuf", bytes, W, {chan}, FALSE)
           filled == IF bytes > 0 THEN AddWithPrio(memFixed[chan], varbuf, 99) ELSE memFixed[chan]
<1>1. /\ phase = "memory" /\ phase' \in {"budget", "collect"}
      /\ memFixed' = [memFixed EXCEPT ![chan] = LaidOut(filled)]
      /\ fpages' = [fpages EXCEPT ![chan] = Numbered(fpages[chan])]
      /\ UNCHANGED <<sig, pos, regFixed, regVar, memVar, strings, processed, newList>>
  BY DEF LayoutMemory, Advance, request, loop, numbering
<1>2. /\ pos = Len(sig.params) /\ processed = <<>> /\ newList = <<>> /\ chan \in Channel
      /\ memFixed[chan] \in Seq(SizedChunk) /\ fpages[chan] \in Seq(SizedChunk)
  BY <1>1 DEF ConservedInv, BudgetInv, TypeOK
<1>3. varbuf \in SizedChunk /\ varbuf.part = "varbuf"
  <2>1. bytes \in Nat
    BY VarBytesType DEF TypeOK
  <2>2. varbuf.part = "varbuf"
    BY DEF NewChunk
  <2> HIDE DEF bytes
  <2>3. /\ chunkID + 1 \in Nat /\ "varbuf" \in Parts
        /\ W \in Nat \ {0} /\ {chan} \in SUBSET Channel /\ FALSE \in BOOLEAN
    BY <1>2, ConnectionAssumption DEF TypeOK, Parts
  <2> QED BY <2>1, <2>2, <2>3, NewChunkType, Zenon DEF SizedChunk
<1> HIDE DEF varbuf, bytes
<1>4. ASSUME NEW c \in Channel, NEW key \in DataKey  PROVE Total(c, key)' = Total(c, key)
  <2>1. Copies(LaidOut(filled), key) = Copies(memFixed[chan], key)
    <3>1. CASE bytes > 0
      BY <1>2, <1>3, <3>1, CopiesWithBuffer
    <3>2. CASE ~(bytes > 0)
      BY <1>2, <3>2, CopiesLaidOut
    <3> QED BY <3>1, <3>2
  <2>2. Copies(Numbered(fpages[chan]), key) = Copies(fpages[chan], key)
    BY <1>2, CopiesNumbered DEF SizedChunk
  <2> HIDE DEF filled
  <2>3. /\ memFixed'[c] = IF c = chan THEN LaidOut(filled) ELSE memFixed[c]
        /\ fpages'[c] = IF c = chan THEN Numbered(fpages[chan]) ELSE fpages[c]
    BY <1>1 DEF TypeOK
  <2>4. /\ Copies(memFixed'[c], key) = Copies(memFixed[c], key)
        /\ Copies(fpages'[c], key) = Copies(fpages[c], key)
    BY <2>1, <2>2, <2>3
  <2>5. /\ Copies(regFixed'[c], key) = Copies(regFixed[c], key)
        /\ Copies(regVar'[c], key) = Copies(regVar[c], key)
        /\ Copies(memVar'[c], key) = Copies(memVar[c], key)
        /\ Copies(strings'[c], key) = Copies(strings[c], key)
        /\ Tagged(c, key)' = Tagged(c, key)
    BY <1>1 DEF Tagged
  <2>6. Moving(c, key) = 0 /\ Moving(c, key)' = 0
    BY <1>1, <1>2, CopiesOfNothing DEF Moving
  <2> QED BY <2>4, <2>5, <2>6 DEF Total, Listed
<1>5. processed' = <<>>
  BY <1>1, <1>2
<1> QED BY <1>1, <1>2, <1>4, <1>5, ConservedStep

(* A string goes to the list of the renumbered.                            *)
LEMMA ConservedNumberString ==
  ASSUME TypeOK, KernelTypeOK, ConservedInv, NumberString, UNCHANGED special
  PROVE  ConservedInv'
<1>1. PICK chunk \in AnyChunk, index \in Nat, rest \in Seq(AnyChunk) :
           /\ chunk = Head(strings[chan]) /\ rest = Tail(strings[chan])
           /\ index = WalkTo(buffers, chunk.id)
           /\ strings[chan] \in Seq(AnyChunk) /\ strings[chan] # <<>>
           /\ strings' = [strings EXCEPT ![chan] = rest]
           /\ newList' = AddWithPrio(newList, Buffer(chunk, index), index)
           /\ phase = "number" /\ UNCHANGED <<phase, request, chunkID, chan, buffers>>
  BY NumberedString
<1>2. UNCHANGED <<regFixed, regVar, memFixed, memVar, fpages, processed, sig, pos>>
  BY <1>1 DEF NumberString, loop, request
<1>3. /\ pos = Len(sig.params) /\ processed = <<>> /\ newList \in Seq(AnyChunk) /\ chan \in Channel
  BY <1>1 DEF ConservedInv, TypeOK
<1> DEFINE given == Buffer(chunk, index)
<1>4. given \in AnyChunk /\ Key(given) = Key(chunk)
  <2>1. index \in Int
    OBVIOUS
  <2>2. Key([chunk EXCEPT !.buf = index]) = Key(chunk)
    BY <2>1, KeyKept, Zenon DEF AnyChunk
  <2> QED BY <2>2, BufferGiven, Zenon DEF Buffer
<1>5. newList' = AddWithPrio(newList, given, index)
  BY <1>1
<1> HIDE DEF given
<1>6. ASSUME NEW c \in Channel, NEW key \in DataKey  PROVE Total(c, key)' = Total(c, key)
  <2>1. /\ Copies(regFixed'[c], key) = Copies(regFixed[c], key)
        /\ Copies(regVar'[c], key) = Copies(regVar[c], key)
        /\ Copies(memFixed'[c], key) = Copies(memFixed[c], key)
        /\ Copies(memVar'[c], key) = Copies(memVar[c], key)
        /\ Copies(fpages'[c], key) = Copies(fpages[c], key)
        /\ Tagged(c, key)' = Tagged(c, key)
    BY <1>2 DEF Tagged
  <2>2. strings'[c] = IF c = chan THEN rest ELSE strings[c]
    BY <1>1 DEF TypeOK
  <2>3. CASE c # chan
    <3>1. Moving(c, key)' = Moving(c, key)
      BY <1>1, <2>3 DEF Moving
    <3> QED BY <2>1, <2>2, <2>3, <3>1 DEF Total, Listed
  <2>4. CASE c = chan
    <3> DEFINE n == Counts(chunk, key)
               w == Copies(rest, key)
               l == Copies(newList, key)
               r == Copies(regFixed[c], key)
               m == Copies(memFixed[c], key)
               v == Copies(regVar[c], key)
               x == Copies(memVar[c], key)
               f == Copies(fpages[c], key)
               t == Tagged(c, key)
    <3>1. w \in Nat /\ Copies(strings[c], key) = w + n
      BY <1>1, <2>4, CopiesBehindHead
    <3>2. Copies(strings'[c], key) = w
      BY <2>2, <2>4
    <3>3. Copies(AddWithPrio(newList, given, index), key) = l + Counts(given, key)
      BY <1>3, <1>4, CopiesAdded DEF AnyChunk
    <3>4. Counts(given, key) = n
      BY <1>4 DEF Counts
    <3>5. Copies(newList', key) = l + n
      BY <1>5, <3>3, <3>4
    <3>6. Copies(processed, key) = 0 /\ Copies(processed', key) = 0
      BY <1>2, <1>3, CopiesOfNothing
    <3>7. Moving(c, key) = 0 + l /\ Moving(c, key)' = 0 + (l + n)
      BY <1>1, <2>4, <3>5, <3>6 DEF Moving
    <3>8. n \in Nat
      BY DEF Counts
    <3>9. l \in Nat /\ r \in Nat /\ m \in Nat /\ v \in Nat /\ x \in Nat /\ f \in Nat /\ t \in Nat
      BY TotalType
    <3>10. /\ Total(c, key) = (r + m + v + x + (w + n) + f) + (0 + l) + t
           /\ Total(c, key)' = (r + m + v + x + w + f) + (0 + (l + n)) + t
      BY <2>1, <3>1, <3>2, <3>7 DEF Total, Listed
    <3> HIDE DEF n, w, l, r, m, v, x, f, t
    <3> QED BY <3>1, <3>8, <3>9, <3>10
  <2> QED BY <2>3, <2>4
<1>7. processed' = <<>> /\ phase' = "number"
  BY <1>1, <1>2, <1>3
<1> QED BY <1>2, <1>3, <1>6, <1>7, ConservedStep

(* The renumbered strings become those of the channel.                     *)
LEMMA ConservedNumberNext ==
  ASSUME TypeOK, KernelTypeOK, ConservedInv, NumberNextChannel, UNCHANGED special
  PROVE  ConservedInv'
<1>1. /\ phase = "number" /\ phase' \in {"number", "done"} /\ strings[chan] = <<>>
      /\ strings' = [strings EXCEPT ![chan] = Numbered(newList)]
      /\ newList' = <<>>
      /\ UNCHANGED <<sig, pos, regFixed, regVar, memFixed, memVar, fpages, processed>>
  BY DEF NumberNextChannel, Advance, request, loop
<1>2. /\ pos = Len(sig.params) /\ processed = <<>> /\ newList \in Seq(AnyChunk) /\ chan \in Channel
  BY <1>1 DEF ConservedInv, TypeOK
<1>3. ASSUME NEW c \in Channel, NEW key \in DataKey  PROVE Total(c, key)' = Total(c, key)
  <2>1. /\ Copies(regFixed'[c], key) = Copies(regFixed[c], key)
        /\ Copies(regVar'[c], key) = Copies(regVar[c], key)
        /\ Copies(memFixed'[c], key) = Copies(memFixed[c], key)
        /\ Copies(memVar'[c], key) = Copies(memVar[c], key)
        /\ Copies(fpages'[c], key) = Copies(fpages[c], key)
        /\ Tagged(c, key)' = Tagged(c, key)
    BY <1>1 DEF Tagged
  <2>2. strings'[c] = IF c = chan THEN Numbered(newList) ELSE strings[c]
    BY <1>1 DEF TypeOK
  <2>3. Moving(c, key)' = 0
    BY <1>1, <1>2, CopiesOfNothing DEF Moving
  <2>4. CASE c # chan
    <3>1. Moving(c, key) = 0
      BY <2>4 DEF Moving
    <3> QED BY <2>1, <2>2, <2>3, <2>4, <3>1 DEF Total, Listed
  <2>5. CASE c = chan
    <3> DEFINE l == Copies(newList, key)
               r == Copies(regFixed[c], key)
               m == Copies(memFixed[c], key)
               v == Copies(regVar[c], key)
               x == Copies(memVar[c], key)
               f == Copies(fpages[c], key)
               t == Tagged(c, key)
    <3>1. Copies(Numbered(newList), key) = l
      BY <1>2, CopiesNumbered DEF AnyChunk
    <3>2. Copies(strings'[c], key) = l
      BY <2>2, <2>5, <3>1
    <3>3. Copies(strings[c], key) = 0 /\ Copies(processed, key) = 0
      BY <1>1, <1>2, <2>5, CopiesOfNothing
    <3>4. Moving(c, key) = 0 + l
      BY <2>5, <3>3 DEF Moving
    <3>5. l \in Nat /\ r \in Nat /\ m \in Nat /\ v \in Nat /\ x \in Nat /\ f \in Nat /\ t \in Nat
      BY TotalType
    <3>6. /\ Total(c, key) = (r + m + v + x + 0 + f) + (0 + l) + t
          /\ Total(c, key)' = (r + m + v + x + l + f) + 0 + t
      BY <2>1, <2>3, <3>2, <3>3, <3>4 DEF Total, Listed
    <3> HIDE DEF l, r, m, v, x, f, t
    <3> QED BY <3>5, <3>6
  <2> QED BY <2>4, <2>5
<1>4. processed' = <<>>
  BY <1>1, <1>2
<1> QED BY <1>1, <1>2, <1>3, <1>4, ConservedStep

(* The other steps move nothing.                                           *)
LEMMA ConservedQuiet ==
  ASSUME TypeOK, KernelTypeOK, BudgetInv, ConservedInv, UNCHANGED special,
         \/ BeginChannel \/ TooManyItems \/ PassVariable \/ EndVariablePass \/ NoRegisterBuffer
         \/ CollectBuffer \/ CollectNextChannel
  PROVE  ConservedInv'
<1>1. /\ UNCHANGED <<lists, newList, sig, pos>>
      /\ phase \in {"budget", "variable", "layout", "collect"}
      /\ phase' \notin {"options", "marshal"}
      /\ phase' # "fixed" => processed' = processed
      /\ chan' = chan \/ phase = "collect"
  BY DEF BeginChannel, TooManyItems, PassVariable, EndVariablePass, NoRegisterBuffer,
         CollectBuffer, CollectNextChannel, Advance, request, loop, numbering
<1>2. /\ pos = Len(sig.params) /\ processed = <<>> /\ newList = <<>>
  BY <1>1 DEF ConservedInv, BudgetInv
<1>3. processed' = <<>>
  BY <1>2 DEF BeginChannel, TooManyItems, PassVariable, EndVariablePass, NoRegisterBuffer,
         CollectBuffer, CollectNextChannel, loop
<1>4. \A c, key : Total(c, key)' = Total(c, key)
  BY <1>1, <1>2, <1>3, TotalQuiet
<1> QED BY <1>1, <1>2, <1>3, <1>4, ConservedStep

(* The access rights go to the tag; otherwise the comparison only decides. *)
LEMMA ConservedCompare ==
  ASSUME KernelInv, ConservedInv, Compare
  PROVE  ConservedInv'
<1>1. /\ TypeOK /\ KernelTypeOK /\ CHANNEL_IN \in Channel
      /\ memFixed[CHANNEL_IN] \in Seq(SizedChunk) /\ special \in Seq(SizedChunk)
  BY ChannelType DEF KernelInv, KernelTypeOK, TypeOK
<1>2. /\ phase = "marshal" /\ phase' \in {"marshal", "malformed"} /\ pos = Len(sig.params)
      /\ UNCHANGED <<sig, pos, chunkID, regFixed, regVar, memVar, strings, fpages,
                     chan, processed, newList>>
  BY DEF Compare, OrdinaryOperation, AcceptPagefault, AcceptOther, Refuse, ComparingKernelMessage,
         Comparing, request, loop, numbering
<1>3. processed' = <<>> /\ chunkID' = First + pos
  BY <1>2 DEF ConservedInv
<1>4. CASE UNCHANGED <<memFixed, special>>
  <2>1. lists' = lists
    BY <1>2, <1>4 DEF lists
  <2>2. \A c, key : Total(c, key)' = Total(c, key)
    BY <1>2, <1>4, <2>1, TotalQuiet
  <2> QED BY <1>1, <1>2, <1>3, <2>2, ConservedStep
<1>5. ASSUME PagefaultForm, TakePrivileges  PROVE ConservedInv'
  <2>1. /\ Len(memFixed[CHANNEL_IN]) = 3
        /\ special' = AddLast(special, memFixed[CHANNEL_IN][3])
        /\ memFixed' = [memFixed EXCEPT ![CHANNEL_IN] = RemoveElement(memFixed[CHANNEL_IN], 3)]
    BY <1>5 DEF PagefaultForm, TakePrivileges, Args
  <2> DEFINE args == memFixed[CHANNEL_IN]
             rest == RemoveElement(args, 3)
  <2>2. 3 \in 1 .. Len(args) /\ args[3] \in SizedChunk
    BY <1>1, <2>1
  <2>3. ASSUME NEW c \in Channel, NEW key \in DataKey  PROVE Total(c, key)' = Total(c, key)
    <3>1. /\ Copies(regFixed'[c], key) = Copies(regFixed[c], key)
          /\ Copies(regVar'[c], key) = Copies(regVar[c], key)
          /\ Copies(memVar'[c], key) = Copies(memVar[c], key)
          /\ Copies(strings'[c], key) = Copies(strings[c], key)
          /\ Copies(fpages'[c], key) = Copies(fpages[c], key)
          /\ Moving(c, key)' = Moving(c, key)
      BY <1>2 DEF Moving
    <3>2. memFixed'[c] = IF c = CHANNEL_IN THEN rest ELSE memFixed[c]
      BY <1>1, <2>1 DEF TypeOK
    <3>3. CASE c # CHANNEL_IN
      <4>1. Tagged(c, key)' = Tagged(c, key)
        BY <3>3 DEF Tagged
      <4> QED BY <3>1, <3>2, <3>3, <4>1 DEF Total, Listed
    <3>4. CASE c = CHANNEL_IN
      <4> DEFINE n == Counts(args[3], key)
                 w == Copies(rest, key)
                 l == Copies(special, key)
                 r == Copies(regFixed[c], key)
                 v == Copies(regVar[c], key)
                 x == Copies(memVar[c], key)
                 s == Copies(strings[c], key)
                 f == Copies(fpages[c], key)
                 h == Moving(c, key)
      <4>1. w \in Nat /\ Copies(args, key) = w + n
        BY <1>1, <2>2, CopiesWithout
      <4>2. Copies(special', key) = l + n
        BY <1>1, <2>1, <2>2, CopiesAppended
      <4>3. Copies(memFixed'[c], key) = w /\ Copies(memFixed[c], key) = w + n
        BY <3>2, <3>4, <4>1
      <4>4. Tagged(c, key) = l /\ Tagged(c, key)' = l + n
        BY <3>4, <4>2 DEF Tagged
      <4>5. n \in Nat
        BY DEF Counts
      <4>6. l \in Nat /\ r \in Nat /\ v \in Nat /\ x \in Nat /\ s \in Nat /\ f \in Nat /\ h \in Nat
        BY <1>1, TotalType
      <4>7. /\ Total(c, key) = (r + (w + n) + v + x + s + f) + h + l
            /\ Total(c, key)' = (r + w + v + x + s + f) + h + (l + n)
        BY <3>1, <4>3, <4>4 DEF Total, Listed
      <4> HIDE DEF n, w, l, r, v, x, s, f, h
      <4> QED BY <4>1, <4>5, <4>6, <4>7
    <3> QED BY <3>3, <3>4
  <2> QED BY <1>1, <1>2, <1>3, <2>3, ConservedStep
<1>6. UNCHANGED <<memFixed, special>> \/ (PagefaultForm /\ TakePrivileges)
  BY DEF Compare, OrdinaryOperation, AcceptPagefault, AcceptOther, Refuse
<1> QED BY <1>4, <1>5, <1>6

(* Nothing happens.                                                        *)
LEMMA ConservedStutter ==
  ASSUME TypeOK, KernelTypeOK, ConservedInv, UNCHANGED <<vars, kernelVars>>
  PROVE  ConservedInv'
<1>1. UNCHANGED <<lists, processed, newList, special, chan, sig, pos, chunkID, phase>>
  BY DEF vars, kernelVars, request, loop, numbering
<1>2. \A c, key : Total(c, key)' = Total(c, key)
  BY <1>1, TotalQuiet
<1>3. /\ phase' # "fixed" => processed' = <<>>
      /\ phase' = "marshal" => chunkID' = First + pos
      /\ phase' \notin {"options", "marshal"} => pos = Len(sig.params)
  BY <1>1 DEF ConservedInv
<1> QED BY <1>1, <1>2, <1>3, ConservedStep

(* No step loses a chunk or makes another of it.                           *)
LEMMA ConservedNext ==
  KernelInv /\ MessageInv /\ ConservedInv /\ [KernelNext]_<<vars, kernelVars>> => ConservedInv'
<1> SUFFICES ASSUME KernelInv, MessageInv, ConservedInv, [KernelNext]_<<vars, kernelVars>>
             PROVE  ConservedInv'
  OBVIOUS
<1>1. TypeOK /\ KernelTypeOK /\ BudgetInv /\ StringsInv
  BY DEF KernelInv, MessageInv, NumberingInv
<1>2. CASE Compare
  BY <1>2, ConservedCompare
<1>3. CASE UNCHANGED <<vars, kernelVars>>
  BY <1>1, <1>3, ConservedStutter
<1>4. CASE Finished /\ UNCHANGED kernelVars
  BY <1>1, <1>4, ConservedStutter DEF Finished
<1>5. CASE (Marshal \/ Distribute) /\ UNCHANGED kernelVars
  <2>1. UNCHANGED special
    BY <1>5 DEF kernelVars
  <2>2. CASE Marshal
    BY <1>1, <2>1, <2>2, ConservedMarshal
  <2>3. CASE AddTags
    BY <1>1, <2>1, <2>3, ConservedTags
  <2>4. CASE PackChannel
    <3>1. CASE TakeFixed
      BY <1>1, <2>1, <3>1, ConservedTake
    <3>2. CASE PutBackFixed
      BY <1>1, <2>1, <3>2, ConservedPutBack
    <3>3. CASE SkipFixed
      BY <1>1, <2>1, <3>3, ConservedSkip
    <3>4. CASE EndFixedPass
      BY <1>1, <2>1, <3>4, ConservedEndFixed
    <3>5. CASE MoveVariable
      BY <1>1, <2>1, <3>5, ConservedMove
    <3>6. CASE AddRegisterBuffer
      BY <1>1, <2>1, <3>6, ConservedRegisterBuffer
    <3>7. CASE LayoutMemory
      BY <1>1, <2>1, <3>7, ConservedMemory
    <3>8. CASE BeginChannel \/ TooManyItems \/ PassVariable \/ EndVariablePass \/ NoRegisterBuffer
      BY <1>1, <2>1, <3>8, ConservedQuiet
    <3> QED BY <2>4, <3>1, <3>2, <3>3, <3>4, <3>5, <3>6, <3>7, <3>8 DEF PackChannel
  <2>5. CASE NumberBuffers
    <3>1. CASE CollectBuffer \/ CollectNextChannel
      BY <1>1, <2>1, <3>1, ConservedQuiet
    <3>2. CASE NumberString
      BY <1>1, <2>1, <3>2, ConservedNumberString
    <3>3. CASE NumberNextChannel
      BY <1>1, <2>1, <3>3, ConservedNumberNext
    <3> QED BY <2>5, <3>1, <3>2, <3>3 DEF NumberBuffers
  <2> QED BY <1>5, <2>2, <2>3, <2>4, <2>5 DEF Distribute
<1> QED BY <1>2, <1>3, <1>4, <1>5 DEF KernelNext, KernelStep

(* What a channel holds is what its lists, the loops and the tag hold.     *)
LEMMA HeldTotal ==
  ASSUME TypeOK, KernelTypeOK, NEW c \in Channel, NEW key
  PROVE  LET elsewhere == IF c = CHANNEL_IN THEN special ELSE <<>>
         IN  /\ Held(c) \o elsewhere \in Seq(AnyChunk)
             /\ Copies(Held(c) \o elsewhere, key) = Total(c, key)
<1> DEFINE elsewhere == IF c = CHANNEL_IN THEN special ELSE <<>>
           moving == IF c = chan THEN processed \o newList ELSE <<>>
<1>1. \A list : list \in Seq(SizedChunk) => list \in Seq(AnyChunk)
  BY SizedIsAny DEF SizedChunk
<1>2. <<>> \in Seq(AnyChunk) /\ \A k : Copies(<<>>, k) = 0
  BY CopiesOfNothing
<1>3. /\ regFixed[c] \in Seq(AnyChunk) /\ memFixed[c] \in Seq(AnyChunk) /\ regVar[c] \in Seq(AnyChunk)
      /\ memVar[c] \in Seq(AnyChunk) /\ strings[c] \in Seq(AnyChunk) /\ fpages[c] \in Seq(AnyChunk)
      /\ processed \in Seq(AnyChunk) /\ newList \in Seq(AnyChunk) /\ special \in Seq(AnyChunk)
  BY <1>1 DEF TypeOK, KernelTypeOK
<1>4. \A s, t \in Seq(AnyChunk) : s \o t \in Seq(AnyChunk) /\ Copies(s \o t, key) = Copies(s, key) + Copies(t, key)
  BY ConcatElements, CopiesOfBoth
<1>5. moving \in Seq(AnyChunk) /\ Copies(moving, key) = Moving(c, key)
  BY <1>2, <1>3, <1>4 DEF Moving
<1>6. elsewhere \in Seq(AnyChunk) /\ Copies(elsewhere, key) = Tagged(c, key)
  BY <1>2, <1>3 DEF Tagged
<1> HIDE DEF moving, elsewhere
<1> DEFINE l1 == regFixed[c] \o memFixed[c]
           l2 == l1 \o regVar[c]
           l3 == l2 \o memVar[c]
           l4 == l3 \o strings[c]
           l5 == l4 \o fpages[c]
           l6 == l5 \o moving
<1>7. l1 \in Seq(AnyChunk) /\ Copies(l1, key) = Copies(regFixed[c], key) + Copies(memFixed[c], key)
  BY <1>3, <1>4
<1> HIDE DEF l1
<1>8. l2 \in Seq(AnyChunk) /\ Copies(l2, key) = Copies(l1, key) + Copies(regVar[c], key)
  BY <1>3, <1>4, <1>7
<1> HIDE DEF l2
<1>9. l3 \in Seq(AnyChunk) /\ Copies(l3, key) = Copies(l2, key) + Copies(memVar[c], key)
  BY <1>3, <1>4, <1>8
<1> HIDE DEF l3
<1>10. l4 \in Seq(AnyChunk) /\ Copies(l4, key) = Copies(l3, key) + Copies(strings[c], key)
  BY <1>3, <1>4, <1>9
<1> HIDE DEF l4
<1>11. l5 \in Seq(AnyChunk) /\ Copies(l5, key) = Copies(l4, key) + Copies(fpages[c], key)
  BY <1>3, <1>4, <1>10
<1> HIDE DEF l5
<1>12. l6 \in Seq(AnyChunk) /\ Copies(l6, key) = Copies(l5, key) + Moving(c, key)
  BY <1>4, <1>5, <1>11
<1> HIDE DEF l6
<1>13. l6 \o elsewhere \in Seq(AnyChunk) /\ Copies(l6 \o elsewhere, key) = Copies(l6, key) + Tagged(c, key)
  BY <1>4, <1>6, <1>12
<1>14. Held(c) = l6
  BY DEF Held, l1, l2, l3, l4, l5, l6, moving
<1>15. Copies(l6, key) = Listed(c, key) + Moving(c, key)
  BY <1>7, <1>8, <1>9, <1>10, <1>11, <1>12 DEF Listed
<1> QED BY <1>13, <1>14, <1>15 DEF Total, elsewhere

(* So every channel holds what was requested, and holds it once.           *)
LEMMA ConservedHeld == TypeOK /\ KernelTypeOK /\ ConservedInv => ChunksConserved
<1> SUFFICES ASSUME TypeOK, KernelTypeOK, ConservedInv, phase \notin {"options", "marshal"},
                    NEW c \in Channel
             PROVE  HeldOnce(c, IF c = CHANNEL_IN THEN special ELSE <<>>)
  BY DEF ChunksConserved
<1> DEFINE all == Held(c) \o (IF c = CHANNEL_IN THEN special ELSE <<>>)
<1>1. all \in Seq(AnyChunk) /\ \A key : Copies(all, key) = Total(c, key)
  BY HeldTotal
<1> HIDE DEF all
<1>2. \A key \in DataKey : Copies(all, key) = IF key \in Requested(c) THEN 1 ELSE 0
  BY <1>1, DemandedInTheEnd DEF ConservedInv
<1>3. ASSUME NEW i \in DOMAIN all, all[i].part \notin {"tag", "varbuf"}
      PROVE  Key(all[i]) \in Requested(c)
  <2>1. all[i] \in AnyChunk
    BY <1>1
  <2>2. all[i].id \in Nat /\ all[i].part \in Parts
    BY <2>1 DEF AnyChunk, ChunkOf
  <2>3. Key(all[i]) \in DataKey
    BY <1>3, <2>2 DEF Key, DataKey
  <2>4. Copies(all, Key(all[i])) # 0
    BY <1>1, CopiesType
  <2> QED BY <1>2, <2>3, <2>4
<1>4. ASSUME NEW key \in Requested(c)  PROVE Copies(all, key) = 1
  <2>1. key \in DataKey
    <3>1. sig.params \in Seq(Parameter)
      BY DEF TypeOK, Signature
    <3>2. PICK k \in DOMAIN sig.params : \E part \in PartsOf(sig.params[k]) : key = <<First + k, part>>
      BY DEF Requested, First
    <3>3. k \in Nat /\ sig.params[k] \in Parameter
      BY <3>1
    <3>4. sig.params[k].kind \in {"fixed", "string", "bounded", "fpage"}
      BY <3>3 DEF Parameter
    <3>5. PartsOf(sig.params[k]) \subseteq Parts \ {"tag", "varbuf"}
      BY <3>4 DEF PartsOf, Parts
    <3>6. First + k \in Nat
      BY <3>3 DEF First
    <3> QED BY <3>2, <3>5, <3>6 DEF DataKey
  <2> QED BY <1>2, <2>1
<1> QED BY <1>3, <1>4 DEF HeldOnce, all

(* It is an invariant of the connection with kernel messages.              *)
LEMMA ConservedInvariant == KernelSpec => []ConservedInv
  BY ConservedInit, ConservedNext, KernelInvariant, MessageKernelInvariant, PTL DEF KernelSpec

-----------------------------------------------------------------------------
(* Results                                                                 *)

(* The message tag announces the typed items at the word where the struct  *)
(* has them (clientcall.cc 3-18, compared at ms.cc 1327-1357), unless a    *)
(* fixed chunk was left behind for the memory message, and even then it    *)
(* cuts off no word of the chunks in registers; with and without kernel    *)
(* messages, for any word size and any operation.                          *)
THEOREM TypedItemsFound ==
  (Spec => []TypedItemsWhereAnnounced) /\ (KernelSpec => []TypedItemsWhereAnnounced)
<1>1. MessageInv => TypedItemsWhereAnnounced
  BY PlacedSuffices DEF MessageInv
<1> QED BY <1>1, MessageInvariant, MessageKernelInvariant, PTL

(* Each _varbuf holds all variable chunks that share it (vcc.cc 39-56,     *)
(* 68-85), with and without kernel messages.                               *)
THEOREM VariablesFit == (Spec => []VarbufsSuffice) /\ (KernelSpec => []VarbufsSuffice)
<1>1. MessageInv => VarbufsSuffice
  BY VarbufHolds DEF MessageInv
<1> QED BY <1>1, MessageInvariant, MessageKernelInvariant, PTL

(* The receive buffer the kernel fills with a string is the one from which *)
(* the stub reads it (vcc.cc 143-194), unless a memory message is in the   *)
(* way.                                                                    *)
THEOREM ReceiveBuffersMatch == KernelSpec => []StringsArriveWhereRead
<1>1. MessageInv => StringsArriveWhereRead
  BY ArriveWhereRead DEF MessageInv
<1> QED BY <1>1, MessageKernelInvariant, PTL

(* On the server different parameters use different string buffers, both   *)
(* directions of one parameter the same, and the server loop allocates     *)
(* them all (serverloop.cc 20).                                            *)
THEOREM StringBuffersSeparate == KernelSpec => []BuffersNotShared
<1>1. MessageInv => BuffersNotShared
  BY NotShared DEF MessageInv
<1> QED BY <1>1, MessageKernelInvariant, PTL

(* From the end of marshalling on, every channel holds each chunk its      *)
(* parameters asked for exactly once and no other: what the put-back and   *)
(* merge of the packing move around (optimizer.cc 296-370), what the       *)
(* numbering sorts and what a fault's tag takes is never lost or doubled.  *)
THEOREM NoChunkLost == KernelSpec => []ChunksConserved
<1>1. KernelInv /\ ConservedInv => ChunksConserved
  BY ConservedHeld DEF KernelInv
<1> QED BY <1>1, KernelInvariant, ConservedInvariant, PTL
=============================================================================
