---------------------------- MODULE X0Connection ----------------------------
(***************************************************************************)
(* One RPC connection of the L4 X.0 back end (arch/x0), the default of the *)
(* compiler: how an operation's parameters become chunks, and how          *)
(* CMSConnectionX::optimize moves chunks into the three message registers, *)
(* overlaps the reply with the request in the server's buffer and freezes  *)
(* the position of every chunk on the client and on the server.            *)
(*                                                                         *)
(* Channel 0 is the request, channel 1 the reply, the others carry one     *)
(* exception each.  Sizes and positions are bytes; a message starts with   *)
(* three dopes, then come the registers and then the other words.          *)
(***************************************************************************)
EXTENDS Integers, CMSList

CONSTANTS
  NumRegs,        \* message registers: 3
  Platforms,      \* the platforms considered, of "generic" and "ia32"
  NumExceptions,  \* exceptions the operation raises
  Signatures      \* the operations considered

Channel == 0 .. NumExceptions + 1
CHANNEL_IN == 0
CHANNEL_OUT == 1
AllOut == Channel \ {CHANNEL_IN}

UNKNOWN == -1

PRIO_DOPE == 0
PRIO_MAP == 1
PRIO_PAD == 2
PRIO_IN_FIXED == 3
PRIO_INOUT_FIXED == 4
PRIO_OUT_FIXED == 5
PRIO_VARIABLE == 6
PRIO_ID == 9

PRIO_IN_STRING == 3
PRIO_IN_PAD_STRING == 4
PRIO_INOUT_STRING == 5
PRIO_INOUT_PAD_STRING == 6
PRIO_OUT_STRING == 7
PRIO_OUT_PAD_STRING == 8
PRIO_TEMPORARY == 9

SIZEOF_STRINGDOPE == 16

(* What a marshal operation asks the connection for: getFixedCopyChunk     *)
(* ("fixed", of a known size), getVariableCopyChunk ("variable", of 0 to   *)
(* size bytes: every caller passes the minimum 0), getMapChunk ("fpage").  *)
Parameter ==
  {p \in [kind : {"fixed", "variable", "fpage"},
          size : Nat \cup {UNKNOWN}, align : {1, 2, 4, 8},
          chans : SUBSET {CHANNEL_IN, CHANNEL_OUT}] :
     p.kind = "fixed" => p.size # UNKNOWN}

(* The parser refuses one-way operations with outputs (parser.yy 1277).    *)
Signature ==
  {s \in [oneway : BOOLEAN, params : Seq(Parameter)] :
     s.oneway => \A i \in DOMAIN s.params : CHANNEL_OUT \notin s.params[i].chans}

(* The V2 back end, which is derived from this one, has two registers      *)
(* (v2.h 29, x0.h 213).                                                    *)
ASSUME ConnectionXAssumption ==
  /\ NumRegs \in {2, 3}
  /\ Platforms \subseteq {"generic", "ia32"}
  /\ NumExceptions \in Nat
  /\ Signatures \subseteq Signature

ALLOC_CLIENT == "alloc client"          \* the chunk has room on the client
ALLOC_SERVER == "alloc server"          \* and on the server
XFER_FIXED == "xfer fixed"              \* it counts in the send dope
XFER_COPY == "xfer copy"                \* it is transferred at all
INIT_ZERO == "init zero"
PINNED == "pinned"                      \* its index was requested
STANDARD == {ALLOC_CLIENT, ALLOC_SERVER, XFER_FIXED, XFER_COPY}

(* A CMSChunkX.  A register can be shared by several values: the members   *)
(* are then their ids and sizes, from the lowest byte on.                  *)
Chunk(id, part, size, align, chans, flags) ==
  [id |-> id, part |-> part, size |-> size, align |-> align, chans |-> chans,
   flags |-> flags, index |-> UNKNOWN, prio |-> 0, members |-> <<>>,
   client |-> UNKNOWN, server |-> UNKNOWN,
   clientIndex |-> UNKNOWN, serverIndex |-> UNKNOWN]

Pinned(chunk, index) ==
  [chunk EXCEPT !.flags = @ \cup {PINNED}, !.index = index]

HasIn(chunk) == CHANNEL_IN \in chunk.chans
HasOut(chunk) == CHANNEL_OUT \in chunk.chans

VARIABLES
  phase,
  sig, platform,
  pos,            \* how many parameters are marshalled
  chunkID, channelInitialized,
  dopes, registers, dwords, vars_, strings,
  chan, cursor,   \* where optimize is in its loops over channels and lists
  regsUsed, pinIndex,
  candidates, regsLeft,
  outAlign, svrOutputOffset, overlap,
  clientPos, serverPos

request == <<sig, platform, pos, channelInitialized>>
lists == <<dopes, registers, dwords, vars_, strings>>
packing == <<regsUsed, pinIndex, candidates, regsLeft>>
offsets == <<outAlign, svrOutputOffset, overlap>>
place == <<clientPos, serverPos>>
vars == <<phase, request, chunkID, lists, chan, cursor, packing, offsets, place>>

AlignUp(offset, align) == ((offset + align - 1) \div align) * align

WordSize == 4

(* The bytes of the chunks of a list.                                      *)
Bytes(list) ==
  LET sum[i \in 0 .. Len(list)] == IF i = 0 THEN 0 ELSE sum[i - 1] + list[i].size
  IN  sum[Len(list)]

HeaderSize == (3 + NumRegs) * WordSize  \* dopes and registers
DopeSize == 3 * WordSize

LocalVars == IF platform = "ia32" THEN 2 ELSE 0 \* getServerLocalVars

-----------------------------------------------------------------------------
(* CBEOperation::marshal up to the call of optimize                        *)

Init ==
  /\ phase = "options"
  /\ sig \in Signatures
  /\ platform \in Platforms
  /\ pos = 0
  /\ chunkID = 0
  /\ channelInitialized = {CHANNEL_IN}
  /\ dopes = [c \in Channel |-> <<>>]
  /\ registers = [c \in Channel |-> <<>>]
  /\ dwords = [c \in Channel |-> <<>>]
  /\ vars_ = [c \in Channel |-> <<>>]
  /\ strings = [c \in Channel |-> <<>>]
  /\ chan = CHANNEL_IN
  /\ cursor = 1
  /\ regsUsed = [c \in Channel |-> 0]
  /\ pinIndex = 0
  /\ candidates = <<>>
  /\ regsLeft = 0
  /\ outAlign = WordSize
  /\ svrOutputOffset = 0
  /\ overlap = "undecided"
  /\ clientPos = 0
  /\ serverPos = 0

(* setOption(OPTION_ONEWAY).                                               *)
SetOption ==
  /\ phase = "options"
  /\ sig.oneway
  /\ channelInitialized' = channelInitialized \cup AllOut
  /\ phase' = "marshal"
  /\ UNCHANGED <<sig, platform, pos, chunkID, lists, chan, cursor, packing,
                 offsets, place>>

(* calculatePriority and calculateStringPriority.                          *)
ByDirection(chans, in, inout, out) ==
  IF CHANNEL_OUT \notin chans THEN in
  ELSE IF CHANNEL_IN \in chans THEN inout ELSE out

Priority(chans) ==
  ByDirection(chans, PRIO_IN_FIXED, PRIO_INOUT_FIXED, PRIO_OUT_FIXED)

StringPriority(chans) ==
  ByDirection(chans, PRIO_IN_STRING, PRIO_INOUT_STRING, PRIO_OUT_STRING)

(* The lists with a chunk added in every channel of chans.                 *)
AddTo(list, chans, chunk, prio) ==
  [c \in Channel |-> IF c \in chans THEN AddWithPrio(list[c], chunk, prio)
                     ELSE list[c]]

(* getFixedCopyChunk.  The first fixed chunk of a channel is the exception *)
(* code: it gets the last register and the number 0.                       *)
FixedCopyChunk(chans, size, align) ==
  LET fresh == chans \ channelInitialized
      eid == Pinned(Chunk(0, "eid", size, align, {}, STANDARD), NumRegs - 1)
  IN  /\ chunkID' = chunkID + 1
      /\ channelInitialized' = channelInitialized \cup chans
      /\ registers' = AddTo(registers, fresh, eid, PRIO_ID)
      /\ dwords' = AddTo(dwords, chans \ fresh,
                         Chunk(chunkID + 1, "value", size, align, chans, STANDARD),
                         Priority(chans))
      /\ UNCHANGED <<dopes, vars_, strings>>

MarshalExceptionCode ==
  /\ phase = "options"
  /\ ~sig.oneway
  /\ FixedCopyChunk(AllOut, WordSize, WordSize)
  /\ phase' = "marshal"
  /\ UNCHANGED <<sig, platform, pos, chan, cursor, packing, offsets, place>>

Parameter_ == sig.params[pos + 1]       \* the next one

Marshalling(kind) ==
  /\ phase = "marshal"
  /\ pos < Len(sig.params)
  /\ Parameter_.kind = kind
  /\ pos' = pos + 1
  /\ UNCHANGED <<phase, sig, platform, chan, cursor, packing, offsets, place>>

GetFixedCopyChunk ==
  /\ Marshalling("fixed")
  /\ FixedCopyChunk(Parameter_.chans, Parameter_.size, Parameter_.align)

(* isWorthString.  The usual size is half of the largest one.              *)
WorthString(p) == p.size = UNKNOWN \/ p.size \div 2 > 120 \/ p.size > 200

(* getVariableCopyChunk of a large value: an indirect string.              *)
GetStringChunk ==
  /\ Marshalling("variable")
  /\ WorthString(Parameter_)
  /\ chunkID' = chunkID + 1
  /\ strings' = AddTo(strings, Parameter_.chans,
                      Chunk(chunkID + 1, "string", SIZEOF_STRINGDOPE, 1,
                            Parameter_.chans, STANDARD),
                      StringPriority(Parameter_.chans))
  /\ UNCHANGED <<channelInitialized, dopes, registers, dwords, vars_>>

(* The channels whose bits are set in the number n.  Two places pass the   *)
(* number of a channel where its mask is meant.                            *)
BitsOf(n) == {c \in Channel : (n \div 2 ^ c) % 2 = 1}

(* getVariableCopyChunk of a small value of variable size: it goes into    *)
(* the buffer behind the fixed words, with a word for its size and, in the *)
(* reply, a string buffer that only gives the server room to build it.     *)
GetVarbufChunk ==
  /\ Marshalling("variable")
  /\ ~WorthString(Parameter_)
  /\ LET p == Parameter_
         id == chunkID + 1
     IN  /\ vars_' = AddTo(vars_, p.chans,
                           Chunk(id, "data", AlignUp(p.size, WordSize), 1, p.chans,
                                 STANDARD \ {XFER_FIXED}), PRIO_VARIABLE)
         /\ dwords' = AddTo(dwords, p.chans,
                            Chunk(id, "size", WordSize, WordSize, p.chans, STANDARD),
                            Priority(p.chans))
         /\ strings' = AddTo(strings, p.chans \cap {CHANNEL_OUT},
                             Chunk(id, "temp", SIZEOF_STRINGDOPE, WordSize,
                                   BitsOf(CHANNEL_OUT), {ALLOC_SERVER}),
                             PRIO_TEMPORARY)
         /\ chunkID' = id
  /\ UNCHANGED <<channelInitialized, dopes, registers>>

GetMapChunk ==
  /\ Marshalling("fpage")
  /\ chunkID' = chunkID + 1
  /\ dwords' = AddTo(dwords, Parameter_.chans,
                     Chunk(chunkID + 1, "fpage", 8, 8, Parameter_.chans, STANDARD),
                     PRIO_MAP)
  /\ UNCHANGED <<channelInitialized, dopes, registers, vars_, strings>>

-----------------------------------------------------------------------------
(* CMSConnectionX::optimize: dopes, registers                              *)

(* The three dopes of every channel and addServerDopeExtensions.           *)
AddDopes ==
  /\ phase = "marshal"
  /\ pos = Len(sig.params)
  /\ LET Dope(c, n, name) ==
           Chunk(chunkID + 3 * c + n, name, WordSize, WordSize, {c},
                 {ALLOC_CLIENT, ALLOC_SERVER})
         three(c) == <<Dope(c, 1, "_rcv_window"), Dope(c, 2, "_size_dope"),
                       Dope(c, 3, "_send_dope")>>
         next == chunkID + 3 * Cardinality(Channel)
         Saved(n, name, flags, index) ==
           Pinned(Chunk(next + n, name, WordSize, WordSize, {CHANNEL_IN}, flags), index)
         saved == IF platform # "ia32" THEN <<>>
                  ELSE <<Saved(1, "_esp", {ALLOC_SERVER}, -2),
                         Saved(2, "_ebp", {ALLOC_SERVER}, -1),
                         Saved(3, "_caller", {}, 2)>>
     IN  /\ dopes' = [c \in Channel |->
                        three(c) \o IF c = CHANNEL_IN THEN saved ELSE <<>>]
         /\ chunkID' = next + Len(saved)
  /\ phase' = "varbufs"
  /\ UNCHANGED <<request, registers, dwords, vars_, strings, chan, cursor,
                 packing, offsets, place>>

(* A buffer for the variable values of every channel that has some.        *)
AddVarbufs ==
  /\ phase = "varbufs"
  /\ LET with == {c \in Channel : vars_[c] # <<>>}
         number(c) == chunkID + Cardinality({d \in with : d <= c})
     IN  /\ dwords' = [c \in Channel |->
                         IF c \notin with THEN dwords[c]
                         ELSE AddWithPrio(dwords[c],
                                Chunk(number(c), "varbuf", Bytes(vars_[c]), WordSize,
                                      BitsOf(c), STANDARD \ {XFER_FIXED}),
                                PRIO_VARIABLE)]
         /\ chunkID' = chunkID + Cardinality(with)
  /\ phase' = "reserve"
  /\ UNCHANGED <<request, dopes, registers, vars_, strings, chan, cursor,
                 packing, offsets, place>>

(* The register of the function number or of the exception code.           *)
Reserved(c) == IF c = CHANNEL_IN \/ ~sig.oneway THEN 1 ELSE 0

ReserveRegister ==
  /\ phase = "reserve"
  /\ registers' = IF chan = CHANNEL_IN
                  THEN AddTo(registers, {CHANNEL_IN},
                             Pinned(Chunk(0, "fid", WordSize, WordSize, {}, STANDARD),
                                    NumRegs - 1), PRIO_ID)
                  ELSE registers
  /\ regsUsed' = [regsUsed EXCEPT ![chan] = Reserved(chan)]
  /\ pinIndex' = 0
  /\ phase' = "maps"
  /\ UNCHANGED <<request, chunkID, dopes, dwords, vars_, strings, chan, cursor,
                 candidates, regsLeft, offsets, place>>

FirstOf(S) == CHOOSE i \in S : \A j \in S : i <= j

MapWaits == WithPrio(dwords[chan], PRIO_MAP) # {} \* registers or not
MapFits ==
  WithPrio(dwords[chan], PRIO_MAP) # {} /\ NumRegs - regsUsed[chan] >= 2

(* Map items go first, two registers each.                                 *)
MoveMap ==
  /\ phase = "maps"
  /\ MapFits
  /\ LET first == FirstOf(WithPrio(dwords[chan], PRIO_MAP))
     IN  /\ dwords' = [dwords EXCEPT ![chan] = RemoveElement(@, first)]
         /\ registers' = AddTo(registers, {chan},
                               Pinned(dwords[chan][first], pinIndex), PRIO_MAP)
  /\ pinIndex' = pinIndex + 2
  /\ regsUsed' = [regsUsed EXCEPT ![chan] = @ + 2]
  /\ UNCHANGED <<phase, request, chunkID, dopes, vars_, strings, chan, cursor,
                 candidates, regsLeft, offsets, place>>

(* On to the next channel in phase again, after the last one to phase next. *)
Advance(again, next) ==
  IF chan = NumExceptions + 1
  THEN chan' = CHANNEL_IN /\ phase' = next
  ELSE chan' = chan + 1 /\ phase' = again

(* Map items must be followed by two padding words.                        *)
WithPad(list, chunk) ==
  IF HasPrioOrAbove(list, PRIO_MAP + 1) THEN AddWithPrio(list, chunk, PRIO_PAD)
  ELSE list

PadMaps ==
  /\ phase = "maps"
  /\ ~MapFits
  /\ LET needPad == pinIndex > 0
         pad == Chunk(chunkID + 1, "mapPad", 8, 8, {}, STANDARD \cup {INIT_ZERO})
         free == NumRegs - regsUsed[chan]
     IN  IF needPad
         THEN /\ chunkID' = chunkID + 1
              /\ registers' = IF free > 0
                              THEN AddTo(registers, {chan}, Pinned(pad, pinIndex), PRIO_PAD)
                              ELSE registers
              /\ dwords' = IF free > 0 THEN dwords
                           ELSE [dwords EXCEPT ![chan] = WithPad(@, Pinned(pad, 0))]
              /\ IF free = 1           \* assert: two are needed
                 THEN phase' = "pad_assertion" /\ UNCHANGED chan
                 ELSE Advance("reserve", "align")
         ELSE UNCHANGED <<chunkID, registers, dwords>> /\ Advance("reserve", "align")
  /\ UNCHANGED <<request, dopes, vars_, strings, cursor, packing, offsets, place>>

(* The alignment of the reply, because overlapping must not misalign it.   *)
Untyped == {"varbuf", "strPad"}
WordAlignment(list) == WordSize         \* map items forgotten
Strictest(list) ==
  LET aligns == {list[i].align : i \in {j \in DOMAIN list : list[j].part \notin Untyped}}
  IN  CHOOSE a \in aligns \cup {WordSize} :
        a >= WordSize /\ \A b \in aligns : b <= a

MeasureAlignment ==
  /\ phase = "align"
  /\ outAlign' = Strictest(dwords[CHANNEL_OUT])
  /\ phase' = "inout"
  /\ UNCHANGED <<request, chunkID, lists, chan, cursor, packing,
                 svrOutputOffset, overlap, place>>

(* Small INOUT chunks go first, in both channels at once: the rest might   *)
(* overlap then.                                                           *)
SmallInouts ==
  {i \in WithPrio(dwords[CHANNEL_IN], PRIO_INOUT_FIXED) :
     dwords[CHANNEL_IN][i].size <= WordSize}

Matches(id) ==
  {j \in DOMAIN dwords[CHANNEL_OUT] :
     /\ dwords[CHANNEL_OUT][j].id = id
     /\ \E i \in WithPrio(dwords[CHANNEL_OUT], PRIO_INOUT_FIXED) : i <= j}

InoutFits ==
  /\ regsUsed[CHANNEL_IN] < NumRegs
  /\ regsUsed[CHANNEL_OUT] < NumRegs
  /\ SmallInouts # {}
  /\ Matches(dwords[CHANNEL_IN][FirstOf(SmallInouts)].id) # {}

MoveInout ==
  /\ phase = "inout"
  /\ InoutFits
  /\ LET i == FirstOf(SmallInouts)
         j == FirstOf(Matches(dwords[CHANNEL_IN][i].id))
         place_ == [c \in {CHANNEL_IN, CHANNEL_OUT} |-> IF c = CHANNEL_IN THEN i ELSE j]
         both == DOMAIN place_
     IN  /\ dwords' = [c \in Channel |-> IF c \in both
                                        THEN RemoveElement(dwords[c], place_[c])
                                        ELSE dwords[c]]
         /\ registers' = [c \in Channel |->
                            IF c \in both
                            THEN AddWithPrio(registers[c], dwords[c][place_[c]],
                                             PRIO_INOUT_FIXED)
                            ELSE registers[c]]
         /\ regsUsed' = [c \in Channel |-> IF c \in both THEN regsUsed[c] + 1
                                          ELSE regsUsed[c]]
  /\ UNCHANGED <<phase, request, chunkID, dopes, vars_, strings, chan, cursor,
                 pinIndex, candidates, regsLeft, offsets, place>>

EndInouts ==
  /\ phase = "inout"
  /\ ~InoutFits
  /\ phase' = "scan"
  /\ regsLeft' = NumRegs - regsUsed[CHANNEL_IN]
  /\ UNCHANGED <<request, chunkID, lists, chan, cursor, regsUsed, pinIndex,
                 candidates, offsets, place>>

(* Then anything that fits.  The scan of a channel starts again from the   *)
(* front after every chunk it takes.                                       *)
Scanned == dwords[chan][cursor]
Taken == [Scanned EXCEPT !.flags = @ \ {ALLOC_SERVER}]

Fits(chunk) == chan \in chunk.chans /\ chunk.size <= WordSize

Scanning == phase = "scan" /\ cursor <= Len(dwords[chan])

(* Registers of this round with room for the chunk.                        *)
Roomy(chunk) == {i \in DOMAIN candidates : WordSize - candidates[i].size > 0}
                                        \* whatever the size of the chunk
Sharable(chunk) ==
  {i \in DOMAIN candidates : WordSize - candidates[i].size >= chunk.size}

(* Only the request shares registers.                                      *)
CanShare == chan = CHANNEL_IN /\ Sharable(Scanned) # {}

MembersOf(chunk) ==
  IF chunk.part = "shared" THEN chunk.members
  ELSE <<[id |-> chunk.id, part |-> chunk.part, size |-> chunk.size,
          align |-> chunk.align]>>

(* CMSSharedChunkX: the new chunk in the low bytes.                        *)
SharedTwice(low, high) ==               \* the chunks of a shared chunk lost
  [Chunk(UNKNOWN, "shared", low.size + high.size,
         IF low.align > high.align THEN low.align ELSE high.align, {},
         low.flags \cup high.flags)
     EXCEPT !.members = MembersOf(low) \o <<MembersOf(high)[1]>>]
Shared(low, high) ==
  [Chunk(UNKNOWN, "shared", low.size + high.size,
         IF low.align > high.align THEN low.align ELSE high.align, {},
         low.flags \cup high.flags)
     EXCEPT !.members = MembersOf(low) \o MembersOf(high)]

TakeScanned(newCandidates) ==
  /\ candidates' = newCandidates
  /\ dwords' = [dwords EXCEPT ![chan] = RemoveElement(@, cursor)]
  /\ cursor' = 1
  /\ UNCHANGED <<phase, request, chunkID, dopes, registers, vars_, strings,
                 chan, regsUsed, pinIndex, offsets, place>>

ShareRegister ==
  /\ Scanning
  /\ Fits(Scanned)
  /\ CanShare
  /\ LET with == FirstOf(Sharable(Scanned))
     IN  TakeScanned(AddLast(RemoveElement(candidates, with),
                             Shared(Taken, candidates[with])))
  /\ UNCHANGED regsLeft

TakeRegister ==
  /\ Scanning
  /\ Fits(Scanned)
  /\ ~CanShare
  /\ regsLeft > 0
  /\ TakeScanned(AddLast(candidates, Taken))
  /\ regsLeft' = regsLeft - 1

PassChunk ==
  /\ Scanning
  /\ ~Fits(Scanned) \/ (~CanShare /\ regsLeft = 0)
  /\ cursor' = cursor + 1
  /\ UNCHANGED <<phase, request, chunkID, lists, chan, packing, offsets, place>>

MergeRegisters ==
  /\ phase = "scan"
  /\ cursor > Len(dwords[chan])
  /\ LET merged[i \in 0 .. Len(candidates)] ==
           IF i = 0 THEN registers[chan]
           ELSE AddWithPrio(merged[i - 1], candidates[i], PRIO_OUT_FIXED)
     IN  registers' = [registers EXCEPT ![chan] = merged[Len(candidates)]]
  /\ candidates' = <<>>
  /\ cursor' = 1
  /\ Advance("scan", "offset")
  /\ regsLeft' = IF phase' = "scan" THEN NumRegs - regsUsed[chan'] ELSE 0
  /\ UNCHANGED <<request, chunkID, dopes, dwords, vars_, strings, regsUsed,
                 pinIndex, offsets, place>>

-----------------------------------------------------------------------------
(* Where the reply lies in the server's buffer                             *)

In == dwords[CHANNEL_IN]
Out == dwords[CHANNEL_OUT]

(* The leading chunks of the request that do not go back.                  *)
PureIn == Cardinality({i \in DOMAIN In : \A j \in 1 .. i : ~HasOut(In[j])})
WholeInSize == Bytes(In)                \* INOUT chunks counted, too
PlainInSize == Bytes(SubSeq(In, 1, PureIn))

(* The chunks behind them that start the reply, too, in the same sequence. *)
Common ==
  Cardinality({k \in 1 .. Len(In) - PureIn :
                 \A i \in 1 .. k : i <= Len(Out) /\ In[PureIn + i].id = Out[i].id})

(* The transferred strings of a channel.                                   *)
Strings(c) == {i \in DOMAIN strings[c] : XFER_COPY \in strings[c][i].flags}

HasStrings(c) == Strings(c) # {}

(* The primary dope cannot be used if its size dope had to be overwritten. *)
AnyDope == TRUE                         \* the strings of the reply forgotten
DopeFree == PlainInSize > 0 \/ ~HasStrings(CHANNEL_OUT)

OverlapAnyway == PlainInSize % outAlign = 0 /\ DopeFree \* whatever follows
CanOverlap ==
  /\ PureIn + Common = Len(In)
  /\ PlainInSize % outAlign = 0
  /\ DopeFree

Choosing(offset, how) ==
  /\ phase = "offset"
  /\ svrOutputOffset' = offset
  /\ overlap' = how
  /\ phase' = "pad"
  /\ UNCHANGED <<request, chunkID, lists, chan, cursor, packing, outAlign, place>>

(* The INOUT chunks of the reply lie where those of the request were.      *)
OverlapReply ==
  /\ PureIn < Len(In)
  /\ CanOverlap
  /\ Choosing(PlainInSize, "inouts")

(* The reply is moved to the end of the request.                           *)
VarbufSize == Bytes(vars_[CHANNEL_IN])

ReplyBehindInouts ==
  /\ PureIn < Len(In)
  /\ ~CanOverlap
  /\ Choosing(AlignUp(Bytes(In) + VarbufSize, outAlign), "none")

ReplyBehindRequest ==
  /\ PureIn = Len(In)
  /\ Choosing(AlignUp(PlainInSize + HeaderSize + VarbufSize, outAlign), "none")

(* On the server INOUT strings must have the same position in all channels *)
(* and IN and OUT strings must not overlap: the others get pads.           *)
PureInStrings == Cardinality({i \in Strings(CHANNEL_IN) : ~HasOut(strings[CHANNEL_IN][i])})
InoutStrings == Cardinality({i \in Strings(CHANNEL_IN) : HasOut(strings[CHANNEL_IN][i])})
OutStrings(c) == Cardinality({i \in Strings(c) : ~HasIn(strings[c][i])})

MaxOutStrings ==
  CHOOSE n \in {OutStrings(c) : c \in AllOut} : \A c \in AllOut : OutStrings(c) <= n

(* The list with n pads of that priority.                                  *)
WithoutPads(list, c, prio, n) == list
WithPads(list, c, prio, n) ==
  LET pad == Chunk(UNKNOWN, "strPad", SIZEOF_STRINGDOPE, WordSize, {c}, {ALLOC_SERVER})
      padded[i \in 0 .. n] == IF i = 0 THEN list
                              ELSE AddWithPrio(padded[i - 1], pad, prio)
  IN  padded[n]

PadStrings ==
  /\ phase = "pad"
  /\ strings' =
       [c \in Channel |->
          IF c = CHANNEL_IN THEN strings[c]
          ELSE LET in == WithPads(strings[c], c, PRIO_IN_PAD_STRING, PureInStrings)
                   inout == WithPads(in, c, PRIO_INOUT_PAD_STRING,
                                     IF c = CHANNEL_OUT THEN 0 ELSE InoutStrings)
               IN  WithPads(inout, c, PRIO_OUT_PAD_STRING, MaxOutStrings - OutStrings(c))]
  /\ phase' = "freeze"
  /\ clientPos' = HeaderSize
  /\ serverPos' = HeaderSize
  /\ UNCHANGED <<request, chunkID, dopes, registers, dwords, vars_, chan, cursor,
                 packing, offsets>>

-----------------------------------------------------------------------------
(* Freezing the positions                                                  *)

Shift == IF chan = CHANNEL_OUT THEN svrOutputOffset ELSE 0

(* Where the words of a channel start on the server.                       *)
WithoutShift(c) == HeaderSize           \* the displacement forgotten
ServerStart(c) == HeaderSize + IF c = CHANNEL_OUT THEN svrOutputOffset ELSE 0

Padding(position, chunk, side) ==
  IF side \in chunk.flags THEN AlignUp(position, chunk.align) - position ELSE 0

(* The next word chunk of the channel: padding on one side moves the other *)
(* side, too, for the words keep their distance when they are transferred. *)
FreezeChunk ==
  /\ phase = "freeze"
  /\ cursor <= Len(dwords[chan])
  /\ LET chunk == dwords[chan][cursor]
         onClient == Padding(clientPos, chunk, ALLOC_CLIENT)
         onServer == Padding(serverPos + onClient, chunk, ALLOC_SERVER)
         client == clientPos + onClient + onServer
         server == serverPos + onClient + onServer
         aligned == /\ ALLOC_CLIENT \in chunk.flags => client % chunk.align = 0
                    /\ ALLOC_SERVER \in chunk.flags => server % chunk.align = 0
     IN  /\ phase' = IF aligned THEN phase ELSE "misaligned"
         /\ dwords' = [dwords EXCEPT ![chan][cursor] =
                         [@ EXCEPT !.client = IF ALLOC_CLIENT \in chunk.flags
                                              THEN client ELSE UNKNOWN,
                                   !.server = IF ALLOC_SERVER \in chunk.flags
                                              THEN server ELSE UNKNOWN]]
         /\ clientPos' = client + IF ALLOC_CLIENT \in chunk.flags THEN chunk.size ELSE 0
         /\ serverPos' = server + IF ALLOC_SERVER \in chunk.flags THEN chunk.size ELSE 0
  /\ cursor' = cursor + 1
  /\ UNCHANGED <<request, chunkID, dopes, registers, vars_, strings, chan,
                 packing, offsets>>

(* How many chunks before chunk i have the flag.                           *)
Before(list, i, side) == Cardinality({j \in 1 .. i - 1 : side \in list[j].flags})

FrozenDopes(list) ==
  [i \in DOMAIN list |->
     LET k == Cardinality({j \in 1 .. i - 1 : ALLOC_SERVER \in list[j].flags
                                               /\ PINNED \notin list[j].flags})
     IN  [list[i] EXCEPT
            !.client = IF ALLOC_CLIENT \in list[i].flags
                       THEN WordSize * Before(list, i, ALLOC_CLIENT) ELSE @,
            !.server = IF ALLOC_SERVER \notin list[i].flags THEN @
                       ELSE IF PINNED \in list[i].flags THEN WordSize * list[i].index
                       ELSE WordSize * (k - LocalVars) + Shift]]

(* The index every chunk in a register gets, behind the one before unless  *)
(* it is pinned.                                                           *)
UnpinnedIndex(list) == [i \in 0 .. Len(list) |-> i - 1] \* requests ignored
RegisterIndex(list) ==
  LET index[i \in 0 .. Len(list)] ==
        IF i = 0 THEN -1
        ELSE IF PINNED \in list[i].flags THEN list[i].index ELSE index[i - 1] + 1
  IN  index

FrozenRegisters(list) ==
  [i \in DOMAIN list |->
     LET index == RegisterIndex(list)[i]
     IN  [list[i] EXCEPT !.clientIndex = index, !.serverIndex = index,
                         !.client = DopeSize + WordSize * index,
                         !.server = DopeSize + WordSize * index + Shift]]

FrozenStrings(list) ==
  [i \in DOMAIN list |->
     LET At(side) == IF side \in list[i].flags THEN Before(list, i, side) ELSE UNKNOWN
         Offset(side) == IF side \in list[i].flags
                         THEN SIZEOF_STRINGDOPE * Before(list, i, side) ELSE UNKNOWN
     IN  [list[i] EXCEPT !.clientIndex = At(ALLOC_CLIENT), !.client = Offset(ALLOC_CLIENT),
                         !.serverIndex = At(ALLOC_SERVER), !.server = Offset(ALLOC_SERVER)]]

(* A pinned register must not lie before those already placed.             *)
PinsFree(list) ==
  \A i \in DOMAIN list :
    PINNED \in list[i].flags => list[i].index > RegisterIndex(list)[i - 1]

FreezeChannel ==
  /\ phase = "freeze"
  /\ cursor > Len(dwords[chan])
  /\ dopes' = [dopes EXCEPT ![chan] = FrozenDopes(@)]
  /\ registers' = [registers EXCEPT ![chan] = FrozenRegisters(@)]
  /\ strings' = [strings EXCEPT ![chan] = FrozenStrings(@)]
  /\ cursor' = 1
  /\ IF PinsFree(registers[chan]) THEN Advance("freeze", "restrict")
     ELSE phase' = "pin_assertion" /\ UNCHANGED chan
  /\ clientPos' = HeaderSize
  /\ serverPos' = ServerStart(chan')
  /\ UNCHANGED <<request, chunkID, dwords, vars_, packing, offsets>>

Without(list, keep) ==
  [i \in DOMAIN list |-> IF i \in keep THEN list[i]
                         ELSE [list[i] EXCEPT !.flags = @ \ {ALLOC_SERVER}]]

(* CMSConnectionIX::optimize takes the server's room from most chunks.     *)
RestrictServer ==
  /\ phase = "restrict"
  /\ IF platform = "ia32"
     THEN /\ registers' = [c \in Channel |->
                 Without(registers[c], {i \in DOMAIN registers[c] :
                   registers[c][i].part \in {"fid", "eid"} \/ registers[c][i].prio = PRIO_MAP})]
          /\ dopes' = [c \in Channel |->
                 Without(dopes[c], {i \in DOMAIN dopes[c] :
                                      dopes[c][i].part \in {"_esp", "_ebp"}})]
     ELSE UNCHANGED <<registers, dopes>>
  /\ phase' = "finalize"
  /\ UNCHANGED <<request, chunkID, dwords, vars_, strings, chan, cursor, packing,
                 offsets, place>>

(* getMaxBytesRequired                                                     *)
MaxBytes(side) ==
  LET ends(c) == UNION {{list[i][side] + list[i].size : i \in DOMAIN list} :
                          list \in {registers[c], dwords[c]}}
      all == UNION {ends(c) : c \in Channel} \cup {0}
               \cup {HeaderSize : c \in {d \in Channel : strings[d] # <<>>}}
  IN  CHOOSE n \in all : \A m \in all : m <= n

(* CMSServiceX::finalize for a service that has this connection alone: the *)
(* strings lie behind all words, and behind room for two short messages.   *)
MinimalBuffer == 9 * WordSize

MessageBytes ==
  LET bytes == MaxBytes("server")
  IN  AlignUp(IF bytes < MinimalBuffer THEN MinimalBuffer ELSE bytes, WordSize)

Finalize ==
  /\ phase = "finalize"
  /\ LET onClient == AlignUp(MaxBytes("client"), WordSize)
     IN  strings' = [c \in Channel |-> [i \in DOMAIN strings[c] |->
           [strings[c][i] EXCEPT
              !.client = IF ALLOC_CLIENT \in strings[c][i].flags THEN @ + onClient ELSE @,
              !.server = IF ALLOC_SERVER \in strings[c][i].flags THEN @ + MessageBytes ELSE @]]]
  /\ phase' = "done"
  /\ UNCHANGED <<request, chunkID, dopes, registers, dwords, vars_, chan, cursor,
                 packing, offsets, place>>

Final == {"done", "pad_assertion", "misaligned", "pin_assertion"}

Finished == phase \in Final /\ UNCHANGED vars

Marshal ==
  \/ SetOption
  \/ MarshalExceptionCode
  \/ GetFixedCopyChunk
  \/ GetStringChunk
  \/ GetVarbufChunk
  \/ GetMapChunk

FillRegisters ==
  \/ AddDopes
  \/ AddVarbufs
  \/ ReserveRegister
  \/ MoveMap
  \/ PadMaps
  \/ MeasureAlignment
  \/ MoveInout
  \/ EndInouts
  \/ ShareRegister
  \/ TakeRegister
  \/ PassChunk
  \/ MergeRegisters

PlaceReply == OverlapReply \/ ReplyBehindInouts \/ ReplyBehindRequest

Freeze == PadStrings \/ FreezeChunk \/ FreezeChannel \/ RestrictServer \/ Finalize

Next == Marshal \/ FillRegisters \/ PlaceReply \/ Freeze \/ Finished

Spec == Init /\ [][Next]_vars
=============================================================================
