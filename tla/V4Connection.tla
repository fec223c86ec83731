---------------------------- MODULE V4Connection ----------------------------
(***************************************************************************)
(* One RPC connection of the L4 V4 back end (arch/v4): how an operation's  *)
(* parameters become chunks, and how CMSConnection4::optimize distributes  *)
(* the chunks of every channel over message registers, memory message,     *)
(* string items and map items.                                             *)
(*                                                                         *)
(* Channel 0 is the request, channel 1 the reply, the others carry one     *)
(* exception each.  Sizes and offsets are bytes.                           *)
(***************************************************************************)
EXTENDS Integers, CMSList

CONSTANTS
  W,              \* globals.word_size, bytes in a machine word
  AvailableMRs,   \* message registers beside the tag: 63
  DirectLimit,    \* fixed chunks of at least this size travel as strings: 400
  NumExceptions,  \* exceptions the operation raises
  Signatures      \* the operations considered

Channel == 0 .. NumExceptions + 1
CHANNEL_IN == 0
CHANNEL_OUT == 1
AllOut == Channel \ {CHANNEL_IN}                \* CHANNEL_ALL_OUT

UNKNOWN == -1

(* What a marshal operation asks the connection for: getFixedCopyChunk     *)
(* ("fixed"), getVariableCopyChunk with ("bounded") or without ("string")  *)
(* a largest size, getMapChunk ("fpage").                                  *)
Parameter == [kind : {"fixed", "string", "bounded", "fpage"},
              size : Nat, align : Nat \ {0}, chans : SUBSET {CHANNEL_IN, CHANNEL_OUT}]

Signature == [oneway : BOOLEAN, kernelmsg : BOOLEAN, params : Seq(Parameter)]

ASSUME ConnectionAssumption ==
  /\ W \in Nat \ {0}
  /\ AvailableMRs \in Nat
  /\ AvailableMRs % 2 = 1
  /\ DirectLimit \in Nat
  /\ NumExceptions \in Nat
  /\ Signatures \subseteq Signature

(* A CMSChunk4.  The chunks made for one parameter share its id and differ *)
(* in part (in the code: in the list that holds them).                     *)
Parts == {"value", "string", "count", "data", "temp", "fpage", "tag", "varbuf"}

ChunkOf(Sizes) ==
  [id : Nat, part : Parts, size : Sizes, align : Nat \ {0},
   chans : SUBSET Channel, xfer : BOOLEAN, prio : Nat, offset : Int, buf : Int]

SizedChunk == ChunkOf(Nat)              \* what registers and memory hold
AnyChunk == ChunkOf(Nat \cup {UNKNOWN}) \* strings may have any length

NewChunk(id, part, size, align, chans, xfer) ==
  [id |-> id, part |-> part, size |-> size, align |-> align, chans |-> chans,
   xfer |-> xfer, prio |-> 0, offset |-> UNKNOWN, buf |-> UNKNOWN]

VARIABLES
  phase,        \* where the back end is
  sig, pos,     \* the operation, and how many of its parameters are marshalled
  chunkID, initialized,
  regFixed, regVar, memFixed, memVar, strings, fpages,
  chan,         \* the channel optimize is working on
  needMem,      \* needMemoryMessage, the loop's local of each channel
  maxBytes,     \* maxBytes, likewise
  remaining, oldRemaining, progress, processed,
  cursor,       \* the element a forAllMS loop has reached
  buffers,      \* the string buffers in order: bufferIndex is the position
  newList       \* the renumbered strings of the channel

request == <<sig, pos, initialized>>
lists == <<regFixed, regVar, memFixed, memVar, strings, fpages>>
budget == <<needMem, maxBytes>>
loop == <<remaining, oldRemaining, progress, processed>>
numbering == <<buffers, newList>>
vars == <<phase, request, chunkID, lists, chan, budget, loop, cursor, numbering>>

-----------------------------------------------------------------------------
(* Arithmetic and layout                                                   *)

AlignUp(offset, align) == ((offset + align - 1) \div align) * align

Unaligned(bytes, align) == bytes        \* the rounding forgotten

AlignDown(bytes, align) == (bytes \div align) * align

AlignmentPrio(size) ==
  CASE size = 1 -> 4
    [] size = 2 -> 3
    [] size \notin {1, 2} /\ size <= 4 -> 2
    [] OTHER -> 1

(* All that the position of a chunk depends on.                            *)
Shape(list) ==
  [i \in DOMAIN list |-> [size |-> list[i].size, align |-> list[i].align]]

(* ends[i] is where chunk i ends when every chunk is padded to its         *)
(* alignment: the rule of layoutMessageRegisters, and of a C compiler for  *)
(* the struct of the same members.                                         *)
Ends(shape) ==
  LET ends[i \in 0 .. Len(shape)] ==
        IF i = 0 THEN 0
        ELSE AlignUp(ends[i - 1], shape[i].align) + shape[i].size
  IN  ends

LayoutEnd(list) == Ends(Shape(list))[Len(list)]

(* Every chunk gets the offset the layout gives it.                        *)
LaidOut(list) ==
  LET ends == Ends(Shape(list))
  IN  [i \in DOMAIN list |->
         [list[i] EXCEPT !.offset = ends[i] - list[i].size]]

(* Every chunk gets its position in the list as offset.                    *)
Numbered(list) == [i \in DOMAIN list |-> [list[i] EXCEPT !.offset = i - 1]]

(* What the variable chunks of a list need, each rounded up to words.      *)
VarBytes(list) ==
  Ends([i \in DOMAIN list |->
          [size |-> AlignUp(list[i].size, W), align |-> 1]])[Len(list)]

-----------------------------------------------------------------------------
(* CBEOperation::marshal up to the call of optimize                        *)

Init ==
  /\ phase = "options"
  /\ sig \in Signatures
  /\ pos = 0
  /\ chunkID = 0
  /\ initialized = {CHANNEL_IN}
  /\ regFixed = [c \in Channel |-> <<>>]
  /\ regVar = [c \in Channel |-> <<>>]
  /\ memFixed = [c \in Channel |-> <<>>]
  /\ memVar = [c \in Channel |-> <<>>]
  /\ strings = [c \in Channel |-> <<>>]
  /\ fpages = [c \in Channel |-> <<>>]
  /\ chan = CHANNEL_IN
  /\ needMem = [c \in Channel |-> FALSE]
  /\ maxBytes = [c \in Channel |-> 0]
  /\ remaining = 0
  /\ oldRemaining = 0
  /\ progress = FALSE
  /\ processed = <<>>
  /\ cursor = 1
  /\ buffers = <<>>
  /\ newList = <<>>

(* setOption(OPTION_ONEWAY): no reply, so no channel waits for an          *)
(* exception code.                                                         *)
SetOption ==
  /\ phase = "options"
  /\ sig.oneway
  /\ initialized' = initialized \cup AllOut
  /\ phase' = "marshal"
  /\ UNCHANGED <<sig, pos, chunkID, lists, chan, budget, loop, cursor,
                 numbering>>

(* getFixedCopyChunk.  The first fixed chunk of a channel is not stored:   *)
(* it is the exception code, which travels in the label.                   *)
FixedCopyChunk(chans, size, align) ==
  LET chunk == NewChunk(chunkID + 1, "value", size, align, chans, TRUE)
      stored == chans \cap initialized
      direct == size < DirectLimit
  IN  /\ chunkID' = chunkID + 1
      /\ initialized' = initialized \cup chans
      /\ memFixed' = [c \in Channel |->
                        IF c \in stored /\ direct
                        THEN AddWithPrio(memFixed[c], chunk, AlignmentPrio(align))
                        ELSE memFixed[c]]
      /\ strings' = [c \in Channel |->
                       IF c \in stored /\ ~direct
                       THEN AddLast(strings[c], chunk)
                       ELSE strings[c]]
      /\ UNCHANGED <<regFixed, regVar, memVar, fpages>>

(* The exception code __eid of a two-way operation.                        *)
MarshalExceptionCode ==
  /\ phase = "options"
  /\ ~sig.oneway
  /\ FixedCopyChunk(AllOut, 4, W)
  /\ phase' = "marshal"
  /\ UNCHANGED <<sig, pos, chan, budget, loop, cursor, numbering>>

(* The next parameter, of this kind.                                       *)
Marshalling(kind) ==
  /\ phase = "marshal"
  /\ pos < Len(sig.params)
  /\ sig.params[pos + 1].kind = kind
  /\ pos' = pos + 1
  /\ UNCHANGED <<phase, sig, chan, budget, loop, cursor, numbering>>

GetFixedCopyChunk ==
  /\ Marshalling("fixed")
  /\ LET p == sig.params[pos + 1]
     IN  FixedCopyChunk(p.chans, p.size, p.align)

(* getVariableCopyChunk without a largest size: a string item.             *)
GetUnboundedCopyChunk ==
  /\ Marshalling("string")
  /\ LET p == sig.params[pos + 1]
         chunk == NewChunk(chunkID + 1, "string", UNKNOWN, 1, p.chans, TRUE)
     IN  strings' = [c \in Channel |-> IF c \in p.chans
                                       THEN AddLast(strings[c], chunk)
                                       ELSE strings[c]]
  /\ chunkID' = chunkID + 1
  /\ UNCHANGED <<initialized, regFixed, regVar, memFixed, memVar, fpages>>

(* getVariableCopyChunk with a largest size: the data, a word for the      *)
(* length, and a temporary buffer on the server that is never transferred. *)
(* The length goes to the end of its list, with no priority.               *)
GetBoundedCopyChunk ==
  /\ Marshalling("bounded")
  /\ LET p == sig.params[pos + 1]
         With(list, part, size, align, xfer) ==
           [c \in Channel |->
              IF c \in p.chans
              THEN AddLast(list[c], NewChunk(chunkID + 1, part, size, align,
                                             p.chans, xfer))
              ELSE list[c]]
     IN  /\ memVar' = With(memVar, "data", p.size, 1, TRUE)
         /\ memFixed' = With(memFixed, "count", W, W, TRUE)
         /\ strings' = With(strings, "temp", p.size, 1, FALSE)
  /\ chunkID' = chunkID + 1
  /\ UNCHANGED <<initialized, regFixed, regVar, fpages>>

GetMapChunk ==
  /\ Marshalling("fpage")
  /\ LET p == sig.params[pos + 1]
         chunk == NewChunk(chunkID + 1, "fpage", 1, 1, p.chans, TRUE)
     IN  fpages' = [c \in Channel |-> IF c \in p.chans
                                      THEN AddLast(fpages[c], chunk)
                                      ELSE fpages[c]]
  /\ chunkID' = chunkID + 1
  /\ UNCHANGED <<initialized, regFixed, regVar, memFixed, memVar, strings>>

-----------------------------------------------------------------------------
(* CMSConnection4::optimize                                                *)

(* A message tag in the registers of every channel in use.  The code       *)
(* numbers the tags in channel order.                                      *)
AddTags ==
  /\ phase = "marshal"
  /\ pos = Len(sig.params)
  /\ LET used == IF sig.oneway THEN Channel \ {CHANNEL_OUT} ELSE Channel
         rank(c) == IF sig.oneway /\ c > CHANNEL_OUT THEN c ELSE c + 1
         tag(c) == NewChunk(chunkID + rank(c), "tag", W, W, {c}, FALSE)
     IN  /\ regFixed' = [c \in Channel |-> IF c \in used
                                           THEN AddLast(regFixed[c], tag(c))
                                           ELSE regFixed[c]]
         /\ chunkID' = chunkID + Cardinality(used)
  /\ phase' = "budget"
  /\ UNCHANGED <<request, regVar, memFixed, memVar, strings, fpages, chan,
                 budget, loop, cursor, numbering>>

NeedsMem(c) == memFixed[c] # <<>> \/ memVar[c] # <<>>

(* Registers the chunks of the channel may use, in the code's counting.    *)
RegistersLeftWithoutMem(c) ==           \* the memory message forgotten
  AvailableMRs - 2 * Len(strings[c]) - 2 * Len(fpages[c])

RegistersLeftWithoutStrings(c) ==       \* the string items forgotten
  AvailableMRs - (IF NeedsMem(c) THEN 2 ELSE 0) - 2 * Len(fpages[c])

RegistersLeft(c) ==
  AvailableMRs - (IF NeedsMem(c) THEN 2 ELSE 0)
               - 2 * Len(strings[c]) - 2 * Len(fpages[c])

(* madeProgress = false at the start of a pass.                            *)
StalePass == UNCHANGED progress         \* the reset forgotten
StartPass == progress' = FALSE

BeginChannel ==
  /\ phase = "budget"
  /\ RegistersLeft(chan) >= 0
  /\ needMem' = [needMem EXCEPT ![chan] = NeedsMem(chan)]
  /\ maxBytes' = [maxBytes EXCEPT ![chan] = RegistersLeft(chan) * W]
  /\ remaining' = RegistersLeft(chan) * W
  /\ processed' = <<>>
  /\ StartPass
  /\ phase' = "fixed"
  /\ UNCHANGED <<request, chunkID, lists, chan, oldRemaining, cursor,
                 numbering>>

(* panic("More than 64 MRs used!")                                         *)
TooManyItems ==
  /\ phase = "budget"
  /\ RegistersLeft(chan) < 0
  /\ phase' = "too_many_items"
  /\ UNCHANGED <<request, chunkID, lists, chan, budget, loop, cursor,
                 numbering>>

(* One round of the inner loop takes the first fixed chunk left.  Tried is *)
(* the register list with that chunk in it, laid out.                      *)
Candidate == Head(memFixed[chan])
CandidatePrio == AlignmentPrio(Candidate.size)
Tried == LaidOut(AddWithPrio(regFixed[chan], Candidate, CandidatePrio))

(* chunk->size <= remainingBytes                                           *)
NoSizeCheck(chunk) == TRUE              \* the check forgotten
MayFit(chunk) == chunk.size <= remaining

(* bytesCurrentlyUsed <= maxBytes                                          *)
PaddingIgnored(laid) == TRUE            \* the check after layout forgotten
Fits(laid) == LayoutEnd(laid) <= maxBytes[chan]

TryingFixed ==
  /\ phase = "fixed"
  /\ memFixed[chan] # <<>>
  /\ memFixed' = [memFixed EXCEPT ![chan] = Tail(memFixed[chan])]
  /\ UNCHANGED <<phase, request, chunkID, regVar, memVar, strings, fpages,
                 chan, oldRemaining, cursor, numbering>>

(* It fits: it stays in the registers.  If it was the last one of this     *)
(* pass the memory message is given up.                                    *)
TakeFixed ==
  /\ TryingFixed
  /\ MayFit(Candidate)
  /\ Fits(Tried)
  /\ regFixed' = [regFixed EXCEPT ![chan] = Tried]
  /\ progress' = TRUE
  /\ LET release == needMem[chan] /\ Len(memFixed[chan]) = 1 /\ memVar[chan] = <<>>
     IN  /\ needMem' = [needMem EXCEPT ![chan] = @ /\ ~release]
         /\ maxBytes' = [maxBytes EXCEPT ![chan] = IF release THEN @ + 2 * W ELSE @]
  /\ remaining' = maxBytes'[chan] - LayoutEnd(Tried)
  /\ UNCHANGED processed

(* It overflows after all because of padding: it is taken out again, the   *)
(* offsets of the others stay as they were with it.                        *)
PutBackFixed ==
  /\ TryingFixed
  /\ MayFit(Candidate)
  /\ ~Fits(Tried)
  /\ LET at == PrioPosition(regFixed[chan], CandidatePrio)
     IN  /\ regFixed' = [regFixed EXCEPT ![chan] = RemoveElement(Tried, at)]
         /\ processed' = AddLast(processed, Tried[at])
  /\ UNCHANGED <<budget, remaining, progress>>

(* It is larger than what is left.                                         *)
SkipFixed ==
  /\ TryingFixed
  /\ ~MayFit(Candidate)
  /\ processed' = AddLast(processed, Candidate)
  /\ UNCHANGED <<regFixed, budget, remaining, progress>>

(* The end of a pass over the fixed chunks: another one follows if this    *)
(* one placed any.                                                         *)
EndFixedPass ==
  /\ phase = "fixed"
  /\ memFixed[chan] = <<>>
  /\ memFixed' = [memFixed EXCEPT ![chan] = Merge(memFixed[chan], processed)]
  /\ processed' = <<>>
  /\ StartPass
  /\ IF progress
     THEN UNCHANGED <<phase, remaining, oldRemaining>>
     ELSE /\ phase' = "variable"
          /\ remaining' = AlignDown(remaining, W)
          /\ oldRemaining' = remaining'
  /\ cursor' = 1
  /\ UNCHANGED <<request, chunkID, regFixed, regVar, memVar, strings, fpages,
                 chan, budget, numbering>>

(* The forAllMS loop over the variable chunks.  After it moves one it      *)
(* continues behind the first of those left, which waits for another pass. *)
MoveVariable ==
  /\ phase = "variable"
  /\ cursor <= Len(memVar[chan])
  /\ LET chunk == memVar[chan][cursor]
     IN  /\ MayFit(chunk)
         /\ memVar' = [memVar EXCEPT ![chan] = RemoveElement(@, cursor)]
         /\ regVar' = [regVar EXCEPT ![chan] = AddLast(@, chunk)]
         /\ remaining' = AlignDown(remaining - chunk.size, W)
  /\ cursor' = 2
  /\ progress' = TRUE
  /\ UNCHANGED <<phase, request, chunkID, regFixed, memFixed, strings, fpages,
                 chan, budget, oldRemaining, processed, numbering>>

PassVariable ==
  /\ phase = "variable"
  /\ cursor <= Len(memVar[chan])
  /\ ~MayFit(memVar[chan][cursor])
  /\ cursor' = cursor + 1
  /\ UNCHANGED <<phase, request, chunkID, lists, chan, budget, loop,
                 numbering>>

EndVariablePass ==
  /\ phase = "variable"
  /\ cursor > Len(memVar[chan])
  /\ StartPass
  /\ cursor' = 1
  /\ phase' = IF progress THEN phase ELSE "layout"
  /\ UNCHANGED <<request, chunkID, lists, chan, budget, remaining,
                 oldRemaining, processed, numbering>>

(* Variable chunks in registers share one buffer at the end.               *)
AddRegisterBuffer ==
  /\ phase = "layout"
  /\ remaining < oldRemaining
  /\ LET varbuf == NewChunk(chunkID + 1, "varbuf", oldRemaining - remaining, W,
                            {chan}, TRUE)
         laid == LaidOut(AddWithPrio(regFixed[chan], varbuf, 99))
     IN  /\ regFixed' = [regFixed EXCEPT ![chan] = laid]
         /\ phase' = IF Fits(laid) THEN "memory"
                     ELSE "varbuf_overflow" \* panic("MR overflow (caused by varbuf)")
  /\ chunkID' = chunkID + 1
  /\ UNCHANGED <<request, regVar, memFixed, memVar, strings, fpages, chan,
                 budget, loop, cursor, numbering>>

NoRegisterBuffer ==
  /\ phase = "layout"
  /\ remaining >= oldRemaining
  /\ phase' = "memory"
  /\ UNCHANGED <<request, chunkID, lists, chan, budget, loop, cursor,
                 numbering>>

(* On to the next channel in phase again, after the last one to phase next. *)
Advance(again, next) ==
  IF chan = NumExceptions + 1
  THEN chan' = CHANNEL_IN /\ phase' = next
  ELSE chan' = chan + 1 /\ phase' = again

(* What is left in the memory message: the variable chunks get a common    *)
(* buffer behind the fixed ones.  Map items are numbered.                  *)
LayoutMemory ==
  /\ phase = "memory"
  /\ LET bytes == VarBytes(memVar[chan])
         varbuf == NewChunk(chunkID + 1, "varbuf", bytes, W, {chan}, FALSE)
     IN  /\ memFixed' = [memFixed EXCEPT ![chan] =
                            LaidOut(IF bytes > 0 THEN AddWithPrio(@, varbuf, 99) ELSE @)]
         /\ chunkID' = IF bytes > 0 THEN chunkID + 1 ELSE chunkID
  /\ fpages' = [fpages EXCEPT ![chan] = Numbered(@)]
  /\ Advance("budget", "collect")
  /\ UNCHANGED <<request, regFixed, regVar, memVar, strings, budget, loop,
                 cursor, numbering>>

(* The order of string buffers on the server: IN, INOUT, OUT, temporary.   *)
DirectionPrio(chunk, c) ==              \* temporaries taken for strings
  IF c # CHANNEL_IN THEN 3 ELSE IF CHANNEL_OUT \in chunk.chans THEN 2 ELSE 1

BufferPrio(chunk, c) ==
  CASE ~chunk.xfer -> 4
    [] chunk.xfer /\ c # CHANNEL_IN -> 3
    [] chunk.xfer /\ c = CHANNEL_IN /\ CHANNEL_OUT \in chunk.chans -> 2
    [] OTHER -> 1

(* One string of the channel enters the list of buffers, unless it did so  *)
(* as a string of the request.                                             *)
CollectBuffer ==
  /\ phase = "collect"
  /\ cursor <= Len(strings[chan])
  /\ LET chunk == strings[chan][cursor]
         buffer == NewChunk(chunk.id, chunk.part, 1, 1, chunk.chans, FALSE)
     IN  buffers' = IF chan = CHANNEL_IN \/ CHANNEL_IN \notin chunk.chans
                    THEN AddWithPrio(buffers, buffer, BufferPrio(chunk, chan))
                    ELSE buffers
  /\ cursor' = cursor + 1
  /\ UNCHANGED <<phase, request, chunkID, lists, chan, budget, loop, newList>>

CollectNextChannel ==
  /\ phase = "collect"
  /\ cursor > Len(strings[chan])
  /\ cursor' = 1
  /\ Advance("collect", "number")
  /\ UNCHANGED <<request, chunkID, lists, budget, loop, buffers, newList>>

(* A string gets the number of its buffer and is sorted in by it.          *)
NumberString ==
  /\ phase = "number"
  /\ strings[chan] # <<>>
  /\ LET chunk == Head(strings[chan])
         index == WalkTo(buffers, chunk.id)
     IN  newList' = AddWithPrio(newList, [chunk EXCEPT !.buf = index], index)
  /\ strings' = [strings EXCEPT ![chan] = Tail(@)]
  /\ UNCHANGED <<phase, request, chunkID, regFixed, regVar, memFixed, memVar,
                 fpages, chan, budget, loop, cursor, buffers>>

NumberNextChannel ==
  /\ phase = "number"
  /\ strings[chan] = <<>>
  /\ strings' = [strings EXCEPT ![chan] = Numbered(newList)]
  /\ newList' = <<>>
  /\ Advance("number", "done")
  /\ UNCHANGED <<request, chunkID, regFixed, regVar, memFixed, memVar, fpages,
                 budget, loop, cursor, buffers>>

(* "malformed" is for kernel messages (V4Kernel).                          *)
Final == {"done", "too_many_items", "varbuf_overflow", "malformed"}

Finished == phase \in Final /\ UNCHANGED vars

Marshal ==
  \/ SetOption
  \/ MarshalExceptionCode
  \/ GetFixedCopyChunk
  \/ GetUnboundedCopyChunk
  \/ GetBoundedCopyChunk
  \/ GetMapChunk

PackChannel ==
  \/ BeginChannel
  \/ TooManyItems
  \/ TakeFixed
  \/ PutBackFixed
  \/ SkipFixed
  \/ EndFixedPass
  \/ MoveVariable
  \/ PassVariable
  \/ EndVariablePass
  \/ AddRegisterBuffer
  \/ NoRegisterBuffer
  \/ LayoutMemory

NumberBuffers ==
  \/ CollectBuffer
  \/ CollectNextChannel
  \/ NumberString
  \/ NumberNextChannel

Step == Marshal \/ AddTags \/ PackChannel \/ NumberBuffers

Next == Step \/ Finished

Spec == Init /\ [][Next]_vars

(* The generator is one sequential program that never waits.               *)
FairSpec == Spec /\ WF_vars(Step)
=============================================================================
