----------------------------- MODULE V4Message -----------------------------
(***************************************************************************)
(* What the stub generator makes of an optimized connection: the message   *)
(* tag, the message struct, the memory message and the receive buffers     *)
(* (arch/v4/clientcall.cc, arch/v4/ms.cc, arch/v4/vcc.cc), and what the    *)
(* two ends of an RPC rely on.                                             *)
(***************************************************************************)
EXTENDS V4Connection

LastMR == 63                            \* L4_MsgLoad handles MR0 .. MR63

ASSUME RegisterAssumption == AvailableMRs <= LastMR + 1

-----------------------------------------------------------------------------
(* The generated message                                                   *)

ChunkEnds(list) == {list[i].offset + list[i].size : i \in DOMAIN list}

(* getMaxUntypedWordsInChannel: the words after the tag, from the offsets. *)
UntypedWordsUp(c) ==                    \* one more on a word boundary
  Max({W} \cup ChunkEnds(regFixed[c])) \div W

UntypedWords(c) == (Max({W} \cup ChunkEnds(regFixed[c])) - 1) \div W

TransferredStrings(c) == {i \in DOMAIN strings[c] : strings[c][i].xfer}

(* The typed part of the message tag; buildServerBackjump counts the same. *)
TypedWords(c) ==
  2 * Cardinality(TransferredStrings(c)) + 2 * Len(fpages[c])
    + (IF NeedsMem(c) THEN 2 ELSE 0)

(* buildMessageMembers: the register chunks, then _memmsg, the transferred *)
(* strings and the map items, two words each.  These are byte positions of *)
(* the members the C compiler arrives at.                                  *)
TypedPartStart(c) == AlignUp(LayoutEnd(regFixed[c]), W)

(* assumedPos of buildPositionTest                                         *)
AssumedPosition(c) == (UntypedWords(c) + 1) * W

(* Which string item of the message a transferred string is, from 0: the   *)
(* kernel stores item k in receive buffer k.                               *)
ItemNumber(c, i) ==
  Cardinality({j \in TransferredStrings(c) : j < i}) + (IF NeedsMem(c) THEN 1 ELSE 0)

(* getOutStringItems: the receive buffers a client needs for the reply.    *)
OutStringItems ==
  Cardinality(TransferredStrings(CHANNEL_OUT)) + (IF NeedsMem(CHANNEL_OUT) THEN 1 ELSE 0)

(* buildClientInit: string k of the reply gets BR 2k + 1 and 2k + 2, then  *)
(* the memory message takes BR 1 and 2.  Bit 0 of the word before a buffer *)
(* tells the kernel that the buffer follows.                               *)
MemoryBuffer(n) == n = 0 /\ NeedsMem(CHANNEL_OUT)

BufferFollows(n) ==
  IF n = 0 THEN OutStringItems > 0
  ELSE ~MemoryBuffer(n - 1) /\ n < OutStringItems

ClientBufferHolds(n, i) == ~MemoryBuffer(n) /\ strings[CHANNEL_OUT][i].offset = n

(* The kernel reaches the buffer of string i of the reply, and the client  *)
(* finds it there.                                                         *)
BufferReached(i) ==
  LET n == ItemNumber(CHANNEL_OUT, i)
  IN  ClientBufferHolds(n, i) /\ \A k \in 0 .. n : BufferFollows(k)

(* getMemMsgDisplacementOnServer, in bytes                                 *)
Displacement ==
  IF memFixed[CHANNEL_IN] = <<>> \/ \A c \in AllOut : memFixed[c] = <<>>
  THEN 0
  ELSE LET kept == SelectSeq(memFixed[CHANNEL_IN], LAMBDA k : k.xfer)
       IN  AlignUp(Max({0} \cup ChunkEnds(kept)), W)

(* getMaxStringBuffersRequiredOnServer                                     *)
LargestBuffer ==                        \* the largest index for the number
  Max({0} \cup
      {Max({0} \cup {strings[c][i].buf : i \in DOMAIN strings[c]})
         + (IF NeedsMem(c) THEN 1 ELSE 0) : c \in Channel})

StringBuffers ==
  Max({0} \cup
      {Max({0} \cup {1 + strings[c][i].buf : i \in DOMAIN strings[c]})
         + (IF NeedsMem(c) THEN 1 ELSE 0) : c \in Channel})

-----------------------------------------------------------------------------
(* Properties                                                              *)

Done == phase = "done"

(* Every variable has its type.                                            *)
TypeOK ==
  /\ phase \in {"options", "marshal", "budget", "fixed", "variable", "layout",
                "memory", "collect", "number"} \cup Final
  /\ sig \in Signature
  /\ pos \in 0 .. Len(sig.params)
  /\ chunkID \in Nat
  /\ initialized \in SUBSET Channel
  /\ regFixed \in [Channel -> Seq(SizedChunk)]
  /\ regVar \in [Channel -> Seq(SizedChunk)]
  /\ memFixed \in [Channel -> Seq(SizedChunk)]
  /\ memVar \in [Channel -> Seq(SizedChunk)]
  /\ strings \in [Channel -> Seq(AnyChunk)]
  /\ fpages \in [Channel -> Seq(SizedChunk)]
  /\ chan \in Channel
  /\ needMem \in [Channel -> BOOLEAN]
  /\ maxBytes \in [Channel -> Nat]
  /\ remaining \in Nat
  /\ oldRemaining \in Nat
  /\ progress \in BOOLEAN
  /\ processed \in Seq(SizedChunk)
  /\ cursor \in Nat \ {0}
  /\ buffers \in Seq(SizedChunk)
  /\ newList \in Seq(AnyChunk)

(* The memory message of the channel was given up (optimizer.cc 326-332)   *)
(* although chunks were left for it.                                       *)
ReleasedTooEarly(c) == NeedsMem(c) /\ ~needMem[c]

(* The register layout stays within the registers the typed items leave,   *)
(* after every step of the packing: what "panic: More than 64 MRs used!"   *)
(* and the test behind layoutMessageRegisters are for (optimizer.cc 295,   *)
(* 318, 379).                                                              *)
LayoutWithinBudget ==
  \A c \in Channel :
    phase \in {"fixed", "variable", "layout", "memory"} /\ c = chan =>
      /\ LayoutEnd(regFixed[c]) <= maxBytes[c]
      /\ maxBytes[c] + 2 * W * (Len(strings[c]) + Len(fpages[c])
            + (IF needMem[c] THEN 1 ELSE 0)) <= AvailableMRs * W

(* A message that did not lose its memory message to an early release      *)
(* fits MR0 .. MR63 with all its typed items.                              *)
MessageFitsRegisters ==
  Done => \A c \in Channel :
    ~ReleasedTooEarly(c) => TypedPartStart(c) + W * TypedWords(c) <= (LastMR + 1) * W

(* The same without the exception, as the comment at optimizer.cc 323      *)
(* promises: "the memory message may not be necessary any more".           *)
EveryMessageFitsRegisters ==
  Done => \A c \in Channel : TypedPartStart(c) + W * TypedWords(c) <= (LastMR + 1) * W

(* A one-way operation has no reply.                                       *)
InUse(c) == ~(sig.oneway /\ c = CHANNEL_OUT)

(* A fixed chunk found no room in the registers and stays in the memory    *)
(* message, perhaps after it was tried and taken out again.                *)
LeftBehind(c) == \E i \in DOMAIN memFixed[c] : memFixed[c][i].part # "varbuf"

(* The typed items begin where the message tag announces them, at the      *)
(* first word behind the chunks in registers, unless a fixed chunk was     *)
(* left behind; and the tag never cuts off a transferred word              *)
(* (clientcall.cc 3-18).                                                   *)
TypedItemsWhereAnnounced ==
  Done => \A c \in Channel : InUse(c) =>
    /\ ~LeftBehind(c) => AssumedPosition(c) = TypedPartStart(c)
    /\ AssumedPosition(c) >= TypedPartStart(c)

(* The same without the exception. The stubs generated for a test compare  *)
(* the two positions: "Alignment error in channel %d: First typed item %s  *)
(* is at %%d (should be %d)" (ms.cc 1327-1357).                            *)
AnnouncedPositionExact ==
  Done => \A c \in Channel : InUse(c) => AssumedPosition(c) = TypedPartStart(c)

(* What the operation's parameters put into a channel, as <<id, part>>.    *)
PartsOf(p) ==
  CASE p.kind = "fixed" -> {"value"}
    [] p.kind = "string" -> {"string"}
    [] p.kind = "bounded" -> {"data", "count", "temp"}
    [] p.kind = "fpage" -> {"fpage"}

Requested(c) ==
  LET first == IF sig.oneway THEN 0 ELSE 1
  IN  UNION {{<<first + k, part>> : part \in PartsOf(sig.params[k])} :
               k \in {k \in DOMAIN sig.params : c \in sig.params[k].chans}}

(* Everything the connection holds for a channel; what a loop has in its   *)
(* hands belongs to the channel it works on.                               *)
Held(c) ==
  regFixed[c] \o memFixed[c] \o regVar[c] \o memVar[c] \o strings[c] \o fpages[c]
    \o (IF c = chan THEN processed \o newList ELSE <<>>)

(* How often a list holds the chunk of that <<id, part>>.                  *)
Key(chunk) == <<chunk.id, chunk.part>>

Copies(list, key) == Cardinality({i \in DOMAIN list : Key(list[i]) = key})

(* Every requested chunk is in the hands of its channel exactly once, the  *)
(* elsewhere included, and besides tags and shared buffers nothing else.   *)
HeldOnce(c, elsewhere) ==
  LET all == Held(c) \o elsewhere
  IN  /\ \A i \in DOMAIN all :
           all[i].part \notin {"tag", "varbuf"} => Key(all[i]) \in Requested(c)
      /\ \A key \in Requested(c) : Copies(all, key) = 1

(* A _varbuf holds all variable chunks that share it, each starting at a   *)
(* word: the generated index _regvaridx or _memvaridx never runs out of it *)
(* (vcc.cc 39-56, 68-85).  Chunks without a byte need none.                *)
HoldsVariable(list, bytes) ==
  bytes > 0 => \E i \in DOMAIN list : list[i].part = "varbuf" /\ list[i].size >= bytes

VarbufsSuffice ==
  Done => \A c \in Channel :
    /\ HoldsVariable(regFixed[c], VarBytes(regVar[c]))
    /\ HoldsVariable(memFixed[c], VarBytes(memVar[c]))

(* Without a memory message in the way, the receive buffer the kernel      *)
(* fills with a string is the one the stub reads it from: _str[15 - buf]   *)
(* on the server (vcc.cc 179-194), BR 2 * (offset + 1) on the client       *)
(* (vcc.cc 143-157), although temporaries and the strings of the other     *)
(* direction are numbered in between.                                      *)
StringsArriveWhereRead ==
  Done =>
    /\ ~NeedsMem(CHANNEL_IN) =>
         \A i \in TransferredStrings(CHANNEL_IN) :
           strings[CHANNEL_IN][i].buf = ItemNumber(CHANNEL_IN, i)
    /\ ~NeedsMem(CHANNEL_OUT) =>
         \A i \in TransferredStrings(CHANNEL_OUT) : BufferReached(i)

(* On the server different parameters use different string buffers, both   *)
(* directions of one parameter the same, and the server loop allocates     *)
(* them all (_STRBUF_SIZE, serverloop.cc 20).                              *)
BuffersNotShared ==
  Done => \A c, d \in Channel : \A i \in DOMAIN strings[c], j \in DOMAIN strings[d] :
    /\ strings[c][i].buf = strings[d][j].buf <=> strings[c][i].id = strings[d][j].id
    /\ strings[c][i].buf \in 0 .. StringBuffers - 1

(* "Strings have their own buffer" (vcc.cc 424), and a memory message is   *)
(* "an additional StringItem" (clientcall.cc 23): that of the request,     *)
(* which the server expects in _str[15] (ms.cc 791-815), does not use a    *)
(* buffer that belongs to a string, and with that of the reply the kernel  *)
(* still reaches the client's buffer for every string (ms.cc 1118-1149).   *)
MemoryMessageHasOwnBuffer ==
  Done =>
    /\ NeedsMem(CHANNEL_IN) =>
         \A c \in Channel : \A i \in DOMAIN strings[c] : strings[c][i].buf # 0
    /\ \A i \in TransferredStrings(CHANNEL_OUT) : BufferReached(i)

(* "Output value collision detected" (be/types/integer.cc 213-223): the    *)
(* memory message of the reply begins behind everything the request's      *)
(* memory message holds.                                                   *)
ReplyBehindRequest ==
  Done /\ Displacement > 0 =>
    \A i \in DOMAIN memFixed[CHANNEL_IN] :
      LET k == memFixed[CHANNEL_IN][i] IN k.offset + k.size <= Displacement

(* The nested do-while loops of optimize come to an end.                   *)
Terminates == <>(phase \in Final)
=============================================================================
