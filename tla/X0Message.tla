----------------------------- MODULE X0Message -----------------------------
(***************************************************************************)
(* What the generated stubs and the kernel do with the layout X0Connection *)
(* computes: the dopes the stubs build from it, the C structures declared  *)
(* from it, and the properties the two sides of a call rely on.            *)
(***************************************************************************)
EXTENDS X0Connection

Words(c) == {dwords[c][i] : i \in DOMAIN dwords[c]}
Registers(c) == {registers[c][i] : i \in DOMAIN registers[c]}

(* analyzeChannel                                                          *)
FirstByte(sent, side) ==
  CHOOSE n \in {chunk[side] : chunk \in sent} : \A chunk \in sent : n <= chunk[side]
EndByte(sent, side) ==
  CHOOSE n \in {chunk[side] + chunk.size : chunk \in sent} :
    \A chunk \in sent : n >= chunk[side] + chunk.size

SentWords(c) == {chunk \in Words(c) : XFER_COPY \in chunk.flags}
FixedWords(c) == {chunk \in Words(c) : XFER_FIXED \in chunk.flags}

LongMessage(c) == SentWords(c) # {} \/ HasStrings(c) \* ~isShortIPC

SenderSide(c) == IF c = CHANNEL_IN THEN "client" ELSE "server"

(* buildSendDope: the words behind the registers it promises the kernel.   *)
DopeBytesDown(c) ==                     \* an incomplete word lost
  IF FixedWords(c) = {} THEN 0
  ELSE ((EndByte(FixedWords(c), SenderSide(c))
           - FirstByte(FixedWords(c), SenderSide(c))) \div WordSize) * WordSize
DopeBytes(c) ==
  IF FixedWords(c) = {} THEN 0
  ELSE AlignUp(EndByte(FixedWords(c), SenderSide(c))
                 - FirstByte(FixedWords(c), SenderSide(c)), WordSize)

(* buildServerBackjump: where the message lies that a long reply is sent   *)
(* from.                                                                   *)
GenericReplyAt(c) == IF c = CHANNEL_OUT THEN svrOutputOffset ELSE 0

ReplyAt(c) ==
  IF platform = "generic" THEN GenericReplyAt(c)
  ELSE IF SentWords(c) = {} THEN 4
  ELSE FirstByte(SentWords(c), "server") - HeaderSize

(* The bytes a reply writes in front of its registers: the send dope and,  *)
(* for strings, a size dope.  On ia32 the primary size dope stays.         *)
WritesSizeDope(c) ==
  HasStrings(c) /\ (platform = "generic" \/ ReplyAt(c) > 0)

DopesWritten(c) ==
  LET at == ReplyAt(c)
  IN  (at + 8 .. at + 11) \cup (IF WritesSizeDope(c) THEN at + 4 .. at + 7 ELSE {})

(* buildMessageMembers: the fields of the C structure of a message, in the *)
(* sequence in which they are declared.                                    *)
Fields(chunk, side) ==
  IF chunk.part # "shared"
  THEN <<[at |-> chunk[side], size |-> chunk.size, align |-> chunk.align]>>
  ELSE LET ends == [k \in 0 .. Len(chunk.members) |-> Bytes(SubSeq(chunk.members, 1, k))]
       IN  [k \in DOMAIN chunk.members |->
              [at |-> chunk[side] + ends[k - 1], size |-> chunk.members[k].size,
               align |-> chunk.members[k].align]]

Flag(side) == IF side = "client" THEN ALLOC_CLIENT ELSE ALLOC_SERVER

Declared(c, side) ==
  SelectSeq(dopes[c] \o registers[c] \o dwords[c] \o strings[c],
            LAMBDA chunk : Flag(side) \in chunk.flags)

Structure(c, side) ==
  FlattenSeq([i \in DOMAIN Declared(c, side) |-> Fields(Declared(c, side)[i], side)])

BufferBase(side) == IF side = "server" THEN 0 - LocalVars * WordSize ELSE 0

(* What the C compiler aligns a field to: map items are two words.         *)
FieldAlign(field) == IF field.align > WordSize THEN WordSize ELSE field.align

(* No value has to share a register at an offset its type does not allow.  *)
SharedAligned ==
  \A c \in Channel : \A chunk \in Registers(c) :
    chunk.part = "shared" =>
      \A k \in DOMAIN chunk.members :
        Bytes(SubSeq(chunk.members, 1, k - 1)) % chunk.members[k].align = 0

(* The structures both sides declare: clients for long messages only.  The *)
(* reply of a one-way operation is left out: on the generic platform its   *)
(* dopes may lie on the string dopes.                                      *)
Structures ==
  {<<c, "client">> : c \in {d \in Channel : LongMessage(d)}}
    \cup {<<c, "server">> : c \in IF sig.oneway THEN {CHANNEL_IN} ELSE Channel}

(* The words of the request lie close together.                            *)
RequestUnpadded ==
  LET list == dwords[CHANNEL_IN]
  IN  \A i \in DOMAIN list :
        list[i].server = HeaderSize + Bytes(SubSeq(list, 1, i - 1))

Done == phase = "done"

Apart(a, aEnd, b, bEnd) == aEnd <= b \/ bEnd <= a

-----------------------------------------------------------------------------

(* The lists hold chunks, the loops stay in their bounds and registers are *)
(* never counted beyond what there are.                                    *)
IsChunk(chunk) ==
  /\ chunk.id \in Nat \cup {UNKNOWN}
  /\ chunk.size \in Nat
  /\ chunk.align \in {1, 2, 4, 8}
  /\ chunk.chans \subseteq Channel
  /\ chunk.flags \subseteq STANDARD \cup {INIT_ZERO, PINNED}

TypeOK ==
  /\ pos \in 0 .. Len(sig.params)
  /\ chan \in Channel
  /\ \A c \in Channel :
       /\ regsUsed[c] \in 0 .. NumRegs
       /\ \A list \in {dopes[c], registers[c], dwords[c], vars_[c], strings[c]} :
            \A i \in DOMAIN list : IsChunk(list[i])
  /\ regsLeft \in 0 .. NumRegs
  /\ outAlign \in {4, 8}
  /\ svrOutputOffset \in Nat

(* The assertions of optimize hold on every path: the padding behind map   *)
(* items finds two registers, no word chunk ends up misaligned on one side *)
(* after it was aligned for the other one, and no pinned register is taken *)
(* already (optimizer.cc 126, 413 and 482).                                *)
NoLayoutAssertion == phase \notin {"pad_assertion", "misaligned", "pin_assertion"}

(* Two values of a message never get the same bytes of a register, and no  *)
(* value gets a register that does not exist: fid or exception code, map   *)
(* items, INOUT values and what shares the rest were counted by four loops.*)
RegistersDisjoint ==
  Done => \A c \in Channel :
    /\ \A chunk \in Registers(c) :
         chunk.clientIndex >= 0 /\ chunk.client + chunk.size <= HeaderSize
    /\ \A i, j \in DOMAIN registers[c] :
         LET a == registers[c][i]
             b == registers[c][j]
         IN  i < j => Apart(a.client, a.client + a.size, b.client, b.client + b.size)

(* Every value the operation asked for is in each of its messages once.    *)
PlacedIds(c) ==
  FlattenSeq([i \in DOMAIN registers[c] |->
    [k \in DOMAIN MembersOf(registers[c][i]) |-> MembersOf(registers[c][i])[k].id]])
  \o [i \in DOMAIN dwords[c] |-> dwords[c][i].id]

EveryValuePlaced ==
  Done => \A c \in {CHANNEL_IN, CHANNEL_OUT} :
    \A p \in DOMAIN sig.params :
      LET id == IF sig.oneway THEN p ELSE p + 1
          aString == sig.params[p].kind = "variable" /\ WorthString(sig.params[p])
          due == IF aString \/ c \notin sig.params[p].chans THEN 0 ELSE 1
      IN  Cardinality({i \in DOMAIN PlacedIds(c) : PlacedIds(c)[i] = id}) = due

(* The kernel copies the words of a message as one block: in every channel *)
(* client and server look for each of them at the same distance, which is  *)
(* the displacement of the reply in the server's buffer or zero.           *)
SameDistance ==
  Done => \A c \in Channel : \A chunk \in SentWords(c) :
    chunk.server - chunk.client = IF c = CHANNEL_OUT THEN svrOutputOffset ELSE 0

(* The send dope covers all words with fixed positions, and variable data, *)
(* whose length is added to it at run time, starts exactly behind them.    *)
SendDopeCovers ==
  Done => \A c \in Channel : \A chunk \in SentWords(c) :
    LET side == SenderSide(c)
        start == HeaderSize + IF side = "client" THEN 0 ELSE ReplyAt(c)
    IN  IF chunk.part = "varbuf" THEN chunk[side] = start + DopeBytes(c)
        ELSE chunk[side] >= start /\ chunk[side] + chunk.size <= start + DopeBytes(c)

(* String dopes are copied in sequence, too: each message's strings are in *)
(* the same positions on both sides up to a displacement.  On the server a *)
(* string that goes both ways keeps its position in all messages, and one  *)
(* of the reply never takes that of one of the request.                    *)
Sent(c) == {strings[c][i] : i \in Strings(c)}

StringsKeepPlaces ==
  Done => \A c \in Channel : \A s, t \in Sent(c) :
    /\ s.serverIndex - s.clientIndex = t.serverIndex - t.clientIndex
    /\ \A d \in Channel : \A u \in Sent(d) :
         c # d /\ c = CHANNEL_IN => (s.id = u.id <=> s.serverIndex = u.serverIndex)

(* Writing the dopes of a reply leaves the receive window and size dope of *)
(* the server alone, with which it waits for the next request ("Size dope  *)
(* overwritten", arch/x0/ia32/serverloop.cc), and the words of the reply.  *)
ServerDopesKept ==
  Done /\ ~sig.oneway => \A c \in AllOut :
    LongMessage(c) =>
      /\ DopesWritten(c) \cap (0 .. 7) = {}
      /\ \A chunk \in SentWords(c) \cup Sent(c) :
           DopesWritten(c) \cap (chunk.server .. chunk.server + chunk.size - 1) = {}

(* Server functions write output values while they still read their inputs *)
(* ("Output value collision detected", be/types/integer.cc): a word of the *)
(* reply never lies on one of the request unless it is the same INOUT one. *)
InputsSurvive ==
  Done => \A in \in Words(CHANNEL_IN), out \in Words(CHANNEL_OUT) :
    \/ in.id = out.id /\ in.server = out.server
    \/ Apart(in.server, in.server + in.size, out.server, out.server + out.size)

(* The same for requests without padding between their words.              *)
UnpaddedInputsSurvive == RequestUnpadded => InputsSurvive

(* An INOUT word the reply finds where the request has it is not copied by *)
(* the stub, so if replies overlap all of them must.                       *)
InoutsStay ==
  Done /\ overlap = "inouts" /\ RequestUnpadded =>
    \A in \in Words(CHANNEL_IN), out \in Words(CHANNEL_OUT) :
      in.id = out.id => in.server = out.server

(* The C compiler puts the fields of both sides' structures where the      *)
(* generator wants them: each behind the one declared before it, for the   *)
(* spacer between them cannot have a negative size, and aligned, for it    *)
(* would insert padding otherwise.  Values sharing a register badly and    *)
(* replies of one-way operations are the exceptions.                       *)
StructuresMatch ==
  Done /\ SharedAligned => \A s \in Structures :
    LET fields == Structure(s[1], s[2])
    IN  \A i \in DOMAIN fields :
          /\ (fields[i].at - BufferBase(s[2])) % FieldAlign(fields[i]) = 0
          /\ i > 1 => fields[i - 1].at + fields[i - 1].size <= fields[i].at

(* assignFCCDataToBuffer asserts that an INOUT word of the reply is a word *)
(* of the request, too (fcc.cc 59).                                        *)
InoutsInBothMessages ==
  Done => \A out \in Words(CHANNEL_OUT) :
    CHANNEL_IN \in out.chans /\ out.part = "value" =>
      \E in \in Words(CHANNEL_IN) : in.id = out.id
=============================================================================
