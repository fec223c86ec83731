------------------------------- MODULE Stubs -------------------------------
(* One call through the code that the marshalling operations generate: the   *)
(* client stub, the server stub and the stub that answers later, on V4.  The *)
(* operations are those ParameterOrder put in order.  Values are copied      *)
(* through words of the message, through its variable part (strings in       *)
(* op.inline) or by string items, which name memory that the kernel reads    *)
(* when the message is sent; memory is allocated, handed over and freed by   *)
(* the stubs, the caller and the function.                                   *)
EXTENDS ParameterOrder

CONSTANT
  MaxLength      \* the elements a buffer holds

(* An operation also has ret, the kind of its return value or "void", oneway,*)
(* and inline, the strings and directions the layout put into the message.   *)
ASSUME OperationsComplete ==
  \A o \in Operations :
     /\ o.ret \in {"void", "word", "string"} /\ o.oneway \in BOOLEAN
     /\ \A i \in o.inline :
           \/ i = <<Len(o.params) + 1, "out">> /\ o.ret = "string"
           \/ /\ i[1] \in 1..Len(o.params) /\ i[2] \in {"in", "out"}
              /\ o.params[i[1]].kind = "string"
              /\ o.params[i[1]].direction \in {i[2], "inout"}
ASSUME MaxLengthAssumption == MaxLength \in Nat \ {0}

VARIABLES
  client, server,   \* where the two stubs are
  ci, si,           \* the operation each works on
  c,                \* the caller's variables: a pointer, a length, a value
  s,                \* the server stub's variables
  req, rep,         \* the two messages
  read,             \* how much of the variable parts was read: [c, s]
  heap,             \* all memory: whether it is allocated, and what it holds
  misused,          \* memory that was used or freed after it was freed
  deferred,         \* the function left the answer to the reply stub
  ok,               \* the call returned normally
  given, taken, left   \* history: what the caller gave, the function got and left

stubVars == <<client, server, ci, si, c, s, req, rep, read, heap, misused,
              deferred, ok, given, taken, left>>
vars == <<orderVars, stubVars>>

Ret == Len(op.params) + 1
Slots == Params \cup (IF op.ret = "void" THEN {} ELSE {Ret})

(* The marshalling operation of a slot, named after what it copies. *)
Kind(p) == IF p = Ret THEN op.ret
           ELSE IF Param(p).noxfer THEN "alloc"
           ELSE IF IsArray(p) THEN "array" ELSE Param(p).kind
HasIn(p) == p # Ret /\ Kind(p) # "alloc" /\ Param(p).direction \in {"in", "inout"}
HasOut(p) == IF p = Ret THEN TRUE
             ELSE Kind(p) # "alloc" /\ Param(p).direction \in {"out", "inout"}
VarSized(p) == Kind(p) \in {"string", "array", "sequence"}
UseMalloc(p) == p = Ret \/ ~Param(p).prealloc

Claimed(p) == \E q \in Params : LengthOf(q) = {p}
ArrayOf(p) == CHOOSE q \in Params : LengthOf(q) = {p}
TheLength(p) == CHOOSE q \in LengthOf(p) : TRUE

Roles == {"caller", "frame", "alloc", "pool", "message", "own"}
None == <<"none", 0>>
Tags == {"junk", "in", "out", "length"}
Value == [tag : Tags, slot : 0..Ret, n : 0..MaxLength, wire : BOOLEAN]
Val(tag, p, n) == [tag |-> tag, slot |-> p, n |-> n, wire |-> FALSE]
Junk == Val("junk", 0, 0)
Length(n) == Val("length", 0, n)
Whole(p, tag, n) ==                       \* the value of slot p with n elements
  IF Claimed(p) THEN Length(n)
  ELSE IF Kind(p) = "array" /\ LengthOf(p) = {} THEN Val(tag, p, MaxLength)
  ELSE Val(tag, p, IF VarSized(p) THEN n ELSE 0)

(* Lengths of all values, an array's length telling the array's. *)
Lengths ==
  {n \in [Slots -> 1..MaxLength] :
     \A p \in Slots : IF Claimed(p) THEN n[p] = n[ArrayOf(p)] ELSE VarSized(p) \/ n[p] = 1}

(* The first n elements of a buffer. *)
Cut(v, n) == IF n <= v.n THEN [v EXCEPT !.n = n] ELSE Junk

(* idl4_marshal_x and idl4_unmarshal_x translate to and from the form of the *)
(* other side; what is already translated, or not yet, comes out wrong.      *)
Wire(v) == IF v.wire THEN Junk ELSE [v EXCEPT !.wire = TRUE]
Unwire(v) == IF v.wire THEN [v EXCEPT !.wire = FALSE] ELSE Junk

Live(o) == o \in DOMAIN heap /\ heap[o].live
Content(o) == IF Live(o) THEN heap[o].val ELSE Junk
Holding(v) == [live |-> TRUE, val |-> v]
Dead(objects) == {o \in objects : ~Live(o)}

(* The slots whose data a message names in a string item. *)
Items(dir) == {p \in Slots : /\ VarSized(p) /\ <<p, dir>> \notin op.inline
                             /\ IF dir = "in" THEN HasIn(p) ELSE HasOut(p)}

(* provideVCCTargetBuffer: the reply goes right into the caller's buffer. *)
Target(p) == Kind(p) \in {"array", "sequence"} /\ HasOut(p) /\ ~UseMalloc(p)
Frames == {<<"frame", p>> : p \in {q \in Items("out") : ~Target(q)}}
Landing(p) == IF Target(p) THEN c[p].ptr ELSE <<"frame", p>>

EmptyMessage == [word |-> [p \in Slots |-> Junk], len |-> [p \in Slots |-> 0],
                 ptr |-> [p \in Slots |-> None], var |-> <<>>]
AddWord(m, p, v) == [m EXCEPT !.word[p] = v]
(* assignVCCSizeAndDataToBuffer *)
AddData(m, p, dir, o, n) ==
  IF <<p, dir>> \in op.inline
  THEN [m EXCEPT !.len[p] = n, !.var = Append(@, Cut(Content(o), n))]
  ELSE [m EXCEPT !.len[p] = n, !.ptr[p] = o]
(* The next piece of a variable part. *)
FirstPiece(m, k) ==                                  \* mutant of NextPiece
  IF m.var # <<>> THEN m.var[1] ELSE Junk
NextPiece(m, k) == IF k < Len(m.var) THEN m.var[k + 1] ELSE Junk

(* What the caller brings: a value for each input, and a buffer of his own   *)
(* for each input of variable size and each preallocated output.             *)
Brings(p) == VarSized(p) /\ (HasIn(p) \/ ~UseMalloc(p))
CallerLength(p, n) ==
  IF HasIn(p) THEN Whole(p, "in", n)
  ELSE IF ~UseMalloc(ArrayOf(p)) THEN Length(n) ELSE Junk
CallerVariable(p, n) ==
  [ptr |-> IF Brings(p) THEN <<"caller", p>> ELSE None,
   len |-> IF Kind(p) = "sequence" /\ HasIn(p) THEN n ELSE 0,
   val |-> IF p \in Params /\ Claimed(p) THEN CallerLength(p, n)
           ELSE IF HasIn(p) /\ ~VarSized(p) THEN Whole(p, "in", n) ELSE Junk]

(* What a variable stands for, to the caller and to the function. *)
Elements(v, p) == IF Kind(p) = "sequence" THEN v[p].len
                  ELSE IF LengthOf(p) = {} THEN MaxLength ELSE v[TheLength(p)].val.n
Seen(p) ==
  IF ~VarSized(p) THEN c[p].val
  ELSE IF Kind(p) = "string" THEN Content(c[p].ptr)
  ELSE Cut(Content(c[p].ptr), Elements(c, p))
ServerLength(p) == IF LengthOf(p) = {} THEN MaxLength ELSE s[p].len
Received(p) ==
  IF Claimed(p) THEN Length(s[ArrayOf(p)].len)
  ELSE IF ~VarSized(p) THEN s[p].val
  ELSE IF Kind(p) = "string" THEN Content(s[p].ptr)
  ELSE Cut(Content(s[p].ptr), IF Kind(p) = "sequence" THEN s[p].len ELSE ServerLength(p))

InSlots  == {p \in Slots : HasIn(p)}
OutSlots == {p \in Slots : HasOut(p)}

StubInit ==
  /\ Init
  /\ client = "start" /\ server = "idle" /\ ci = 1 /\ si = 1
  /\ \E n \in Lengths :
       /\ c = [p \in Slots |-> CallerVariable(p, n[p])]
       /\ heap = [o \in Roles \X Slots |->
            LET p == o[2] IN
            IF o[1] = "caller" /\ Brings(p)
            THEN Holding(IF HasIn(p) THEN Whole(p, "in", n[p]) ELSE Junk)
            ELSE [live |-> o[1] = "pool", val |-> Junk]]
       /\ given = [p \in Slots |-> IF HasIn(p) THEN Whole(p, "in", n[p])
                                   ELSE IF p \in Params /\ Claimed(p) THEN CallerLength(p, n[p]) ELSE Junk]
  /\ s = [p \in Slots |-> [ptr |-> None, len |-> 0, val |-> Junk]]
  /\ req = EmptyMessage /\ rep = EmptyMessage /\ read = [c |-> 0, s |-> 0]
  /\ misused = {} /\ deferred = FALSE /\ ok = FALSE
  /\ taken = <<>> /\ left = <<>>

-----------------------------------------------------------------------------
(* The client stub. *)

(* buildClientInit: memory to receive the strings of the reply in. *)
Start ==
  /\ stage = "generated" /\ client = "start" /\ client' = "marshal"
  /\ heap' = [o \in DOMAIN heap |-> IF o \in Frames THEN Holding(Junk) ELSE heap[o]]
  /\ UNCHANGED <<orderVars, server, ci, si, c, s, req, rep, read, misused, deferred, ok,
                 given, taken, left>>

(* buildClientMarshal, of one operation after the other.  A string is as long*)
(* as its contents, an array as its length parameter or constant says.       *)
SendWord(p) ==
  /\ Kind(p) \in {"word", "struct"}
  /\ req' = AddWord(req, p, c[p].val)
  /\ UNCHANGED <<c, misused>>
SendThread(p) ==
  /\ Kind(p) = "thread"
  /\ req' = AddWord(req, p, Wire(c[p].val))
  /\ UNCHANGED <<c, misused>>
SendMap(p) ==
  /\ Kind(p) = "map"
  /\ req' = AddWord(req, p, c[p].val)
  /\ UNCHANGED <<c, misused>>

SendData(p, n) ==
  /\ req' = AddData(req, p, "in", c[p].ptr, n)
  /\ misused' = misused \cup Dead({c[p].ptr})

StrLenTerminated(v, p) == Content(v[p].ptr).n + 1    \* mutant of StrLen
StrLen(v, p) == Content(v[p].ptr).n
SendString(p) ==
  /\ Kind(p) = "string"
  /\ c' = [c EXCEPT ![p].len = StrLen(c, p)]         \* clientInLengthVar
  /\ SendData(p, StrLen(c, p))
SendArray(p) ==
  /\ Kind(p) = "array"
  /\ SendData(p, Elements(c, p))
  /\ UNCHANGED c
SendSequence(p) ==
  /\ Kind(p) = "sequence"
  /\ SendData(p, c[p].len)
  /\ UNCHANGED c

ClientMarshal ==
  /\ client = "marshal" /\ ci <= Len(ops) /\ ci' = ci + 1
  /\ LET p == ops[ci] IN
     \/ ~HasIn(p) /\ UNCHANGED <<req, c, misused>>
     \/ HasIn(p) /\ (\/ SendWord(p) \/ SendThread(p) \/ SendMap(p)
                     \/ SendString(p) \/ SendArray(p) \/ SendSequence(p))
  /\ UNCHANGED <<orderVars, client, server, si, s, rep, read, heap, deferred, ok,
                 given, taken, left>>

(* The IPC: the kernel copies what the string items name into the server's   *)
(* buffers.                                                                  *)
Call ==
  /\ client = "marshal" /\ ci > Len(ops)
  /\ client' = IF op.oneway THEN "unmarshal" ELSE "waiting"
  /\ server' = "unmarshal" /\ ci' = 1
  /\ heap' = [o \in DOMAIN heap |->
       IF o[1] = "pool" /\ o[2] \in Items("in")
       THEN Holding(Cut(Content(req.ptr[o[2]]), req.len[o[2]])) ELSE heap[o]]
  /\ misused' = misused \cup Dead({req.ptr[p] : p \in Items("in")})
  /\ UNCHANGED <<orderVars, si, c, s, req, rep, read, deferred, ok, given, taken, left>>

(* The server cannot be reached, or does not answer in time. *)
CallFails ==
  /\ \/ client = "marshal" /\ ci > Len(ops)
     \/ client = "waiting"
  /\ client' = "failed"
  /\ UNCHANGED <<orderVars, server, ci, si, c, s, req, rep, read, heap, misused, deferred, ok,
                 given, taken, left>>

(* buildClientUnmarshal.  A new buffer is allocated for what arrives unless  *)
(* the caller provided one; the one it replaces is freed, of a string only   *)
(* when it is too small, of an array whoever owns it.                        *)
Arrived == IF client = "unmarshal" \/ ok THEN rep ELSE EmptyMessage
Outgrown(p) == c[p].len < Arrived.len[p]
Piece(p) == IF <<p, "out">> \in op.inline THEN NextPiece(Arrived, read.c)
            ELSE Cut(Content(Landing(p)), Arrived.len[p])

TakeWord(p) ==
  /\ Kind(p) \in {"word", "struct"}
  /\ c' = [c EXCEPT ![p].val = Arrived.word[p]]
  /\ UNCHANGED <<heap, misused, read>>
TakeThread(p) ==
  /\ Kind(p) = "thread"
  /\ c' = [c EXCEPT ![p].val = Unwire(Arrived.word[p])]
  /\ UNCHANGED <<heap, misused, read>>
TakeMap(p) ==
  /\ Kind(p) = "map"
  /\ c' = [c EXCEPT ![p].val = Arrived.word[p]]
  /\ UNCHANGED <<heap, misused, read>>

(* The length goes where it belongs, and the data, if they are not there yet,*)
(* into the buffer.                                                          *)
TakeData(p, buffer, frees, copies) ==
  /\ c' = [q \in Slots |->
       IF q = p THEN [c[p] EXCEPT !.ptr = buffer,
                        !.len = IF Kind(p) = "sequence" THEN Arrived.len[p] ELSE @]
       ELSE IF LengthOf(p) = {q} THEN [c[q] EXCEPT !.val = Length(Arrived.len[p])]
       ELSE c[q]]
  /\ heap' = [o \in DOMAIN heap |->
       IF copies /\ o = buffer THEN Holding(Piece(p))
       ELSE IF frees /\ o = c[p].ptr THEN [heap[o] EXCEPT !.live = FALSE]
       ELSE heap[o]]
  /\ misused' = misused
       \cup Dead(   (IF frees \/ buffer = c[p].ptr THEN {c[p].ptr} ELSE {})
               \cup (IF p \in Items("out") THEN {Landing(p)} ELSE {}))
  /\ read' = IF <<p, "out">> \in op.inline THEN [read EXCEPT !.c = @ + 1] ELSE read

New(p) == <<"alloc", p>>
StringKept(p) ==                                     \* mutant of TakeString
  /\ Kind(p) = "string"
  /\ TakeData(p, IF HasIn(p) /\ ~Outgrown(p) THEN c[p].ptr ELSE New(p), FALSE, TRUE)
TakeString(p) ==
  /\ Kind(p) = "string"
  /\ IF HasIn(p) /\ ~Outgrown(p)
     THEN TakeData(p, c[p].ptr, FALSE, TRUE)
     ELSE TakeData(p, New(p), HasIn(p), TRUE)
TakeArray(p) ==
  /\ Kind(p) = "array"
  /\ TakeData(p, IF UseMalloc(p) THEN New(p) ELSE c[p].ptr, HasIn(p), UseMalloc(p))
TakeSequence(p) ==
  /\ Kind(p) = "sequence"
  /\ IF UseMalloc(p) THEN TakeData(p, New(p), HasIn(p), TRUE)
     ELSE TakeData(p, c[p].ptr, FALSE, FALSE)

ClientUnmarshal ==
  /\ client = "unmarshal" /\ ci <= Len(ops) /\ ci' = ci + 1
  /\ LET p == ops[ci] IN
     \/ ~HasOut(p) /\ UNCHANGED <<c, heap, misused, read>>
     \/ HasOut(p) /\ (\/ TakeWord(p) \/ TakeThread(p) \/ TakeMap(p)
                      \/ TakeString(p) \/ TakeArray(p) \/ TakeSequence(p))
  /\ UNCHANGED <<orderVars, client, server, si, s, req, rep, deferred, ok,
                 given, taken, left>>

(* buildClientFinish, at the end of what is done only after a normal answer. *)
Finish ==
  /\ client = "unmarshal" /\ ci > Len(ops)
  /\ client' = "return" /\ ok' = TRUE
  /\ heap' = [o \in DOMAIN heap |->
       IF o \in Frames THEN [heap[o] EXCEPT !.live = FALSE] ELSE heap[o]]
  /\ UNCHANGED <<orderVars, server, ci, si, c, s, req, rep, read, misused, deferred,
                 given, taken, left>>

SkipUnmarshal ==
  /\ client = "failed" /\ client' = "return"
  /\ UNCHANGED <<orderVars, server, ci, si, c, s, req, rep, read, heap, misused, deferred, ok,
                 given, taken, left>>

(* The return value is unmarshalled last, whether the call succeeded or not. *)
Return ==
  /\ client = "return" /\ client' = "done"
  /\ IF op.ret = "void" THEN UNCHANGED <<c, heap, misused, read>>
     ELSE TakeWord(Ret) \/ TakeString(Ret)
  /\ UNCHANGED <<orderVars, server, ci, si, s, req, rep, deferred, ok, given, taken, left>>

-----------------------------------------------------------------------------
(* The server stub. *)

(* buildServerUnmarshal.  Words and map items stay where they arrived and are*)
(* the function's arguments.                                                 *)
ReceiveWord(p) ==
  /\ Kind(p) \in {"word", "struct", "map"}
  /\ s' = [s EXCEPT ![p].val = IF HasIn(p) THEN req.word[p] ELSE Junk]
  /\ UNCHANGED <<heap, read>>
ReceiveThread(p) ==
  /\ Kind(p) = "thread"
  /\ s' = [s EXCEPT ![p].val = IF HasIn(p) THEN Unwire(req.word[p]) ELSE Junk]
  /\ UNCHANGED <<heap, read>>

(* A string that is only read stays in the message, all others are in, or    *)
(* get, one of the server's buffers.                                         *)
ServerBuffer(p) == IF <<p, "in">> \in op.inline /\ ~HasOut(p)
                   THEN <<"message", p>> ELSE <<"pool", p>>
ReceiveData(p) ==
  /\ VarSized(p)
  /\ s' = [s EXCEPT ![p].ptr = ServerBuffer(p),
                    ![p].len = IF HasIn(p) THEN req.len[p] ELSE @]
  /\ IF <<p, "in">> \in op.inline
     THEN /\ heap' = [heap EXCEPT ![ServerBuffer(p)] = Holding(NextPiece(req, read.s))]
          /\ read' = [read EXCEPT !.s = @ + 1]
     ELSE UNCHANGED <<heap, read>>

ServerUnmarshal ==
  /\ server = "unmarshal" /\ si <= Len(ops) /\ si' = si + 1
  /\ LET p == ops[si] IN
     \/ Kind(p) = "alloc" /\ UNCHANGED <<s, heap, read>>
     \/ ReceiveWord(p) \/ ReceiveThread(p) \/ ReceiveData(p)
  /\ UNCHANGED <<orderVars, client, server, ci, c, req, rep, misused, deferred, ok,
                 given, taken, left>>

(* The invocation of the function. *)
Invoke ==
  /\ server = "unmarshal" /\ si > Len(ops)
  /\ server' = "running" /\ si' = 1
  /\ taken' = [p \in InSlots |-> Received(p)]
  /\ UNCHANGED <<orderVars, client, ci, c, s, req, rep, read, heap, misused, deferred, ok,
                 given, left>>

(* The function, or whoever answers in its stead, leaves n[p] elements in    *)
(* each output p, in the buffer it was given or (own) in memory of its own.  *)
Leaves(own, n) ==
  /\ left' = [p \in OutSlots |-> Whole(p, "out", n[p])]
  /\ LET Buffer(p) == IF p \in own THEN <<"own", p>> ELSE s[p].ptr
         Written == {p \in OutSlots : VarSized(p)}
     IN /\ s' = [p \in Slots |->
               IF p \notin OutSlots THEN s[p]
               ELSE IF p \in Written THEN [s[p] EXCEPT !.ptr = Buffer(p), !.len = n[p]]
               ELSE [s[p] EXCEPT !.val = Whole(p, "out", n[p])]]
        /\ heap' = [o \in DOMAIN heap |->
               IF o[2] \in Written /\ o = Buffer(o[2])
               THEN Holding(Whole(o[2], "out", n[o[2]])) ELSE heap[o]]

MustAllocate == {p \in OutSlots : p = Ret /\ op.ret = "string"}
Replaceable == {p \in OutSlots : VarSized(p)}

Answer ==
  /\ server = "running"
  /\ \E n \in Lengths, own \in SUBSET Replaceable :
        MustAllocate \subseteq own /\ Leaves(own, n)
  /\ server' = IF op.oneway THEN "answered" ELSE "marshal"
  /\ UNCHANGED <<orderVars, client, ci, si, c, req, rep, read, misused, deferred, ok, given, taken>>

(* An exception sends a message of its own; the reply is not marshalled. *)
Raise ==
  /\ server = "running" /\ server' = "refused"
  /\ client' = IF client = "waiting" THEN "failed" ELSE client
  /\ UNCHANGED <<orderVars, ci, si, c, s, req, rep, read, heap, misused, deferred, ok,
                 given, taken, left>>

(* The function returns without an answer, and the reply stub is called later*)
(* with parameters of its own.                                               *)
Defer ==
  /\ server = "running" /\ ~op.oneway /\ server' = "later"
  /\ UNCHANGED <<orderVars, client, ci, si, c, s, req, rep, read, heap, misused, deferred, ok,
                 given, taken, left>>

AnswerLater ==
  /\ server = "later" /\ server' = "marshal" /\ deferred' = TRUE
  /\ \E n \in Lengths : Leaves(Replaceable, n)
  /\ UNCHANGED <<orderVars, client, ci, si, c, req, rep, read, misused, ok, given, taken>>

(* buildServerMarshal and, in the reply stub, buildServerReplyMarshal.       *)
AnswerWord(p) ==
  /\ Kind(p) \in {"word", "struct"}
  /\ rep' = AddWord(rep, p, s[p].val)
  /\ UNCHANGED <<heap, misused>>
AnswerThread(p) ==
  /\ Kind(p) = "thread"
  /\ rep' = AddWord(rep, p, Wire(s[p].val))
  /\ UNCHANGED <<heap, misused>>

(* The function's argument for a map item is where the request has it, but   *)
(* its stub sends what is where the reply has it.                            *)
MapToSend(p) == IF HasIn(p) /\ ~deferred THEN {Junk, s[p].val} ELSE {s[p].val}
AnswerMap(p) ==
  /\ Kind(p) = "map"
  /\ \E v \in MapToSend(p) : rep' = AddWord(rep, p, v)
  /\ UNCHANGED <<heap, misused>>

(* A returned string is freed once it is marshalled. *)
AnswerData(p, n) ==
  /\ rep' = AddData(rep, p, "out", s[p].ptr, n)
  /\ misused' = misused \cup Dead({s[p].ptr})
AnswerString(p) ==
  /\ Kind(p) = "string"
  /\ AnswerData(p, StrLen(s, p))
  /\ heap' = IF p = Ret THEN [heap EXCEPT ![s[p].ptr].live = FALSE] ELSE heap
AnswerArray(p) ==
  /\ Kind(p) = "array"
  /\ AnswerData(p, ServerLength(p))
  /\ UNCHANGED heap
AnswerSequence(p) ==
  /\ Kind(p) = "sequence"
  /\ AnswerData(p, s[p].len)
  /\ UNCHANGED heap

Replies == ops \o (IF op.ret = "void" THEN <<>> ELSE <<Ret>>)

ServerMarshal ==
  /\ server = "marshal" /\ si <= Len(Replies) /\ si' = si + 1
  /\ LET p == Replies[si] IN
     \/ ~HasOut(p) /\ UNCHANGED <<rep, heap, misused>>
     \/ HasOut(p) /\ (\/ AnswerWord(p) \/ AnswerThread(p) \/ AnswerMap(p)
                      \/ AnswerString(p) \/ AnswerArray(p) \/ AnswerSequence(p))
  /\ UNCHANGED <<orderVars, client, server, ci, c, s, req, read, deferred, ok,
                 given, taken, left>>

(* The IPC back.  A string longer than the buffer the caller provided makes  *)
(* it fail; a client that waits no longer gets nothing.                      *)
Capacity(p) == IF Kind(p) = "array" /\ LengthOf(p) # {} THEN Elements(c, p) ELSE MaxLength

Reply ==
  /\ server = "marshal" /\ si > Len(Replies) /\ server' = "answered"
  /\ IF client # "waiting" THEN UNCHANGED <<client, heap, misused>>
     ELSE /\ misused' = misused \cup Dead({rep.ptr[p] : p \in Items("out")}
                                     \cup {Landing(p) : p \in Items("out")})
          /\ IF \E p \in Items("out") : Target(p) /\ rep.len[p] > Capacity(p)
             THEN client' = "failed" /\ UNCHANGED heap
             ELSE /\ client' = "unmarshal"
                  /\ heap' = [o \in DOMAIN heap |->
                       IF o[2] \in Items("out") /\ o = Landing(o[2])
                       THEN [heap[o] EXCEPT !.val = Cut(Content(rep.ptr[o[2]]), rep.len[o[2]])]
                       ELSE heap[o]]
  /\ UNCHANGED <<orderVars, ci, si, c, s, req, rep, read, deferred, ok, given, taken, left>>

-----------------------------------------------------------------------------
ClientNext == Start \/ ClientMarshal \/ Call \/ CallFails \/ ClientUnmarshal
              \/ Finish \/ SkipUnmarshal \/ Return
ServerNext == ServerUnmarshal \/ Invoke \/ Answer \/ Raise \/ Defer \/ AnswerLater
              \/ ServerMarshal \/ Reply

Next == \/ Visit /\ UNCHANGED stubVars
        \/ EndPass /\ UNCHANGED stubVars
        \/ Marshal /\ UNCHANGED stubVars
        \/ Generate /\ UNCHANGED stubVars
        \/ ClientNext
        \/ ServerNext

Spec == StubInit /\ [][Next]_vars

(* The generator is a program that runs.  Of the stubs nothing is assumed: a *)
(* client may wait for its answer for ever.                                  *)
FairSpec == Spec /\ WF_vars(OrderNext /\ UNCHANGED stubVars)

-----------------------------------------------------------------------------
(* Properties. *)

(* Every variable has its type. *)
Message == [word : [Slots -> Value], len : [Slots -> 0..MaxLength],
            ptr : [Slots -> {None} \cup Roles \X Slots], var : Seq(Value)]
Variable == [ptr : {None} \cup Roles \X Slots, len : 0..MaxLength, val : Value]

TypeOK ==
  /\ op.params \in Seq(Parameter)
  /\ stage \in {"commit", "circular", "undefined", "marshal", "shared", "generated"}
  /\ priority \in [Params -> 0..last] /\ last \in 0..Len(op.params)
  /\ cursor \in 0..Len(op.params) /\ progress \in BOOLEAN /\ more \in BOOLEAN
  /\ marshalled \subseteq Params /\ ops \in Seq(Params)
  /\ client \in {"start", "marshal", "waiting", "unmarshal", "failed", "return", "done"}
  /\ server \in {"idle", "unmarshal", "running", "later", "marshal", "answered", "refused"}
  /\ ci \in 1..Len(ops) + 1 /\ si \in 1..Len(ops) + 2
  /\ c \in [Slots -> Variable] /\ s \in [Slots -> Variable]
  /\ req \in Message /\ rep \in Message
  /\ read \in [{"c", "s"} -> 0..Cardinality(Slots)]
  /\ heap \in [Roles \X Slots -> [live : BOOLEAN, val : Value]]
  /\ misused \subseteq {None} \cup Roles \X Slots
  /\ deferred \in BOOLEAN /\ ok \in BOOLEAN
  /\ given \in [Slots -> Value]

(* The operations for which the generated code keeps what RemoteCall promises *)
(* (the others are described in the README): the value of an INOUT map item  *)
(* is lost; an array that is replaced is freed, so it must not be the        *)
(* caller's, and a length goes where its array goes; only strings of unknown *)
(* length travel in the message, and prealloc has no effect on them; a       *)
(* returned string is freed before a string item would be sent.  Outputs of  *)
(* one-way operations are an error (idl/parser.yy 1276).                     *)
Supported(o) ==
  /\ \A p \in DOMAIN o.params :
       LET param == o.params[p]
           array == param.kind = "string" /\ param.length # 0
       IN  /\ param.direction = "inout" => param.kind # "map" /\ ~(array /\ param.prealloc)
           /\ array => o.inline \cap {<<p, "in">>, <<p, "out">>} = {}
           /\ array /\ ~param.noxfer /\ param.length \in DOMAIN o.params =>
                LET length == o.params[param.length]
                IN  length.kind = "word" =>
                      length.direction = param.direction /\ ~length.noxfer
           /\ param.kind = "string" /\ ~array => ~param.prealloc
  /\ o.ret = "string" => <<Len(o.params) + 1, "out">> \in o.inline
  /\ o.oneway => o.ret = "void" /\ \A p \in DOMAIN o.params : o.params[p].direction = "in"

(* After a normal return nothing was used after it was freed, each of the    *)
(* caller's pointers leads to memory he may use and free, and memory he has  *)
(* no pointer to is freed: buffers for the reply, inputs that were replaced, *)
(* the string a function returned.                                           *)
Held == {c[p].ptr : p \in Slots}
BuffersBalance ==
  client = "done" /\ ok =>
     /\ misused = {}
     /\ \A p \in Slots : VarSized(p) => Live(c[p].ptr)
     /\ \A o \in Roles \X Slots :
           Live(o) /\ o[1] \in {"caller", "frame", "alloc"} => o \in Held
     /\ op.ret = "string" => ~Live(<<"own", Ret>>)

(* The stubs implement RemoteCall. *)
Abstract == INSTANCE RemoteCall WITH
  params <- {p \in Params : Kind(p) # "alloc"},
  ins    <- InSlots,
  outs   <- OutSlots,
  waits  <- ~op.oneway,
  arg    <- [p \in {q \in Slots : Kind(q) # "alloc"} |->
               IF client = "done" THEN Seen(p) ELSE given[p]],
  taken  <- taken,
  left   <- left,
  caller <- CASE client = "done" /\ ok  -> "returned"
              [] client = "done" /\ ~ok -> "failed"
              [] OTHER -> "calling",
  server <- CASE server \in {"idle", "unmarshal"}   -> "idle"
              [] server \in {"running", "later"}    -> "executing"
              [] server \in {"marshal", "answered"} -> "answered"
              [] server = "refused" -> "refused"
IsRemoteCall == Abstract!Spec
=============================================================================
