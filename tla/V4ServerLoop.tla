---------------------------- MODULE V4ServerLoop ----------------------------
(***************************************************************************)
(* The generated server of the V4 back end at run time: the loop of        *)
(* arch/v4/serverloop.cc around idl4_reply_and_wait and                    *)
(* idl4_process_request, its message buffer with the string buffers, and   *)
(* the client stubs that its functions call in the same thread, which use  *)
(* the same buffer registers (buildClientInit).                            *)
(*                                                                         *)
(* The kernel delivers messages; clients wait for answers, may time out    *)
(* and call again.                                                         *)
(***************************************************************************)
EXTENDS Integers, FiniteSets

CONSTANTS
  Client,         \* threads that call the server
  Nil,            \* L4_nilthread
  NumBuffers,     \* _STRBUF_SIZE, the string buffers of the server
  LastBR,         \* BR0 .. BR32
  Calls,          \* the calls server functions make to other servers
  Outcomes,       \* what server functions do with their caller
  Impatient,      \* the clients that set a receive timeout
  Deferrable,     \* the clients whose answers functions may defer
  MaxRequests,    \* bound on the requests of one client
  Joined(_, _),   \* how idl4_set_counter_minimum combines two counts
  MaxCount        \* the largest count this gives

(* A nested call receives strings, the memory message included, and may    *)
(* open a window for mappings.                                             *)
Call == [buffers : 0 .. LastBR \div 2, window : BOOLEAN]

ASSUME ServerAssumption ==
  /\ Nil \notin Client
  /\ LastBR \in Nat \ {0}
  /\ LastBR % 2 = 0
  /\ NumBuffers \in Nat
  /\ 2 * NumBuffers <= LastBR
  /\ Calls \subseteq Call
  /\ Outcomes \subseteq {"reply", "no_response"}
  /\ Impatient \subseteq Client
  /\ Deferrable \subseteq Client
  /\ MaxRequests \in Nat

ASSUME JoinAssumption ==
  /\ MaxCount \in Nat
  /\ LastBR + 1 <= MaxCount
  /\ \A a, b \in 0 .. MaxCount :
       Joined(a, b) \in 0 .. MaxCount /\ Joined(a, b) >= a /\ Joined(a, b) >= b

Register == 0 .. LastBR

(* A word of the message buffer or a buffer register: bit 0 says that      *)
(* another string buffer follows.                                          *)
Word == [more : BOOLEAN,
         what : {"junk", "window", "length", "pointer", "client"}, num : Nat]

junk == [more |-> FALSE, what |-> "junk", num |-> 0]

NoRequest == <<Nil, 0>>
Request == (Client \X Nat) \cup {NoRequest}

VARIABLES
  pc,           \* where the server thread is
  rbuf,         \* msgbuf.rbuf: the wanted value of BR i at LastBR - i
  BR,           \* the buffer registers of the server thread
  counter,      \* ThreadWord(0): the buffer registers to be restored
  cnt,          \* the buffers added so far
  partner,      \* whom the server answers
  failed,       \* idl4_is_error(&msgtag)
  current,      \* the request being served
  oneway,       \* whether it is one-way
  obuf,         \* the request whose answer the message buffer holds
  pending,      \* requests whose answer was deferred
  client,       \* what each client does
  req,          \* number of the request each client made last
  answer        \* the answer it received to that request

request == <<current, oneway>>
serverVars == <<pc, partner, failed, request, obuf, pending>>
bufferVars == <<rbuf, BR, counter, cnt>>
clientVars == <<client, req, answer>>
vars == <<serverVars, bufferVars, clientVars>>

-----------------------------------------------------------------------------
(* The message buffer                                                      *)

SetCounterSum(value) == counter' = counter + value  \* the counts added up

SetCounterMinimum(value) == counter' = Joined(counter, value)

(* The words whose bit 0 chains the buffers: the window, then the lengths. *)
ChainWords == {LastBR} \cup {i \in 1 .. LastBR - 1 : i % 2 = 1}

(* Where the loop of idl4_msgbuf_add_buffer stops, walking down.           *)
IsChainEnd(i) ==
  i \in ChainWords /\ ~rbuf[i].more /\ \A j \in ChainWords : j > i => rbuf[j].more

AfterWord(i) == IF i = LastBR THEN i - 1 ELSE i - 2

MsgbufInit ==
  /\ pc = "init"
  /\ rbuf' = [rbuf EXCEPT ![LastBR] = [more |-> FALSE, what |-> "window", num |-> 0]]
  /\ counter' = 1
  /\ pc' = "buffers"
  /\ UNCHANGED <<BR, cnt, partner, failed, request, obuf, pending, clientVars>>

AddBufferUnlinked ==                    \* bit 0 not set
  /\ pc = "buffers"
  /\ cnt < NumBuffers
  /\ rbuf' = [rbuf EXCEPT
       ![LastBR - 2 * cnt - 1] = [more |-> FALSE, what |-> "length", num |-> 0],
       ![LastBR - 2 * cnt - 2] = [more |-> FALSE, what |-> "pointer", num |-> cnt]]
  /\ SetCounterMinimum(2 * cnt + 3)
  /\ cnt' = cnt + 1
  /\ UNCHANGED <<pc, BR, partner, failed, request, obuf, pending, clientVars>>

AddBuffer ==
  /\ pc = "buffers"
  /\ cnt < NumBuffers
  /\ \E i \in Register :
       /\ IsChainEnd(i)
       /\ rbuf' = [rbuf EXCEPT
            ![i].more = TRUE,
            ![AfterWord(i)] = [more |-> FALSE, what |-> "length", num |-> 0],
            ![AfterWord(i) - 1] = [more |-> FALSE, what |-> "pointer", num |-> cnt]]
       /\ SetCounterMinimum(LastBR - (AfterWord(i) - 2))
  /\ cnt' = cnt + 1
  /\ UNCHANGED <<pc, BR, partner, failed, request, obuf, pending, clientVars>>

(* Test servers open a window for mappings, the others do not.             *)
SetRcvWindow ==
  /\ pc = "buffers"
  /\ cnt = NumBuffers
  /\ \/ /\ rbuf' = [rbuf EXCEPT ![LastBR].what = "window", ![LastBR].num = 1]
        /\ SetCounterMinimum(1)
     \/ UNCHANGED <<rbuf, counter>>
  /\ pc' = "outer"
  /\ UNCHANGED <<BR, cnt, partner, failed, request, obuf, pending, clientVars>>

Restored ==
  [i \in Register |-> IF i < counter THEN rbuf[LastBR - i] ELSE BR[i]]

MsgbufSync ==
  /\ pc = "sync"
  /\ BR' = Restored
  /\ counter' = 0
  /\ pc' = "reply"
  /\ UNCHANGED <<rbuf, cnt, partner, failed, request, obuf, pending, clientVars>>

-----------------------------------------------------------------------------
(* The server loop                                                         *)

EnterLoopKeepsPartner ==                \* the partner not reset
  /\ pc = "outer"
  /\ failed' = FALSE
  /\ pc' = "sync"
  /\ UNCHANGED <<bufferVars, partner, request, obuf, pending, clientVars>>

EnterLoop ==
  /\ pc = "outer"
  /\ partner' = Nil
  /\ failed' = FALSE
  /\ pc' = "sync"
  /\ UNCHANGED <<bufferVars, request, obuf, pending, clientVars>>

(* The kernel hands an answer to a client that waits for one.              *)
Deliver(c, r) ==
  /\ client[c] = "waiting"
  /\ client' = [client EXCEPT ![c] = "idle"]
  /\ answer' = [answer EXCEPT ![c] = r]
  /\ UNCHANGED req

(* The send phase of L4_ReplyWait: its timeout is zero, and a failure ends *)
(* the system call.                                                        *)
Reply ==
  /\ pc = "reply"
  /\ IF partner = Nil THEN pc' = "receive" /\ UNCHANGED <<failed, clientVars>>
     ELSE \/ Deliver(partner, obuf) /\ pc' = "receive" /\ UNCHANGED failed
          \/ /\ client[partner] # "waiting"
             /\ failed' = TRUE
             /\ pc' = "test"
             /\ UNCHANGED clientVars
  /\ UNCHANGED <<bufferVars, partner, request, obuf, pending>>

(* Its receive phase.  A one-way client does not wait.                     *)
Receive(c) ==
  /\ pc = "receive"
  /\ client[c] \in {"sending", "sending_oneway"}
  /\ client' = [client EXCEPT
       ![c] = IF client[c] = "sending" THEN "waiting" ELSE "idle"]
  /\ partner' = c
  /\ current' = <<c, req[c]>>
  /\ oneway' = (client[c] = "sending_oneway")
  /\ failed' = FALSE
  /\ pc' = "test"
  /\ UNCHANGED <<bufferVars, obuf, pending, req, answer>>

(* The message is cut off, because a string is longer than its buffer:     *)
(* both sides get an error.                                                *)
ReceiveFails(c) ==
  /\ pc = "receive"
  /\ client[c] \in {"sending", "sending_oneway"}
  /\ client' = [client EXCEPT ![c] = "idle"]
  /\ partner' = c
  /\ failed' = TRUE
  /\ pc' = "test"
  /\ UNCHANGED <<bufferVars, request, obuf, pending, req, answer>>

TestError ==
  /\ pc = "test"
  /\ pc' = IF failed THEN "outer" ELSE "serving"
  /\ UNCHANGED <<bufferVars, partner, failed, request, obuf, pending, clientVars>>

(* While it serves a request, a function calls other servers.  The stub    *)
(* loads the buffer registers it needs and leaves their number behind.     *)
Loads(call) ==
  IF call.buffers > 0 THEN 0 .. 2 * call.buffers ELSE IF call.window THEN {0} ELSE {}

LastUsedBR(call) == 2 * call.buffers    \* the index instead of the number

UsedBRs(call) == Cardinality(Loads(call))

ClientWord(call, i) ==
  [more |-> IF i = 0 THEN call.buffers > 0
            ELSE i % 2 = 1 /\ (i + 1) \div 2 < call.buffers,
   what |-> "client", num |-> 0]

NestedCall ==
  /\ pc = "serving"
  /\ \E call \in Calls :
       /\ BR' = [i \in Register |->
                   IF i \in Loads(call) THEN ClientWord(call, i) ELSE BR[i]]
       /\ IF UsedBRs(call) > 0 THEN SetCounterMinimum(UsedBRs(call))
          ELSE UNCHANGED counter
  /\ UNCHANGED <<serverVars, rbuf, cnt, clientVars>>

ReplyUnmarshalled ==                    \* the answer not written
  /\ pc = "serving"
  /\ ~oneway
  /\ "reply" \in Outcomes
  /\ pc' = "sync"
  /\ UNCHANGED <<bufferVars, partner, failed, request, obuf, pending, clientVars>>

ReplyDropsPartner ==                    \* the partner dropped for answers too
  /\ pc = "serving"
  /\ ~oneway
  /\ "reply" \in Outcomes
  /\ obuf' = current
  /\ partner' = Nil
  /\ pc' = "sync"
  /\ UNCHANGED <<bufferVars, failed, request, pending, clientVars>>

(* The function returns and its stub leaves an answer, a result or an      *)
(* exception, in the message buffer.                                       *)
ProcessReply ==
  /\ pc = "serving"
  /\ ~oneway
  /\ "reply" \in Outcomes
  /\ obuf' = current
  /\ pc' = "sync"
  /\ UNCHANGED <<bufferVars, partner, failed, request, pending, clientVars>>

AbortKeepsPartner ==                    \* the partner not dropped
  /\ pc' = "sync"
  /\ UNCHANGED <<bufferVars, partner, failed, request, obuf, clientVars>>

(* The stub returns -1: the operation is one-way, or its function asked    *)
(* for no response, possibly to answer later with the reply stub.          *)
(* idl4_process_request drops the partner.                                 *)
Abort ==
  /\ partner' = Nil
  /\ pc' = "sync"
  /\ UNCHANGED <<bufferVars, failed, request, obuf, clientVars>>

ProcessAbort ==
  /\ pc = "serving"
  /\ oneway \/ "no_response" \in Outcomes
  /\ Abort
  /\ UNCHANGED pending

ProcessDeferred ==
  /\ pc = "serving"
  /\ ~oneway
  /\ partner \in Deferrable
  /\ Abort
  /\ pending' = pending \cup {current}

(* While it serves another request, a function answers a deferred one with *)
(* the reply stub: it knows the client only.                               *)
SendReply(c, r) ==
  IF client[c] = "waiting" THEN Deliver(c, r) ELSE UNCHANGED clientVars

ReplyStubAgain ==                       \* the request not forgotten
  /\ pc = "serving"
  /\ \E r \in pending : SendReply(r[1], r)
  /\ UNCHANGED <<pc, bufferVars, partner, failed, request, obuf, pending>>

ReplyStub ==
  /\ pc = "serving"
  /\ \E r \in pending :
       /\ SendReply(r[1], r)
       /\ pending' = pending \ {r}
  /\ UNCHANGED <<pc, bufferVars, partner, failed, request, obuf>>

-----------------------------------------------------------------------------
(* Clients                                                                 *)

CallServer(c) ==
  /\ client[c] = "idle"
  /\ req[c] < MaxRequests
  /\ req' = [req EXCEPT ![c] = @ + 1]
  /\ answer' = [answer EXCEPT ![c] = NoRequest]
  /\ \E how \in {"sending", "sending_oneway"} : client' = [client EXCEPT ![c] = how]
  /\ UNCHANGED <<serverVars, bufferVars>>

(* The client stub's timeout (_env->_timeout) ends the call.               *)
TimesOut(c) ==
  /\ c \in Impatient
  /\ client[c] \in {"sending", "waiting"}
  /\ client' = [client EXCEPT ![c] = "idle"]
  /\ UNCHANGED <<serverVars, bufferVars, req, answer>>

-----------------------------------------------------------------------------

Init ==
  /\ pc = "init"
  /\ rbuf = [i \in Register |-> junk]
  /\ BR = [i \in Register |-> junk]
  /\ counter \in {0, LastBR}
  /\ cnt = 0
  /\ partner = Nil
  /\ failed = FALSE
  /\ current = NoRequest
  /\ oneway = FALSE
  /\ obuf = NoRequest
  /\ pending = {}
  /\ client = [c \in Client |-> "idle"]
  /\ req = [c \in Client |-> 0]
  /\ answer = [c \in Client |-> NoRequest]

Setup == MsgbufInit \/ AddBuffer \/ SetRcvWindow
Process == ProcessReply \/ ProcessAbort \/ ProcessDeferred
Loop == EnterLoop \/ MsgbufSync \/ Reply \/ TestError \/ Process
Kernel(c) == Receive(c) \/ ReceiveFails(c)

Next ==
  \/ Setup
  \/ Loop
  \/ NestedCall
  \/ ReplyStub
  \/ \E c \in Client : Kernel(c) \/ CallServer(c) \/ TimesOut(c)

Spec == Init /\ [][Next]_vars

(* The server thread runs, its functions return, and the kernel lets no    *)
(* sender wait for ever.                                                   *)
FairSpec ==
  /\ Spec
  /\ WF_vars(Setup \/ Loop)
  /\ \A c \in Client : SF_vars(Kernel(c))

-----------------------------------------------------------------------------
(* Properties                                                              *)

(* Every variable has its type.                                            *)
TypeOK ==
  /\ pc \in {"init", "buffers", "outer", "sync", "reply", "receive", "test", "serving"}
  /\ rbuf \in [Register -> Word]
  /\ BR \in [Register -> Word]
  /\ counter \in 0 .. MaxCount
  /\ cnt \in 0 .. NumBuffers
  /\ partner \in Client \cup {Nil}
  /\ failed \in BOOLEAN
  /\ current \in Request
  /\ oneway \in BOOLEAN
  /\ obuf \in Request
  /\ pending \in SUBSET Request
  /\ client \in [Client -> {"idle", "sending", "sending_oneway", "waiting"}]
  /\ req \in [Client -> Nat]
  /\ answer \in [Client -> Request]

(* The kernel fills the string buffers it finds in the buffer registers,   *)
(* following bit 0 of their words.                                         *)
KernelBuffers ==
  LET chain == CHOOSE n \in 0 .. LastBR \div 2 :
        /\ \A k \in 0 .. n - 1 : BR[IF k = 0 THEN 0 ELSE 2 * k - 1].more
        /\ n < LastBR \div 2 => ~BR[IF n = 0 THEN 0 ELSE 2 * n - 1].more
  IN  [k \in 1 .. chain |-> BR[2 * k]]

(* Whatever nested calls left in the buffer registers: when the kernel     *)
(* accepts a message, it finds all string buffers of the server, in the    *)
(* order in which the stubs look for them, _str[15], _str[14], ...         *)
(* (ms.cc 1152: "those will be restored by idl4_msgbuf_sync()").           *)
StringsInServerBuffers ==
  pc = "receive" =>
    KernelBuffers =
      [k \in 1 .. NumBuffers |-> [more |-> FALSE, what |-> "pointer", num |-> k - 1]]

(* Before the thread waits, every buffer register in use has the value the *)
(* message buffer holds for it, the receive window included.               *)
BuffersRestored ==
  pc \in {"reply", "receive"} =>
    \A i \in 0 .. 2 * NumBuffers : BR[i] = rbuf[LastBR - i]

(* A client that has an answer has the answer to the request it made last, *)
(* with deferred answers and failed sends in between.                      *)
AnswerMatches ==
  \A c \in Client : answer[c] # NoRequest => answer[c] = <<c, req[c]>>

(* A request is answered in one way only: while its answer is deferred the *)
(* loop does not answer it as well.                                        *)
NotAnsweredTwice ==
  pc = "reply" /\ partner # Nil => obuf = current /\ obuf \notin pending

(* The request that c waits for is in the hands of the loop, or its answer *)
(* was deferred.                                                           *)
Expected(c) ==
  \/ partner = c /\ current = <<c, req[c]>>
  \/ <<c, req[c]>> \in pending

(* While a client waits the server does not lose track of its request: not *)
(* when the loop starts again after a failed send or a cut-off message,    *)
(* nor when it takes the next message or answers a deferred one. Only a    *)
(* function that refuses its answer leaves the client alone.               *)
CallersNotForgotten ==
  [][\A c \in Client :
       client[c] = "waiting" /\ client'[c] = "waiting" /\ Expected(c) =>
         Expected(c)' \/ ProcessAbort]_vars

(* The function served the request of c and its stub answers nothing now.  *)
Refused(c) == pc = "sync" /\ partner = Nil /\ current = <<c, req[c]>>

(* Every call ends, or its function refuses or defers the answer, after    *)
(* failed sends and cut off messages too (serverloop.cc 140-152).          *)
Served ==
  \A c \in Client : client[c] \in {"sending", "sending_oneway"} ~>
                      client[c] = "idle" \/ Refused(c)
=============================================================================
