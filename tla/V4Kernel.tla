------------------------------ MODULE V4Kernel ------------------------------
(***************************************************************************)
(* Operations with the attribute kernelmsg: CMSConnection4::optimize first *)
(* compares their chunks with the message the kernel sends or expects, and *)
(* refuses them or goes on as for any other operation.  The interface's    *)
(* user names the parameters as he likes; only where the values arrive     *)
(* connects them with the kernel's.                                        *)
(***************************************************************************)
EXTENDS V4Message

(* The module idl4 of the root scope.                                      *)
startup == 0
interrupt == 1
pagefault == 2
preemption == 3
sysexc == 4
archexc == 5
sigma0rpc == 6
iopagefault == 8

NotForKernel == -1
MessageID == 0 .. 8                     \* nothing checks the number

VARIABLES
  kid,          \* fid, if iid is IID_KERNEL
  compared,     \* optimize has got past the comparison
  special       \* special[CHANNEL_IN]: what travels in the message tag

kernelVars == <<kid, compared, special>>

-----------------------------------------------------------------------------
(* What the signatures have to look like                                   *)

Args == memFixed[CHANNEL_IN]
Results == memFixed[CHANNEL_OUT]

(* The code compares sizes and directions.                                 *)
IsWord(chunk) == chunk.size = W /\ chunk.chans = {CHANNEL_IN}
UpToWord(chunk) == chunk.size <= W /\ chunk.chans = {CHANNEL_IN}
IsFrame(chunk) == chunk.size >= W /\ chunk.chans = {CHANNEL_IN, CHANNEL_OUT}

BeginsWithTwoWords == Len(Args) >= 2 /\ IsWord(Args[1]) /\ IsWord(Args[2])

NoneIn(list) == list[CHANNEL_IN] = <<>> /\ list[CHANNEL_OUT] = <<>>

NoStringsOrVariables == NoneIn(strings) /\ NoneIn(memVar)

ReturnsMapping ==
  /\ fpages[CHANNEL_IN] = <<>>
  /\ Len(fpages[CHANNEL_OUT]) = 1
  /\ fpages[CHANNEL_OUT][1].chans = {CHANNEL_OUT}

PagefaultForm ==
  /\ BeginsWithTwoWords
  /\ Len(Args) = 3
  /\ UpToWord(Args[3])
  /\ Results = <<>>
  /\ ReturnsMapping
  /\ NoStringsOrVariables

(* The form for every other number, unknown ones included: they get a      *)
(* warning only.  In the order of the code's cases.                        *)
OtherForm(k) ==
  \/ /\ k = startup
     /\ BeginsWithTwoWords
     /\ Len(Args) = 2
     /\ Results = <<>>
     /\ NoneIn(fpages) /\ NoStringsOrVariables
     /\ sig.oneway
  \/ /\ k = interrupt
     /\ NoneIn(memFixed) /\ NoneIn(fpages) /\ NoStringsOrVariables
  \/ /\ k = preemption
     /\ Len(Args) = 1
     /\ Args[1].size = 8 /\ Args[1].chans = {CHANNEL_IN}
     /\ Results = <<>>
     /\ NoneIn(fpages) /\ NoStringsOrVariables
  \/ /\ k \in {sysexc, archexc}
     /\ Len(Args) = 1 /\ IsFrame(Args[1])
     /\ Len(Results) = 1 /\ IsFrame(Results[1])
     /\ NoneIn(fpages) /\ NoStringsOrVariables
  \/ /\ k = sigma0rpc                   \* further arguments are not refused
     /\ BeginsWithTwoWords
     /\ Results = <<>>
     /\ ReturnsMapping
     /\ NoStringsOrVariables
  \/ k \notin {startup, interrupt, pagefault, preemption, sysexc, archexc,
               sigma0rpc, iopagefault}

Form(k) == IF k \in {pagefault, iopagefault} THEN PagefaultForm ELSE OtherForm(k)

-----------------------------------------------------------------------------
(* The beginning of optimize                                               *)

Comparing ==
  /\ phase = "marshal"
  /\ pos = Len(sig.params)
  /\ ~compared
  /\ UNCHANGED <<request, chunkID, regFixed, regVar, memVar, strings, fpages,
                 chan, budget, loop, cursor, numbering>>

OrdinaryOperation ==
  /\ Comparing
  /\ ~sig.kernelmsg
  /\ compared' = TRUE
  /\ UNCHANGED <<phase, memFixed, kid, special>>

ComparingKernelMessage(k) ==
  /\ Comparing
  /\ sig.kernelmsg
  /\ kid' = k

(* The access rights leave the registers: they are sent in the tag.        *)
PrivilegesStay == UNCHANGED <<memFixed, special>>

TakePrivileges ==
  /\ special' = AddLast(special, Args[3])
  /\ memFixed' = [memFixed EXCEPT ![CHANNEL_IN] = RemoveElement(@, 3)]

AcceptPagefault(k) ==
  /\ ComparingKernelMessage(k)
  /\ k \in {pagefault, iopagefault}
  /\ PagefaultForm
  /\ TakePrivileges
  /\ compared' = TRUE
  /\ UNCHANGED phase

AcceptOther(k) ==
  /\ ComparingKernelMessage(k)
  /\ k \notin {pagefault, iopagefault}
  /\ OtherForm(k)
  /\ compared' = TRUE
  /\ UNCHANGED <<phase, memFixed, special>>

(* panic("malformed ... message")                                          *)
Refuse(k) ==
  /\ ComparingKernelMessage(k)
  /\ ~Form(k)
  /\ phase' = "malformed"
  /\ UNCHANGED <<memFixed, compared, special>>

-----------------------------------------------------------------------------

Compare ==
  \/ OrdinaryOperation
  \/ \E k \in MessageID : AcceptPagefault(k) \/ AcceptOther(k) \/ Refuse(k)

(* The rest of optimize.                                                   *)
Distribute == compared /\ (AddTags \/ PackChannel \/ NumberBuffers)

KernelInit == Init /\ kid = NotForKernel /\ compared = FALSE /\ special = <<>>

KernelStep ==
  \/ Compare
  \/ (Marshal \/ Distribute) /\ UNCHANGED kernelVars

KernelNext == KernelStep \/ (Finished /\ UNCHANGED kernelVars)

KernelSpec == KernelInit /\ [][KernelNext]_<<vars, kernelVars>>

FairKernelSpec == KernelSpec /\ WF_<<vars, kernelVars>>(KernelStep)

-----------------------------------------------------------------------------
(* Properties                                                              *)

(* From the end of marshalling on, every requested chunk is held by its    *)
(* channel exactly once, in a list of the packing or in the tag: otherwise *)
(* the generator stops with "Cannot assign ... data to buffer" (fcc.cc 91, *)
(* vcc.cc 134) or sends a parameter twice.                                 *)
ChunksConserved ==
  phase \notin {"options", "marshal"} =>
    \A c \in Channel : HeldOnce(c, IF c = CHANNEL_IN THEN special ELSE <<>>)

Carries(c, untyped, typed) == UntypedWords(c) = untyped /\ TypedWords(c) = typed

(* The values that start at register MRn.                                  *)
InRegister(c, n) ==
  {v \in {regFixed[c][i] : i \in DOMAIN regFixed[c]} : v.part # "tag" /\ v.offset = n * W}

(* The order the user relies on: that of the declaration, among values     *)
(* that need the same alignment.                                           *)
InOrder(v, w) == v.id < w.id \/ v.align > w.align

(* MR1 and MR2 hold the two words, and the access rights follow in order.  *)
WordsInOrder ==
  \E v, w \in ToSet(regFixed[CHANNEL_IN]) :
    /\ InRegister(CHANNEL_IN, 1) = {v} /\ InRegister(CHANNEL_IN, 2) = {w}
    /\ v.size = W /\ w.size = W /\ InOrder(v, w)
    /\ kid \in {pagefault, iopagefault} => Len(special) = 1 /\ InOrder(w, special[1])

IDsInRegister(c, n) == {v.id : v \in InRegister(c, n)}

(* What a request to sigma0 comes down to without further arguments.       *)
Sigma0Form ==
  /\ Carries(CHANNEL_IN, 2, 0) => WordsInOrder
  /\ Carries(CHANNEL_OUT, 0, 2)

(* An accepted kernel message has the form the kernel gives it, whatever   *)
(* the sorting and packing did to its parameters: its words in MR1, MR2    *)
(* and so on in the order of the declaration, nothing else in the message, *)
(* a mapping as the only item of the reply, and exceptions in the same     *)
(* registers both ways, if they fit at all.  The generator has no test for *)
(* this after the comparison of the signature (optimizer.cc 11-259).       *)
KernelMessageForm ==
  Done =>
    /\ kid = startup => Carries(CHANNEL_IN, 2, 0) /\ WordsInOrder
    /\ kid = interrupt => Carries(CHANNEL_IN, 0, 0) /\ Carries(CHANNEL_OUT, 0, 0)
    /\ kid \in {pagefault, iopagefault} =>
         /\ Carries(CHANNEL_IN, 2, 0) /\ WordsInOrder
         /\ Carries(CHANNEL_OUT, 0, 2)
    /\ kid = preemption => Carries(CHANNEL_IN, 8 \div W, 0) /\ Carries(CHANNEL_OUT, 0, 0)
    /\ kid \in {sysexc, archexc} /\ ~NeedsMem(CHANNEL_IN) =>
         /\ IDsInRegister(CHANNEL_IN, 1) = IDsInRegister(CHANNEL_OUT, 1)
         /\ IDsInRegister(CHANNEL_IN, 1) # {}
         /\ UntypedWords(CHANNEL_IN) = UntypedWords(CHANNEL_OUT)
         /\ TypedWords(CHANNEL_IN) = 0 /\ TypedWords(CHANNEL_OUT) = 0
    /\ kid = sigma0rpc => Sigma0Form
=============================================================================
