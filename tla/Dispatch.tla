------------------------------ MODULE Dispatch ------------------------------
(***************************************************************************)
(* What becomes of the numbers: the label a client puts into a request     *)
(* (arch/v4/clientcall.cc), the tables of functions an interface's server  *)
(* gets (be/interface.cc), and the entry the server loop takes for a label *)
(* (arch/v4/serverloop.cc, api/v4/interface.h).  Words have 32 bits.       *)
(*                                                                         *)
(* An operation is a pair: its scope and its place in it.                  *)
(***************************************************************************)
EXTENDS IDSource

IID_KERNEL == -42
FID_SIZE == 6           \* IDL4_FID_BITS
IID_BITS == 10

Attributes(o) == prog[o[1]].ops[o[2]]

(* getID: a number given by an attribute takes precedence.                 *)
ID(o) == IF Attributes(o).fid # UNKNOWN THEN Attributes(o).fid ELSE firstfid[o[1]] + o[2] - 1

(* What getFunctionForID compares.                                         *)
Interface(o) == IF Attributes(o).kernel THEN IID_KERNEL ELSE prog[o[1]].iid

-----------------------------------------------------------------------------
(* The tables of the server for interface s                                *)

Family(s) == {s} \cup Ancestors(prog, s)

Operations(s) == UNION {{b} \X DOMAIN prog[b].ops : b \in Family(s)}

KernelOperations(s) == {o \in Operations(s) : Attributes(o).kernel}

UserOperations(s) == Operations(s) \ KernelOperations(s)

(* getIDRange                                                              *)
IDMax(ops) == Max({0} \cup {ID(o) : o \in ops})

Interfaces(s) == {prog[b].iid : b \in Family(s)}

(* The loops of getVtableSize, getItableSize and getKtableSize.            *)
PowerOfTwoUpTo(n) == Min({k \in {2 ^ i : i \in 0 .. 16} : k >= n})

PowerOfTwoAbove(n) == Min({k \in {2 ^ i : i \in 0 .. 16} : k > n})

VtableSize(s) == PowerOfTwoAbove(IDMax(UserOperations(s)))

KtableSize(s) == PowerOfTwoAbove(IDMax(KernelOperations(s)))

ItableSize(s) == PowerOfTwoAbove(Max(Interfaces(s)))

(* getFunctionForID: what an entry may be.  None is the discard function,  *)
(* more than one is the error "function ID collision".                     *)
FunctionForID(s, fid, iid) ==
  {o \in Operations(s) : ID(o) = fid /\ Interface(o) = iid}

Collision(s) ==
  \E o \in Operations(s) : FunctionForID(s, ID(o), Interface(o)) # {o}

-----------------------------------------------------------------------------
(* From a label to a function                                              *)

(* The label of 16 bits buildMessageTag makes.  Pagefaults carry the       *)
(* access rights in its low bits.                                          *)
Labels(o) ==
  IF ~Attributes(o).kernel
  THEN {(ID(o) + prog[o[1]].iid * 2 ^ FID_SIZE) % 2 ^ 16}
  ELSE IF ID(o) = 0 THEN {0}
  ELSE {((2 ^ 12 - 1 - (ID(o) - 1)) * 16 + privileges) % 2 ^ 16 : privileges \in 0 .. 7}

IsKernelMessage(label) == label \div 2 ^ 8 = 255

KernelMessageID(label) == -(label \div 16)

FunctionID(label) == label % 2 ^ FID_SIZE

InterfaceID(label) == (label \div 2 ^ FID_SIZE) % 2 ^ IID_BITS

(* The function tables have a power of two of entries, and the loop masks  *)
(* its indices.                                                            *)
Process(s, label) ==
  IF KernelOperations(s) # {} /\ (UserOperations(s) = {} \/ IsKernelMessage(label))
  THEN FunctionForID(s, KernelMessageID(label) % KtableSize(s), IID_KERNEL)
  ELSE FunctionForID(s, FunctionID(label) % VtableSize(s),
         IF Cardinality(Interfaces(s)) = 1 THEN prog[s].iid
         ELSE InterfaceID(label) % ItableSize(s))

-----------------------------------------------------------------------------
(* Properties                                                              *)

TypeOK ==
  /\ phase \in {"claim", "masters", "cross", "count", "sort", "done", "assertion"}
  /\ claimed \in 0 .. Len(prog)
  /\ constraints \subseteq Scope \X Scope
  /\ related \in [Scope -> [Scope -> Relation]]
  /\ at \in Triples \cup {Start}
  /\ depends \in [Scope -> 0 .. Len(prog)]
  /\ pos \in 1 .. Len(prog) + 1
  /\ {stable, progress, done} \subseteq BOOLEAN
  /\ \A f \in {firstfid, firsteid, nextfid, nexteid} : f \in [Scope -> Nat \cup {UNKNOWN}]

Below == UNION {Bosses(s) \X {s} : s \in Scope}

(* Scopes that must not share numbers: no set that the constraints neither *)
(* enter nor leave has one without the other.                              *)
Apart ==
  LET Closed(C) == \A pair \in Below : pair[1] \in C <=> pair[2] \in C
      components == {C \in SUBSET Scope : Closed(C)}
  IN  {pair \in Scope \X Scope :
         pair[1] # pair[2] /\ \A C \in components : pair[1] \in C => pair[2] \in C}

FunctionIDs == INSTANCE IDAllocation WITH
  wanted <- [s \in Scope |-> Len(prog[s].ops)],
  apart <- Apart, below <- Below, first <- firstfid, next <- nextfid

ExceptionIDs == INSTANCE IDAllocation WITH
  wanted <- [s \in Scope |-> prog[s].excs],
  apart <- Apart, below <- Below, first <- firsteid, next <- nexteid

(* The matrix, its two closures and the sorting of commit hand out         *)
(* function numbers as IDAllocation promises: every scope once, after the  *)
(* interfaces above it and above their numbers, and apart from all the     *)
(* scopes it is tied to, over however many constraints.                    *)
FunctionNumbers == FunctionIDs!Spec

(* The same for exceptions.                                                *)
ExceptionNumbers == ExceptionIDs!Spec

(* commit's assertions hold: the masters of a scope have their numbers     *)
(* when it gets its own, and every pass of the sorting loop gets on.       *)
NoAssertion == phase # "assertion"

(* An interface whose methods have no numbers of their own and which       *)
(* inherits only from interfaces with its own number has a server that can *)
(* tell all its methods apart: "the server must be able to tell from the   *)
(* request which method it is intended for" (doc/manual/idl.tex:515).      *)
SameInterfaceNumber ==
  phase = "done" =>
    \A s \in Scope :
      (/\ Interfaces(s) = {prog[s].iid}
       /\ \A o \in Operations(s) : Attributes(o).fid = UNKNOWN) => ~Collision(s)

(* The numbers the format has room for; the manual names 1000 as the limit *)
(* of interface numbers (doc/manual/idl.tex:528).                          *)
Supported(o) ==
  IF Attributes(o).kernel THEN ID(o) \in 1 .. 16
  ELSE ID(o) < 2 ^ FID_SIZE /\ prog[o[1]].iid <= 1000

(* No number a server implements asks for more entries than the tables can *)
(* have: 2^16 in this model, and 2^12 for the bits a label has left for    *)
(* the number of a kernel message.                                         *)
Tabulated(s) ==
  /\ \A o \in UserOperations(s) : ID(o) < 2 ^ 16
  /\ \A o \in KernelOperations(s) : ID(o) < 2 ^ 12
  /\ \A iid \in Interfaces(s) : iid < 2 ^ 16

(* A call with numbers within these limits reaches its function in every   *)
(* server that implements it, in the tables' order of widths, masks and    *)
(* kernel messages, whatever else the server implements.                   *)
CallsReachTheirFunction ==
  phase = "done" =>
    \A s \in Scope : ~Collision(s) /\ Tabulated(s) =>
      \A o \in Operations(s) : Supported(o) =>
        \A label \in Labels(o) : Process(s, label) = {o}

(* No server mixes up methods that have no numbers of their own: "if C     *)
(* inherits from both A and B, then A and B are neither master nor slave,  *)
(* but their FIDs may still not conflict" (be/source.cc:133).              *)
ServersUnambiguous ==
  phase = "done" =>
    \A s \in Scope :
      (\A o \in Operations(s) : Attributes(o).fid = UNKNOWN) => ~Collision(s)

(* The passes that repeat until nothing changes come to an end.            *)
Terminates == <>(phase = "done")
=============================================================================
