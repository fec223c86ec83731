# A TLA+ model of IDL4

IDL4 reads interface definitions and generates C stubs for the L4 microkernel:
client functions that marshal their parameters into message registers, and
server loops that take them out again. A mistake in the generator is a mistake
in every system built with it, and it shows only when a certain mixture of
parameters meets a certain limit. This directory holds models of the parts of
the generator, and of the code it generates, where such mistakes can hide.

All paths below are relative to the repository (`src/` there holds the program).

## Inventory

| Part | Code | State | Operations | What makes it correct |
|---|---|---|---|---|
| IDL front end | `fe/idl` | scope stack, token stream | one action per grammar rule | every name resolves to one AOI object |
| C++ front end | `fe/c++` | symbol table, type under construction | declarators, class bodies | imported types have the size the compiler gives them |
| AOI | `aoi` | tree of scopes, interfaces, operations, types | lookup, visitor, checks | names unique per scope, inheritance acyclic |
| Driver | `base` | options | run the phases | - |
| Back end core | `be/interface.cc`, `be/scope.cc`, `be/source.cc` | id sources, relations, first ids | `claimIDs`, `commit`, table building | related interfaces never share a function id |
| Operations | `be/operations.cc`, `be/ops`, `be/parameter.cc`, `be/dependencies.cc` | list of marshal operations, priorities; in the stubs: buffers | `commit`, `marshal`, `build*` | every parameter is marshalled once; the function gets what was given, the caller what was left; no buffer is lost |
| Types | `be/types` | - | size, alignment, layout | sizes agree with the C compiler |
| V4 connection | `arch/v4` (`optimizer.cc`, `ms.cc`, `fcc.cc`, `vcc.cc`, `fmc.cc`, `clientcall.cc`), `arch/list.cc` | six chunk lists per channel, the lists of string buffers | `getFixedCopyChunk`, `getVariableCopyChunk`, `getMapChunk`, `optimize`, `build*` | the message fits the registers; both ends agree where everything is |
| V4 run time | `arch/v4/serverloop.cc`, `include/user/idl4` | message buffer, buffer registers, restore counter | receive, dispatch, reply, nested calls | strings and memory messages arrive in the buffers the stubs read |
| X0 and V2 connections | `arch/x0`, `arch/v2` | dope, string area, register order | as above | as above |
| CAST | `cast` | C syntax tree | constructors, printing | - |
| Test generator | `be/test.cc` | - | checks in generated clients | they do not fail for a correct stub |
| chacmos | `src/examples/chacmos` | tasks, memory, files of a sample OS | servers written by hand | examples only |

The phases run one after the other in one process: a front end fills the AOI
tree, the back end core wraps it into back end objects and assigns ids, each
operation creates one connection, hands its parameters to it in priority order
and calls `optimize`; then the connection generates C code. The generator itself
has no concurrency; the hard part there is the greedy, multi-pass packing with
its put-backs and early decisions, and the agreement between two stubs that are
generated from the same lists. Concurrency and failure belong to the generated
server: nested calls, buffers that the kernel fills, failed receives.

How the parts interact: the front ends call constructors of AOI objects and look
names up in AOI scopes; `base/main.cc` hands the root to the back end core, which
calls `claimIDs` on every scope, `CBEIDSource::commit` once, and then
`buildClientHeader`, `buildServerTemplate` and so on per interface. Operations
talk to the marshalling back end through the abstract `CMSConnection` (`include/ms.h`):
`get*Chunk` calls while the operation marshals its parameters, one `optimize`,
and `build*` calls that read the result. The generated client and the generated
server share nothing but the message, the kernel's message registers, buffer
registers and string items, and the numbers in the label.

The behaviours that are hard, and the modules that meet them:

- greedy packing in repeated passes, with a put-back after padding and a memory
  message given up on the way (`V4Connection`);
- two stubs that compute positions and buffer numbers on their own and have to
  agree with each other, with the C compiler and with the kernel (`V4Message`);
- a server thread whose buffer registers are overwritten by the calls it makes,
  whose answers are refused, deferred or late, and whose partners go away
  (`V4ServerLoop`);
- the same for the X0 back end, whose reply is composed in the buffer that still
  holds the request, and whose positions the C compiler computes a second time
  (`X0Connection`, `X0Message`);
- buffers that caller, stubs, kernel and function hand to each other, variable data
  read in the order it was written, calls that fail halfway (`Stubs`), and the order
  of operations that makes it work (`ParameterOrder`);
- closures and a topological sorting over a matrix whose entries are set in index
  order while it is scanned (`IDSource`), and tables, masks and bit fields at their
  limits (`Dispatch`).

The hazards themselves, each at its line and with the properties meant to catch it,
are listed in `PROJECT.json`.

## Modules

| Module | Models | Kind |
|---|---|---|
| `CMSList` | `arch/list.cc`: the lists all marshalling back ends use | operators on sequences |
| `V4Connection` | from `CBEOperation::marshal` to the end of `CMSConnection4::optimize` | state machine |
| `V4Message` | the message the stubs make of an optimized connection, and the properties | extends `V4Connection` |
| `V4MessageMC` | sets of operations for TLC | instances |
| `V4Kernel` | operations that stand for messages of the kernel: their comparison at the beginning of `optimize`, then the steps of `V4Connection` | extends `V4Message` |
| `V4KernelMC` | kernel messages for TLC | instances |
| `CollectionProofs` | facts about numbers, finite sets and lists | proofs |
| `V4PackingProofs` | type correctness, the register budget, the position of typed items, shared buffers; kernel messages | proofs |
| `V4NumberingProofs` | strings and their receive buffers; the results about whole messages | proofs |
| `V4ServerLoop` | the generated server loop, its message buffer, nested calls, the clients and the kernel between them | state machine |
| `V4ServerLoopMC` | calls, outcomes and the way counts are combined | instances |
| `V4ServerLoopProofs` | type correctness, buffers, answers, no caller forgotten | proofs |
| `IDSource` | `claimIDs` of all scopes and `CBEIDSource::commit` | state machine |
| `IDAllocation` | what the assignment promises, whatever its algorithm | abstract specification |
| `Dispatch` | labels, server tables and the loop's way from one to the other; the properties of the numbers | extends `IDSource`, instantiates `IDAllocation` twice |
| `DispatchMC` | programs for TLC | instances |
| `IDSourceProofs` | type correctness, both refinements, assertions, function numbers, dispatch | proofs |
| `X0Connection` | the calls on a `CMSConnectionX` and its `optimize`, for the generic platform and ia32 | state machine |
| `X0Message` | the messages, dopes and C structures made of an optimized connection, and the properties | extends `X0Connection` |
| `X0MessageMC` | sets of operations for TLC | instances |
| `X0Proofs` | type correctness, assertions, registers, distances, every value placed once, overlapping replies | proofs |
| `ParameterOrder` | `CBEDependencyList::commit` and the choice of operations in `CBEOperation::marshal` | state machine |
| `RemoteCall` | what one call promises, whatever the stubs do | abstract specification |
| `Stubs` | the code the operations generate: client stub, server stub, reply stub, with the memory they handle | extends `ParameterOrder`, instantiates `RemoteCall` |
| `StubsMC` | operations for TLC | instances |
| `StubsProofs` | every parameter is marshalled once; types, the invariant of a call, the refinement of `RemoteCall`, memory | proofs |
| `TypeLayout` | `getFlatSize` and `getAlignment` of structs, unions and typedefs, beside the C compiler's layout | state machine |
| `TypeLayoutMC` | integer types for TLC | instances |
| `TypeLayoutProofs` | alignments, and sizes of regular types | proofs |

### V4 connection

`V4Connection` has the six lists of `CMSConnection4` per channel (`regFixed` is
`reg_fixed[channel]`, and so on) as sequences of chunks. A chunk keeps what the
code compares: size, alignment, channels, priority, offset, string buffer, and
whether it is transferred; names, types and CAST trees are left out. Marshalling
is one action per call: `SetOption`, `MarshalExceptionCode`, `GetFixedCopyChunk`,
`GetUnboundedCopyChunk`, `GetBoundedCopyChunk`, `GetMapChunk`. `optimize` is one
long function; its actions are the rounds of its loops. For each channel in turn:
`BeginChannel` or the panic `TooManyItems`; `TakeFixed`, `PutBackFixed` or
`SkipFixed` for the fixed chunk in hand, `EndFixedPass` with the merge of
`processed`; `MoveVariable`, `PassVariable`, `EndVariablePass`;
`AddRegisterBuffer` or `NoRegisterBuffer`; `LayoutMemory`. Then `CollectBuffer`
and `NumberString` for every string of every channel. The locals of the function
that live across rounds are variables (`remaining` is `remainingBytes`,
`progress` is `madeProgress`), as most of the properties are about them.

`V4Message` adds no steps. It has the functions that read the lists afterwards -
the message tag, the message struct, the receive buffers of client and server,
the displacement of the reply's memory message - and the rule of the kernel that
item k of a message goes to receive buffer k.

`V4Kernel` puts the beginning of `optimize` before these steps: an operation with the
attribute `kernelmsg` and any number is accepted (`AcceptPagefault`, which moves the
access rights from the registers to the tag, and `AcceptOther`) or refused. Whether
the comparison is right is a question about the finished message, since the
parameters are sorted and distributed after it: `KernelMessageForm` asks for the
values at MR1 and MR2 in the order of their declaration, the number of words and
items in both directions, and exception frames at the same registers both ways.

The operations in the runs are given as parameters of four kinds. A parameter
stands for the calls that its marshal operation makes (`be/ops`), in the
order in which they reach the connection.

### V4 server loop

One thread runs the loop of `arch/v4/serverloop.cc`; `pc` is its place in it.
`MsgbufInit`, `AddBuffer` and `SetRcvWindow` prepare the message buffer,
`EnterLoop` is the head of the outer loop, `MsgbufSync`, `Reply`, `Receive` and
`ReceiveFails`, `TestError` are the parts of `idl4_reply_and_wait` and its error test,
`ProcessReply`, `ProcessAbort` and `ProcessDeferred` are the ways a function can
return. While it serves a request the thread makes any number of nested calls
(`NestedCall`, the code of `buildClientInit`) and answers deferred requests
(`ReplyStub`). `L4_ReplyWait` is two phases, as the kernel may fail in either.
Clients call, wait and time out at any moment (`CallServer`, `TimesOut`); requests are
numbered in the model only, so that a late answer can be told from a timely
one. The way two restore counts are combined differs between the generic glue
code, which takes the larger, and ia32, which has an `orl`; it is the constant `Joined`.

### Numbers and dispatch

`IDSource` has the request stack, the constraints, the matrix `related` and the
arrays of `commit`. The triple loops of the closures are actions
that go to the next triple that changes something (`InheritMasters`,
`MarkCross`): the rounds between do not change the state. The sorting
loop has one action per round (`AssignIDs`, `SkipScope`, `EndSortingPass`).
An assertion that fails in the code is the phase `"assertion"`.

`IDAllocation` promises that a scope gets its range once, behind those of the
interfaces above it with the same interface number, and apart from those of
all scopes it is tied to by any chain of such relations. `Dispatch` states that
`IDSource` implements it for functions and, with other sizes, for exceptions.
What it is needed for is the other half of `Dispatch`: from the label
`buildMessageTag` makes to the entry of the table that the server loop takes.

### X0 connection

`X0Connection` follows `CMSConnectionX` as `V4Connection` follows `CMSConnection4`:
one action per call (`get*Chunk`), then the rounds of the loops of `optimize` in
their order - the reserved register of the function number, map items and their
padding, INOUT values in both messages at once, the best chunk for what is left of
the registers (`candidates`, `Shared` registers included), the strings with their
pads - and the freezing of all positions. Each of three of its assertions has a phase
in which the compiler would stop; none is reached. A chunk keeps size, alignment, flags, the registers it is pinned to
and its positions on both sides. `X0Message` reads the result: the send dope, the
string dopes that all messages of a server share, the part of the request that the
reply overwrites, and the structures that the C compiler lays out by its own rule.

### Order and stubs

`ParameterOrder` has one action per round of `commit`'s loop and of `marshal`'s. A
parameter is a kind, a direction and what its `length_is` names, which need not exist
nor be a number. The phases `circular`, `undefined` and `shared` are the three errors
after which the driver stops.

`Stubs` runs what was generated, for one call. The client stub executes one operation
per action (`ClientMarshal`, `ClientUnmarshal`, with a disjunct per class of
`be/ops`), the server stub as well (`ServerUnmarshal`, `ServerMarshal`); `Call` and
`Reply` are the IPC with the kernel's copying of string items, `CallFails` and `Raise`
the ways a call may fail, `Defer` and `AnswerLater` the reply stub. The message has one
word per parameter, a variable part that is a sequence of pieces without addresses,
and string items that name memory: what they name is read when the message is
sent. Memory is an object per role and parameter (the caller's buffers, the receive
buffers of the stub, what it allocates, the server's pool, memory of the function),
which is allocated or not and holds a value. A value is what the caller or the function
put in, with the parameter it was put in for, a length, and whether it is in the form
of the wire. Lengths differ between parameters and between request and reply.

`RemoteCall` promises what a caller wants to know: the function gets what was given,
at most once; a call that returns has changed exactly the outputs, to what the
function left; a call that fails has changed nothing. The refinement maps the
caller's variables to what they stand for after the call and to what was given before.

### Type layout

`TypeLayout` declares types one after the other, each made of those before. An action is
one round of the loops of `getFlatSize` and `getAlignment` over the members
(`Member`, `NextInUnit`, `NewUnit`, `Element`), and in the same step the member gets
its place by the rule of the C compiler, in bits (`CMember`, `CBitfield`, `CElement`).
A type records both results. A union is begun without a discriminator (`BeginUnion`, the
form that is not CORBA's) or with one (`BeginSwitch`): the latter is declared to C as
`struct { T _d; union { ... } _u; }`, which `CShape` follows, while the loops of the generator
see the members of the union alone. Two history variables say of a type whether a
discriminator is part of it, directly or through its members (`tagged`), and whether it is of a
shape for which `RegularSizesAgree` promises that the sizes agree (`regular`).

## Runs

TLC checks each question on small instances of the models; a run's `about` in
`PROJECT.json` says what it shows, and every property has a mutant there, a plausible
mistake in the code that the run finds.

| Run | Shows | Bounds |
|---|---|---|
| `V4Messages` | the layout stays in its budget at every step, messages fit, typed items are where their tags announce them, buffers of variable data suffice; client, server and kernel agree on string buffers; no chunk is lost or sent twice; the nested passes end, no counter drops below zero; accepted kernel messages have the kernel's form | requests of up to four parameters with sizes at the boundaries; up to three parameters of every kind in all directions, one exception; kernel messages of every number with up to five parameters |
| `V4ServerBuffers` | buffers are restored after any nested calls, answers reach who asked for them, once and in time, nobody who waits is forgotten, every call ends unless its function refuses or defers the answer | three clients, two requests each: one that times out, two whose answers may be deferred; two buffers |
| `IDNumbers` | `IDSource` implements `IDAllocation`, its assertions hold, calls reach their functions | all acyclic inheritance of four interfaces; servers of three |
| `X0Messages` | both sides agree on every position, registers and dopes are used once, the reply spares what is still read, the C structures have the computed layout | up to three parameters of any kind, up to six that use all registers; generic and ia32 |
| `Stubs` | parameters are marshalled once or an error is reported; the stubs implement `RemoteCall`; buffers balance; the ordering ends | one and two parameters of every kind, arrays with their lengths and another parameter, declarations of three |
| `V4EarlyRelease`, `V4StaleOffsets`, `V4SharedBuffer`, `V4ReplyOverlap`, `IDServers`, `X0InoutWords`, `TypeSizes` | the findings below | operations and programs of the passing runs; large requests and replies for `V4ReplyOverlap`; pairs for `X0InoutWords`; structs of one integer type for `TypeSizes` |

*V4 bounds.* All runs use the numbers of the code: words of four bytes, 63
message registers, 400 bytes as the limit of direct transfer. The packing
compares sizes with what is left, so what matters is sizes at the boundaries:
1, 2 and 4 bytes for the priorities, odd sizes for the padding, 228, 236 and 300 for
messages that are full exactly, almost, or with one chunk, 400 for strings. With up
to four of those where one word more or less decides (of four, the first two are small and the last is large), or two of any, every action of the
packing fires, the put-back in every order of sizes; 29 strings and up to three map items leave three
registers, one or none. The numbering needs no sizes but every direction, and mixes of three show
every order of IN, INOUT, OUT and temporaries. The kernel messages have words, values
that are smaller or aligned differently, frames of one word up to more than the
registers hold, and one parameter that does not belong there.

*Server bounds.* Two string buffers are the fewest with a chain that has an inner
link; six buffer registers leave one pair beyond, so that a nested call can use fewer
or more than the server. A client with two requests that times out is enough for a late
answer and for a partner that has gone while another one sends; with deferred answers
their order matters, which takes two more clients. Who times out and whose answers may
be deferred are constants (`Impatient`, `Deferrable`): a client that does both may get
a late answer, as messages carry no request number. `CHECK_DEADLOCK FALSE`: a server
whose clients have made all their requests (`MaxRequests`) waits for ever, as servers
do.

*ID bounds.* Four interfaces are the fewest for a diamond and for two chains that
meet; they are declared in any order (the closures run in index order), with one
or two interface numbers. Superclasses that are inherited through another one are
left out, as `claimIDs` reaches the same interfaces without them. Servers have numbers
at the borders of their tables: 0, 1, 3 or 63 methods without numbers, the
attributes 2 and 63, kernel messages 1, 2 and 16, interface numbers 0, 1, 2 and 1000.

*X0 bounds.* The three registers of X0 (the proofs cover the two of V2, too). Shapes are what its comparisons tell
apart: 1, 2 and 4 bytes, a struct larger than a register, a bounded and an unbounded
string, a map item; three of them in every direction reach every branch but the
sharing of a register beside full ones, which the operations that begin with two
words and have up to four more reach.

*Stubs bounds.* Pairs of parameters are enough for every interaction of two
operations: pieces swapped, buffers mixed up, a length claimed early; three for an
array with its length in front, behind, and something between. Buffers hold two
elements, so that an output can be shorter than, as long as, or longer than the input
it replaces. `CHECK_DEADLOCK FALSE`: a call ends, and a client whose server
refuses or defers may wait for ever. `Supported` says which operations `RemoteCall` is
promised for; in the others the code does something else (below): an INOUT map item, a
preallocated INOUT array, a length that does not go where its array goes, and a
returned string that is sent as a string item. The rest of `Supported` is what the
generator does anyway: an array is sent as a string item, `prealloc` means nothing for a
string of unknown length, and a one-way operation has no outputs. `AllSupported` has TLC
check that every operation of `StubsMC` is one of these, so the run and the theorems are
about the same thing.

*Type bounds.* `TypeSizes` has one integer type, so that a counterexample is about
bit-fields beside ordinary members and not about the order of types. With integers of 1,
2, 4 and 8 bytes, two more types of up to three members each, TLC finds the other cases of the
observations below, and no counterexample to the two properties that are proved. `CHECK_DEADLOCK FALSE`: the
declarations end at `MaxTypes`.

*Fairness.* The generator is a sequential program that never waits: weak fairness
of its next step (`V4Connection!FairSpec`, `IDSource!FairSpec`, `Stubs!FairSpec` for
the steps of `ParameterOrder`; of the stubs nothing is assumed). In the server run,
weak fairness of the server thread's own steps says that the thread is scheduled and
that its functions return; nested calls and reply stubs are not forced to happen. A
client that sends is served by the kernel, which queues senders: since the server
is ready for one only now and then, this takes strong fairness for each
client. No fairness is assumed of clients, neither that they call nor that they
time out.

## Proofs

TLAPS checks these for every value of the constants that meets the named
assumptions.

- `V4PackingProofs`: `TypeCorrect` - under `ConnectionAssumption`, the lists hold
  chunks and no byte counter drops below zero. `EndsEquation` is the layout's
  recurrence; `PutBackShape` says that the put-back leaves the layout it found: the
  list is changed at one place, so lists with equal sizes and alignments have equal
  layouts. `RegistersWithinBudget` and `MessagesFit` come from `BudgetInv`, which adds to the
  type invariant that a channel not yet packed holds
  at most its tag, and that every packed channel keeps to its budget while later
  channels are packed and strings are renumbered, which neither creates
  nor removes items. The number of registers has to be odd: then a budget that is
  not negative leaves at least one register, for the tag.
- There also: `KernelTypeCorrect`, `KernelMessagesFit` and `TagIsForPrivileges`. The steps
  after the comparison are steps of `V4Connection`, so its invariants carry over once the
  comparison is shown to keep them (`KernelInv`): it moves one chunk, from the arguments to the
  tag, before anything is packed.
- And the invariants that `TypedItemsFound` and `VariablesFit` need. `RegistersCovered`: some chunk
  in registers reaches, with the offset stored in it, at least as far as the layout of the whole list.
  This takes an argument for the put-back only, which leaves the other chunks with the offsets they had
  beside the chunk that left: taking a chunk out of a list never moves the others away from
  its beginning. That alone keeps words from being cut off; that the typed items are found as well needs the
  other direction, that no chunk in registers reaches beyond the layout. A put-back breaks it, but the chunk
  put back stays in the memory message from then on or in the hands of the pass, which
  the invariant names (`PlacedInv`); `NoBufferYet` says that no shared buffer is
  taken for such a chunk, and `TagLaidOut` that the layout begins with the tag. `VarbufInv`: while variable chunks move to the
  registers, the budget pays for each of them in whole words, and what it has paid is the size of
  the `_varbuf` that is added then.
- `V4NumberingProofs`: `TypedItemsFound`, `VariablesFit`, `ReceiveBuffersMatch` and
  `StringBuffersSeparate`, four properties of a finished message, from `MessageInv`: the
  invariants above and `NumberingInv`, whose parts follow the strings through `optimize`. `StringsInv`:
  both channels hold the same string of an INOUT parameter, and ids tell parameters
  apart. `BuffersInv`: the list of buffers has one entry for an id, is sorted by priority, and after the
  collection has one for every string. `RenumberedInv`: a list that was renumbered is sorted by
  the buffers of its strings. From this follows why temporaries and the other
  direction do not get in the way: buffers of the request come first and those that nothing is sent
  through come last, so the strings before a transferred one are transferred, too, and a request's k-th
  item has the k-th buffer (`TransferredFirst`, `BuffersInOrder`).
- Also there, `NoChunkLost`, by counting. Chunks have no identity that survives the packing, which copies
  them from list to list with other offsets, so `ConservedInv` counts: for every channel and every
  `<<id, part>>` of a parameter, its copies in the six lists of the channel, in what a loop has in its hands
  (`processed`, `newList`) and in the tag add up to 1 if one of the parameters marshalled so far put it there,
  and to 0 otherwise. Lemmas say by how much inserting, removing, concatenating and laying out change the
  copies in one list; each step then moves a copy from one summand to another.
  That the sum starts right needs one id per parameter.
- `V4ServerLoopProofs`: `ServerTypeCorrect`, `BuffersAlwaysRestored`,
  `StringsReachServer` from `ServerInv`: bit 0 chains exactly the buffers added so far,
  whose pointers are where the stubs look (`ChainInv`), and every buffer register that
  differs from the message buffer is below the restore counter (`RestoreInv`). This
  holds for every way of combining counts that gives at least both
  (`JoinAssumption`). `AnswersMatchRequests` and `NeverAnsweredTwice` from `AnswerInv`:
  while the loop has a partner, it holds that
  partner's latest request, and whoever is owed a deferred answer still waits for it.
  They assume that no client both times out and has its answers deferred. `NoCallerForgotten` assumes
  nothing of the clients. Whenever the loop starts again or takes a message it overwrites its partner, so
  `PartnerInv` has it that the partner it has then waits no more: it was answered, its send failed because it is gone,
  or its own message was cut off.
- `IDSourceProofs`: `IDTypeCorrect`, and `FunctionsAllocated` and
  `ExceptionsAllocated`, the refinement of `IDAllocation` under
  `ProgramAssumption`. The argument (`IDInv`): a pass that ends unchanged has seen the
  whole matrix, so the relation is transitive when the sorting begins and holds
  everything the constraints tie together; `depends` counts the masters without
  numbers, so a scope gets its own after all of them; and since its range starts
  behind those of all scopes it is related to, ranges are apart.
- Also there, from `NumbersInv`, which adds three invariants to `IDInv`. `AssertionsHold`: the
  assertions of `commit` do not fail. As `MasterInv` has it, only interfaces above a scope
  become its masters, so that inheritance without circles leaves some scope without a pending master; `PassInv`
  has it that a pass without progress has met no scope that was ready. Among the scopes without numbers one
  with the fewest interfaces above it is ready, so both together are impossible.
  `MethodsDistinguished` takes `RangeInv`: the numbers of a scope are a range, and the ranges of the
  scopes a server implements are apart if they all have one interface number. `CallsDispatched`
  adds the widths of the tables and the masks of the loop: an index within a table
  is not changed by the table's mask. It is stated, as the property is, for numbers the label has bits
  for, and for servers that do not ask for tables of more than 2^16 entries or numbers of kernel messages
  beyond 12 bits (`Tabulated`).
- `StubsProofs`: `ParametersMarshalledOnce`, for every declaration, from
  `OrderInv`: the priorities given so far are 1 to `last`, each once, and lie above those
  of the parameters depended on (`PrioritiesOrdered`); a pass without progress has
  found something unresolved for every parameter left (`PassKnows`), so those left
  depend on each other; and what is marshalled is what has a priority above the cursor
  and the lengths of the arrays among it (`Accounted`). An array comes before
  its length because its priority is higher, and a length cannot be an array, so
  no operation is built for what an array has claimed. That there is no circle behind
  a complete order takes the lowest priority in it.
- Also there `StubsTypeCorrect`, for every declaration, from `TypeInv` and `CursorInv`:
  no stub runs past the end of its list of operations. Three theorems follow under
  `Supported(op)`, for any number of parameters. `CallsKeepInvariant` is the inductive
  invariant `CallInv` they rest on. It follows the call: what the client has marshalled
  so far is in the message, in the order of its operations (`RequestInv`); what the
  server has read so far it holds, and the next piece it reads is the next one written,
  because the pieces before it are as many as the operations before it that have one
  (`ServerInv`, counted by `Before`); the same for the reply and for what the client
  takes from it (`ReplyInv`, `ArrivedInv`, `TakenInv`); and throughout, what the client
  points to is the caller's, its own or a string item's buffer, each parameter has memory of
  its own, and the caller's inputs still are what they were (`GivenInv`). A length is
  complete together with its array and not when its own turn comes, which `Behind` says.
- `StubsAreRemoteCall` shows from `CallInv` that a step of the stubs is a step of
  `RemoteCall` or a stutter: `ServerInvoke` is its invocation, the return of the client
  its end, and everything else leaves the mapped variables alone. `StubsBalanceMemory`
  adds `BalanceInv`: a buffer of the client exists only while a variable of the client
  points to it, the buffers of the stub's frame not beyond the call, and the server frees a
  string it was returned once that is in the reply. Nothing is used after it was freed or
  freed twice, which holds of failing calls, too; that nothing is lost is said of calls
  that return.

- `TypeLayoutProofs`: `AlignmentsRight` and `RegularSizesRight`, for words of four and
  eight bytes (`LayoutAssumption`). The invariant (`LayoutInv`) has the generator's alignment equal to
  the C compiler's as long as no discriminator is involved, and never above it (`AlignmentInv`,
  `SwitchInv`); and of what is regular so far, the generator's offset
  and the C compiler's bit position in step: equal after ordinary members, and apart by
  `bitfieldBitsRemaining` in a struct of bit-fields (`UnitInv`). A regular type has no
  gap at its end, so that padding behind a member, which the C compiler does not have,
  changes nothing.

- `X0Proofs`: `TypesCorrect`, `LayoutNeverFails`, `RegistersNeverShared`, `WordsKeepDistance`,
  `EveryValuePlacedOnce`, `UnpaddedInputsNeverOverwritten` and `InoutsStayInPlace`, for any number
  of parameters and exceptions and, since the V2 back end is derived from this one,
  for two registers as well as three (`ConnectionXAssumption`). The invariant (`LayoutInvX`) says of each
  channel what its registers hold in every phase (`RegistersInv`): values that fit a register and
  behind them at most one identifier, or a map item and the identifier; and `regsUsed`, the
  candidates of a scan and what is left always make up all registers. The loop that moves an INOUT value in
  two channels keeps this only because both chunks of an id have one size (`IdsInv`). `AlignInv`
  has the displacement of the reply a multiple of the alignment of all its words, so that padding a word on the
  client leaves nothing to pad on the server and the two positions stay the displacement apart
  (`PlacesInv`). A fact of the front end is used: a one-way operation has no outputs
  (`fe/idl/parser.yy:1276`). Its reply has no exception code, so a map item in it would leave one of the
  three registers, and the padding behind it needs two.

  `EveryValuePlaced` counts, like `NoChunkLost` of V4: for each id of a parameter and each
  channel, the chunks in the channel's registers, its words and among the candidates are as
  many as the operation asked for (`FoundInv`), each loop that moves a
  chunk takes one away where it adds one, and the ids of padding and varbufs lie behind those
  of the parameters (`NumbersInv`).

  Where the reply may overlap the request, the generator has compared ids and a sum of sizes, no
  positions. `OverlapInv` keeps what it found: the reply lies behind all words of the request, or
  it begins behind the first words, none of which goes back, and with all the others in the same sequence.
  `LaidInv` has every word as close to the one before it as its alignment allows. By induction along the common
  words both lists then reach the same byte of the server's buffer: request and reply halves of
  a value have one size and one alignment (`IdsInv`), the request has no padding by assumption (`RequestUnpadded`),
  so each of its words ends at a position where the next is aligned, and the displacement
  does not change that (`AlignInv`). With padding this breaks; see the further cases under "Findings".

Only model-checked: the form of kernel messages, the other properties of `X0Message` (dopes,
strings and C structures), and the liveness properties. Beyond the prover are liveness, as it has no rules
for fairness and ENABLED, and induction over data with an operator as its
predicate: `CollectionProofs` gets the facts about numbers it needs from sets instead.
For the same reason no module uses RECURSIVE; recursion is written as functions.

## Findings

Seven runs show a disagreement between the code and what its comments, assertions,
generated checks or documentation say. Details and lines are in `PROJECT.json`.

1. `V4EarlyRelease`: the memory message is given up while chunks that need it are set
   aside; the two registers freed are used, and the message is too long.
2. `V4StaleOffsets`: after a put-back the other chunks keep the offsets they got beside the chunk that
   left, and the tag announces more words than they occupy: with values of
   1, 4, 5 and 228 bytes the typed items are expected at byte 248 and are at byte 240.
   `TypedItemsWhereAnnounced` shows that the two positions part in no other way.
3. `V4SharedBuffer`: a memory message and the first string want the same buffer: string
   buffer 15 of the server in a request, the first receive buffer of the client in
   a reply, where the chain of buffers then ends.
4. `V4ReplyOverlap`: the reply's part of a shared memory message begins inside the
   request's variable data.
5. `IDServers`: an interface with a number of its own can inherit from two with
   the same other number, whose functions are then numbered alike.
6. `X0InoutWords`: when map items fill the registers of the reply, a small INOUT value
   goes into a register of the request only, and the generator fails an assertion:
   `f(inout char c, out fpage p)` cannot be compiled for X0.
7. `TypeSizes`: a bit-field behind an ordinary member is put into a unit in front of it;
   `struct { long a : 4; long b; long c : 4; }` is assumed to have 8 bytes and has 12.

Some further cases were met while modelling that an assertion or a check in
generated tests contradicts as well. They have no run of their own:

- A union with a discriminator is declared to C as a struct of discriminator and union
  (`src/src/be/types/union.cc:21-45`), while its size and alignment are computed as if it
  had none (`union.cc:281-328`): `union U switch (long) { case 1: char c; }` is assumed to have size and
  alignment 1, and has 8 and 4. `BeginSwitch` and `CShape` model both sides; `SizesAgree`
  and the two theorems are about types that no such union is part of, except that
  the generator is never too strict, which `AlignmentsRight` has for these, too.
  The check "Size of %s is %%d (assumed %d)" (`union.cc:133`) would notice, but the rest of the test code for unions names
  the elements without `_u` (`union.cc:137-147`), so a test of such a union does not compile.
- A union is not padded to its alignment either: `union { struct { char a[5]; } s; long l; }`
  is assumed to have 5 bytes and has 8, against the same check. It is no regular type,
  and `SizesAgree` finds it when there are more integer types than in `TypeSizes`.
- The position test of generated clients (`src/src/arch/v4/ms.cc:1313-1358`) takes the first
  string or map item for the first typed item although a memory message stands in front of it, and
  stops with "Alignment error in channel %d" for messages that are laid out as their tags say.
- X0 computes by how much the reply is displaced from sums of sizes, not from
  positions (`src/src/arch/x0/optimizer.cc:263-319`). Behind a request with padding the reply begins too
  early: `f(in long, inout long, in char, in long, in char, in long, in char, in long, inout long, inout long)`
  has its last `in long` at 48 to 51, and the last `inout long` is written there as part of the reply.
  Generated test servers check for this: "Output value collision detected" (`src/src/be/types/integer.cc:223`).
  `UnpaddedInputsSurvive` and `InoutsStay` say that without padding all is well.
- On the generic X0 platform `assert(!dopeOffset || (dopeOffset>=8))` (`src/src/arch/x0/ms.cc:528`)
  fails when one input word stands in front of the INOUT words that a long reply overlaps, as in
  `f(in long, inout long, in long, inout struct of two longs)`: the dopes of the reply are displaced by 4 bytes.

Other observations, about which the repository does not say what is expected, or which lie
outside of the models or are excluded by an assumption:

- A request to sigma0 with more parameters than `in word, in word` is accepted, although the
  panic text (`src/src/arch/v4/optimizer.cc:207`) asks for exactly these: the code does not
  test for the end of the list as the other cases do. A value larger than a word
  is then put into registers before the two words; `KernelMessageForm` states the order of the words
  only for two.
- An exception frame that does not fit the registers is accepted and goes to the memory
  message.
- `optimizer.cc:380` panics when one register is left and a bounded string fits it.
- The `orl` of ia32 (`src/src/include/user/idl4/glue/v4-ia32/runtime.h:110`) combines 31
  and 33 to 63, more than there are buffer registers.
- The message buffer has room for 16 string buffers; a 17th lies below it.
- A deferred answer may reach a later call of a client that times out: messages carry
  no request number.
- Bit-fields of two types, or followed by a smaller member, share a unit in C (System V
  ABI) and get units of their own from `getFlatSize`: `struct { long a : 4; char b; }` is
  assumed to have 8 bytes and has 4. The manual calls them "highly platform-dependent"
  (`src/doc/manual/idl.tex:367`).
- The first closure of `commit` never adds anything, as `avoidConflicts` names all
  interfaces above a scope already.
- Exceptions of a module or of the root are not tied to those of interfaces; two
  that one operation raises may have the same number.
- Nothing checks that a function number fits its six bits, or that an interface
  number stays clear of the labels of kernel messages (from 1020 on).
- Two methods with the same uuid are reported while their server is built, after the
  last test for errors (`src/src/base/main.cc:388`).
- Circular inheritance through a forward declaration makes `avoidConflicts` recurse
  for ever; `ProgramAssumption` excludes it.
- Failed calls lose memory: the receive buffers allocated for the reply
  (`src/src/arch/v4/ms.cc:985-1024`) are freed only in the success block
  (`src/src/be/operations.cc:139-161`).
- A returned string is freed by the server stub right after it was marshalled
  (`src/src/be/ops/untilzero.cc:176`), before the kernel reads it if it is sent as a string
  item; the client frees its receive buffer (`operations.cc:141`) before the return
  value is copied from it (`operations.cc:168`), and unmarshals it after a failed
  call as well.
- The reply of an INOUT map item is taken from the reply's member of the message buffer
  while the function works on the request's (`src/src/be/ops/fpagemap.cc:43-56`): what the
  function leaves is lost.
- A preallocated INOUT array is freed by the client stub although the caller provided
  it (`src/src/be/ops/array.cc:77-82`); `prealloc` on a string has no effect in `untilzero.cc`.
- A length travels only as part of its array, in the array's directions
  (`src/src/be/types/string.cc:25-32`), and is dereferenced as the array is
  (`src/src/be/ops/array.cc:41-47`): with a direction of its own that differs, its value is not
  transferred where it should be. Nothing checks that they are equal.
- An X0 register shared by a char and a short is not laid out by the C
  compiler as the generator computed it (`StructuresMatch` excludes it).
- On the generic X0 platform a one-way operation with words and a string may get a
  `_spacer` of negative size.

## Not modelled

`PROJECT.json` lists every component with its status. Left out for good: the CAST
(construction and printing of C code, no decisions), the driver and the line
bookkeeping of the front ends (straight-line I/O), simple types but integers (constants), V2 and
the dummy back end (thin subclasses). Within the modelled parts: local services,
the server loop of X0, stubs generated without malloc, the translation of foreign
types (`itrans`, `otrans`), structures with variable members, `dprintln` output, and
the C text of the stubs. The kernel is modelled from how the
generated code uses it: items fill receive buffers in order, a failed send ends the
system call, a cut-off message is an error for both sides.

## Plan

In order, the most important behaviour first:

1. *Done:* V4 connection, message, server loop, numbers and dispatch, with their proofs.
2. *Done:* parameter order, with its proof; X0 connection and message; the stubs made of
   the marshal operations as an implementation of a remote call.
3. *Done:* kernel messages, `arch/v4/optimizer.cc:11-259`, as an alternative beginning of
   `V4Connection`'s optimizer.
4. *Done:* type layout, with its proof.
5. AOI: scopes, lookup through superclasses, forward declarations and the checks of
   `aoi/check.cc`, which give `ProgramAssumption` its justification.
6. The server loop of X0 beside `V4ServerLoop`; structures with variable members in
   `Stubs`.
7. The C++ front end's symbol table; the servers of the sample system, if time allows.

Proofs to come: the other properties of the messages made of an optimized X0 connection
(`StringsKeepPlaces`, `SendDopeCovers`, `ServerDopesKept`, `StructuresMatch`),
which take the order of the lists at the end of every phase and sums over their elements.

## Running

    tlc -workers 2 -config V4Messages.cfg V4KernelMC     # any run: its cfg and module
    tlapm V4PackingProofs.tla                            # any module of proofs

All runs and proofs together take some minutes.
