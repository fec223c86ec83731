--------------------------- MODULE ParameterOrder ---------------------------
(* The order in which the parameters of an operation are marshalled.  The    *)
(* parameter that an array's length_is names is marshalled by the array's    *)
(* own operation, so the array has to come first: CBEDependencyList gives    *)
(* every parameter a priority above those it depends on, in passes over its  *)
(* list until all are done or a pass gets nowhere, and CBEOperation::marshal *)
(* takes the parameters by falling priority, skipping what is marshalled.    *)
(* An error that is met on the way is counted, and the driver stops in front *)
(* of the next phase.                                                        *)
EXTENDS Integers, Sequences, FiniteSets

CONSTANT
  Operations     \* the declarations the generator may be given

(* kind: the type, as far as marshalling tells types apart; direction: "in", *)
(* "out" or "inout"; length: 0 without length_is, ConstLength for a constant,*)
(* otherwise the position of the parameter it names, which need not exist;   *)
(* prealloc, noxfer: the attributes of these names.                          *)
Kinds == {"word", "struct", "thread", "map", "string", "sequence"}
Directions == {"in", "out", "inout"}
ConstLength == -1
Parameter == [kind : Kinds, direction : Directions, length : Int,
              prealloc : BOOLEAN, noxfer : BOOLEAN]

ASSUME OperationsAreLists ==
  \A o \in Operations : o.params \in Seq(Parameter)

VARIABLES
  op,            \* the operation at hand, one of Operations
  stage,         \* what the driver does with it
  priority,      \* CBEParameter::priority, 0 until it is assigned
  last,          \* commit's prio: the priority assigned last
  cursor,        \* the parameter the pass, or the priority marshal, looks at
  progress,      \* commit's madeProgress
  more,          \* commit's moreWorkToDo
  marshalled,    \* the parameters whose marshalled flag is set
  ops            \* marshalOps: per operation, the parameter it was built for

orderVars == <<op, stage, priority, last, cursor, progress, more, marshalled, ops>>

Params == 1..Len(op.params)
Param(p) == op.params[p]

Scalar(p) == Param(p).kind = "word"

(* What length_is refers to exists and is a number. *)
Resolves(p) == Param(p).length \in Params /\ Scalar(Param(p).length)
BadReference(p) == Param(p).length > 0 /\ ~Resolves(p)

DependsOn(p) == IF Resolves(p) THEN {Param(p).length} ELSE {}

NoneUnresolved(p) == {}                             \* mutant of Unresolved
Unresolved(p) == {q \in DependsOn(p) : priority[q] = 0}

(* The parameters whose operation marshals the length as well. *)
IsArray(p) == p \in Params /\ Param(p).kind = "string" /\ Param(p).length # 0 /\ ~Param(p).noxfer
LengthOf(p) == IF IsArray(p) THEN DependsOn(p) ELSE {}

Init ==
  /\ op \in Operations
  /\ stage = "commit"
  /\ priority = [p \in Params |-> 0]
  /\ last = 0
  /\ cursor = Len(op.params)      \* registerParam puts each in front
  /\ progress = FALSE /\ more = FALSE
  /\ marshalled = {} /\ ops = <<>>

-----------------------------------------------------------------------------
(* One parameter of a pass of commit. *)
Visit ==
  /\ stage = "commit" /\ cursor > 0
  /\ IF priority[cursor] = 0 /\ Unresolved(cursor) = {}
     THEN /\ priority' = [priority EXCEPT ![cursor] = last + 1]
          /\ last' = last + 1
          /\ progress' = TRUE
          /\ more' = more
     ELSE /\ more' = (more \/ priority[cursor] = 0)
          /\ UNCHANGED <<priority, last, progress>>
  /\ cursor' = cursor - 1
  /\ UNCHANGED <<op, stage, marshalled, ops>>

ProgressKept ==                                      \* mutant of EndPass
  /\ stage = "commit" /\ cursor = 0
  /\ IF more
     THEN /\ stage' = IF progress THEN "commit" ELSE "circular"
          /\ cursor' = Len(op.params)
     ELSE stage' = "marshal" /\ cursor' = last
  /\ more' = FALSE
  /\ UNCHANGED <<op, priority, last, progress, marshalled, ops>>

(* The end of a pass: another one, a circle, or the next phase, which the    *)
(* driver enters only if no error was counted.                               *)
EndPass ==
  /\ stage = "commit" /\ cursor = 0
  /\ IF more
     THEN /\ stage' = IF progress THEN "commit" ELSE "circular"
          /\ cursor' = Len(op.params)
     ELSE /\ stage' = IF \E p \in Params : BadReference(p) THEN "undefined" ELSE "marshal"
          /\ cursor' = last
  /\ progress' = FALSE /\ more' = FALSE
  /\ UNCHANGED <<op, priority, last, marshalled, ops>>

(* The next parameter of sortedParams, from its end.  An array claims its    *)
(* length; that a length is claimed already is an error.                     *)
NextParam == CHOOSE p \in Params : priority[p] = cursor

Marshal ==
  /\ stage = "marshal" /\ cursor > 0
  /\ LET p == NextParam
     IN IF p \in marshalled
        THEN UNCHANGED <<stage, marshalled, ops>>
        ELSE /\ marshalled' = marshalled \cup {p} \cup LengthOf(p)
             /\ ops' = Append(ops, p)
             /\ stage' = IF LengthOf(p) \subseteq marshalled /\ LengthOf(p) # {}
                         THEN "shared" ELSE stage
  /\ cursor' = cursor - 1
  /\ UNCHANGED <<op, priority, last, progress, more>>

(* All parameters are through; the code is generated. *)
Generate ==
  /\ stage = "marshal" /\ cursor = 0
  /\ stage' = "generated"
  /\ UNCHANGED <<op, priority, last, cursor, progress, more, marshalled, ops>>

OrderNext == Visit \/ EndPass \/ Marshal \/ Generate

OrderSpec == Init /\ [][OrderNext]_orderVars

-----------------------------------------------------------------------------
(* What is generated marshals every parameter once: it has one operation of  *)
(* its own or is the length of one array, never both, and the three errors   *)
(* are reported for the declarations they are meant for and for no others    *)
(* (parameter.cc 191-245, dependencies.cc, string.cc 13-42).                 *)
Circular ==
  \E R \in SUBSET Params : R # {} /\ \A p \in R : DependsOn(p) \cap R # {}
SharedLength ==
  \E p, q \in Params : p # q /\ LengthOf(p) # {} /\ LengthOf(p) = LengthOf(q)
Undefined == \E p \in Params : BadReference(p)

MarshalledBy(p) == {i \in DOMAIN ops : ops[i] = p \/ LengthOf(ops[i]) = {p}}

LengthsWithTheirArrays ==
  /\ stage = "generated" => /\ ~Circular /\ ~SharedLength /\ ~Undefined
                            /\ \A p \in Params : Cardinality(MarshalledBy(p)) = 1
  /\ stage = "circular" => Circular
  /\ stage = "undefined" => Undefined
  /\ stage = "shared" => SharedLength

(* The passes of commit, repeated while they make progress, come to an end,  *)
(* whatever the declaration refers to.                                       *)
OrderEnds == <>(stage \in {"circular", "undefined", "shared", "generated"})

=============================================================================
