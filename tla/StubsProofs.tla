---------------------------- MODULE StubsProofs ----------------------------
(***************************************************************************)
(* Proofs about a call, for every declaration: any number of parameters of *)
(* any kinds, any references among them, any assignment of strings to      *)
(* message and items.  First the order of the marshalling operations       *)
(* (ParameterOrder), then the types of the stubs, then, for the operations *)
(* that are Supported, the invariant of a call: what each message holds,   *)
(* what each side has taken from it, and who points to which memory.       *)
(***************************************************************************)
EXTENDS Stubs, CollectionProofs

(* Every variable has its type.                                            *)
OrderTypes ==
  /\ op \in Operations
  /\ stage \in {"commit", "circular", "undefined", "marshal", "shared", "generated"}
  /\ priority \in [Params -> Nat]
  /\ last \in Nat
  /\ cursor \in Nat
  /\ progress \in BOOLEAN /\ more \in BOOLEAN
  /\ marshalled \in SUBSET Params
  /\ ops \in Seq(Params)

(* The priorities assigned so far are 1 to last, each given once, and lie  *)
(* above those of the parameters depended on.                              *)
PrioritiesOrdered ==
  /\ \A p \in Params : priority[p] <= last
  /\ \A p, q \in Params : priority[p] # 0 /\ priority[p] = priority[q] => p = q
  /\ \A k \in 1..last : \E p \in Params : priority[p] = k
  /\ \A p, q \in Params : priority[p] # 0 /\ q \in DependsOn(p) =>
                            priority[q] # 0 /\ priority[q] < priority[p]

(* What a pass knows of the parameters behind its cursor.                  *)
PassKnows ==
  stage = "commit" =>
     /\ cursor <= Len(op.params)
     /\ marshalled = {} /\ ops = <<>>
     /\ ~more => \A p \in Params : p > cursor => priority[p] # 0
     /\ ~progress => \A p \in Params : p > cursor /\ priority[p] = 0 => Unresolved(p) # {}
     /\ more /\ ~progress => \E p \in Params : priority[p] = 0

(* Array p has been marshalled.                                            *)
Through(p) == priority[p] > cursor
ClaimedBy(p, a) == a \in Params /\ LengthOf(a) = {p}

(* What is marshalled, and by which operation.                             *)
MarshalKnows ==
  stage \in {"marshal", "generated"} =>
     /\ cursor <= last
     /\ stage = "generated" => cursor = 0
     /\ ~Undefined
     /\ \A p \in Params : priority[p] # 0
     /\ \A p \in Params : p \in marshalled <=>
          (Through(p) \/ \E a \in Params : ClaimedBy(p, a) /\ Through(a))
     /\ \A i \in DOMAIN ops : Through(ops[i]) /\ ~ \E a \in Params : ClaimedBy(ops[i], a)
     /\ \A p \in Params : Through(p) =>
          (\E a \in Params : ClaimedBy(p, a)) \/ \E i \in DOMAIN ops : ops[i] = p
     /\ \A i, j \in DOMAIN ops : ops[i] = ops[j] => i = j
     /\ \A a, b, p \in Params :
          Through(a) /\ Through(b) /\ ClaimedBy(p, a) /\ ClaimedBy(p, b) => a = b

ErrorsMeant ==
  /\ stage = "circular" => Circular
  /\ stage = "undefined" => Undefined
  /\ stage = "shared" => SharedLength

OrderInv == OrderTypes /\ PrioritiesOrdered /\ PassKnows /\ MarshalKnows /\ ErrorsMeant

-----------------------------------------------------------------------------
(* The declarations.                                                       *)

LEMMA ParamsAreNumbers ==
  ASSUME op \in Operations
  PROVE  /\ op.params \in Seq(Parameter)
         /\ Len(op.params) \in Nat
         /\ \A p \in Params : p \in Nat /\ p >= 1 /\ p <= Len(op.params)
<1>1. op.params \in Seq(Parameter)
  BY OperationsAreLists
<1>2. Len(op.params) \in Nat
  BY <1>1
<1> QED BY <1>1, <1>2 DEF Params

(* A parameter depends on parameters only.                                 *)
LEMMA DependsOnParams ==
  ASSUME NEW p PROVE DependsOn(p) \subseteq Params
BY DEF DependsOn, Resolves

(* An array claims at most one parameter, which it depends on and which is *)
(* no array itself.                                                        *)
LEMMA LengthIsNoArray ==
  ASSUME NEW a \in Params, LengthOf(a) # {}
  PROVE  \E q \in Params : LengthOf(a) = {q} /\ q \in DependsOn(a) /\ LengthOf(q) = {}
<1>1. IsArray(a) /\ LengthOf(a) = DependsOn(a)
  BY DEF LengthOf
<1>2. Resolves(a) /\ DependsOn(a) = {Param(a).length}
  BY <1>1 DEF LengthOf, DependsOn
<1>3. Param(a).length \in Params /\ Scalar(Param(a).length)
  BY <1>2 DEF Resolves
<1>4. ~IsArray(Param(a).length)
  BY <1>3 DEF Scalar, IsArray
<1>5. LengthOf(Param(a).length) = {}
  BY <1>4 DEF LengthOf
<1> QED BY <1>1, <1>2, <1>3, <1>5

(* The operation stays the same, and with it all that is said of it.       *)
LEMMA SameOperation ==
  ASSUME op' = op
  PROVE  /\ Params' = Params
         /\ \A p : DependsOn(p)' = DependsOn(p)
         /\ \A p : LengthOf(p)' = LengthOf(p)
         /\ \A p, a : ClaimedBy(p, a)' <=> ClaimedBy(p, a)
         /\ Undefined' <=> Undefined
         /\ Circular' <=> Circular
         /\ SharedLength' <=> SharedLength
<1>1. Params' = Params
  BY DEF Params
<1>2. \A p : Param(p)' = Param(p)
  BY DEF Param
<1>3. \A p : Resolves(p)' <=> Resolves(p)
  BY <1>1, <1>2 DEF Resolves, Scalar, Param
<1>4. \A p : DependsOn(p)' = DependsOn(p)
  BY <1>2, <1>3 DEF DependsOn
<1>5. \A p : LengthOf(p)' = LengthOf(p)
  BY <1>1, <1>2, <1>4 DEF LengthOf, IsArray
<1>6. \A p, a : ClaimedBy(p, a)' <=> ClaimedBy(p, a)
  BY <1>1, <1>5 DEF ClaimedBy
<1>7. Undefined' <=> Undefined
  BY <1>1, <1>2, <1>3 DEF Undefined, BadReference
<1>8. Circular' <=> Circular
  BY <1>1, <1>4 DEF Circular
<1>9. SharedLength' <=> SharedLength
  BY <1>1, <1>5 DEF SharedLength
<1> QED BY <1>1, <1>4, <1>5, <1>6, <1>7, <1>8, <1>9

-----------------------------------------------------------------------------
(* The passes of commit.                                                   *)

LEMMA InitOrder == Init => OrderInv
<1> SUFFICES ASSUME Init PROVE OrderInv
  OBVIOUS
<1> USE DEF Init
<1>1. Len(op.params) \in Nat /\ \A p \in Params : p \in Nat /\ p <= Len(op.params)
  BY ParamsAreNumbers
<1>2. OrderTypes
  <2>1. priority \in [Params -> Nat] /\ cursor \in Nat
    BY <1>1
  <2>2. <<>> \in Seq(Params)
    OBVIOUS
  <2> QED BY <2>1, <2>2 DEF OrderTypes
<1>3. PrioritiesOrdered
  BY DEF PrioritiesOrdered
<1>4. PassKnows
  <2>1. \A p \in Params : ~(p > cursor)
    BY <1>1
  <2> QED BY <1>1, <2>1 DEF PassKnows
<1>5. MarshalKnows /\ ErrorsMeant
  BY DEF MarshalKnows, ErrorsMeant
<1> QED BY <1>2, <1>3, <1>4, <1>5 DEF OrderInv

(* A parameter that gets its priority.                                     *)
LEMMA VisitTypes ==
  ASSUME OrderInv, Visit
  PROVE  OrderTypes' /\ cursor \in Params
<1>1. Params' = Params /\ Len(op.params) \in Nat
  BY SameOperation, ParamsAreNumbers DEF Visit, OrderInv, OrderTypes
<1>2. cursor \in Params
  BY <1>1 DEF Visit, OrderInv, OrderTypes, PassKnows, Params
<1>3. OrderTypes'
  <2>1. priority' \in [Params -> Nat] /\ last' \in Nat
    BY DEF Visit, OrderInv, OrderTypes
  <2>2. cursor' \in Nat
    BY DEF Visit, OrderInv, OrderTypes
  <2>3. progress' \in BOOLEAN
    BY DEF Visit, OrderInv, OrderTypes
  <2>4. more' \in BOOLEAN
    BY DEF Visit, OrderInv, OrderTypes
  <2> QED BY <1>1, <2>1, <2>2, <2>3, <2>4 DEF Visit, OrderInv, OrderTypes
<1> QED BY <1>2, <1>3

LEMMA VisitPriorities ==
  ASSUME OrderInv, Visit
  PROVE  PrioritiesOrdered'
<1>0. cursor \in Params /\ Params' = Params /\ \A p : DependsOn(p)' = DependsOn(p)
  BY VisitTypes, SameOperation DEF Visit
<1>t. priority \in [Params -> Nat] /\ last \in Nat
  BY DEF OrderInv, OrderTypes
<1>i. PrioritiesOrdered
  BY DEF OrderInv
<1>1. CASE priority' = priority /\ last' = last
  BY <1>0, <1>1, <1>i DEF PrioritiesOrdered
<1>2. CASE /\ priority[cursor] = 0 /\ Unresolved(cursor) = {}
           /\ priority' = [priority EXCEPT ![cursor] = last + 1] /\ last' = last + 1
  <2>1. \A p \in Params : priority'[p] = IF p = cursor THEN last + 1 ELSE priority[p]
    BY <1>2, <1>t
  <2>2. \A q \in DependsOn(cursor) : q \in Params /\ q # cursor /\ priority[q] # 0
    BY <1>2, DependsOnParams DEF Unresolved
  <2>3. \A p \in Params : priority'[p] <= last'
    BY <1>2, <2>1, <1>t, <1>i DEF PrioritiesOrdered
  <2>4. \A p, q \in Params : priority'[p] # 0 /\ priority'[p] = priority'[q] => p = q
    BY <2>1, <1>t, <1>i DEF PrioritiesOrdered
  <2>5. \A k \in 1..last' : \E p \in Params : priority'[p] = k
    <3> TAKE k \in 1..last'
    <3>1. CASE k = last + 1
      BY <3>1, <2>1, <1>0
    <3>2. CASE k # last + 1
      <4>1. k \in 1..last
        BY <3>2, <1>2, <1>t
      <4>2. PICK p \in Params : priority[p] = k
        BY <4>1, <1>i DEF PrioritiesOrdered
      <4>3. p # cursor
        BY <4>1, <4>2, <1>2, <1>t
      <4> QED BY <4>2, <4>3, <2>1
    <3> QED BY <3>1, <3>2
  <2>6. ASSUME NEW p \in Params, NEW q \in Params, priority'[p] # 0, q \in DependsOn(p)
        PROVE  priority'[q] # 0 /\ priority'[q] < priority'[p]
    <3>1. CASE p = cursor
      BY <3>1, <2>6, <2>1, <2>2, <1>t, <1>i DEF PrioritiesOrdered
    <3>2. CASE p # cursor
      <4>1. priority[p] # 0 /\ priority[q] # 0 /\ priority[q] < priority[p]
        BY <3>2, <2>6, <2>1, <1>i DEF PrioritiesOrdered
      <4> QED BY <4>1, <3>2, <2>1, <1>2
    <3> QED BY <3>1, <3>2
  <2> QED BY <2>3, <2>4, <2>5, <2>6, <1>0 DEF PrioritiesOrdered
<1> QED BY <1>1, <1>2 DEF Visit

LEMMA VisitPass ==
  ASSUME OrderInv, Visit
  PROVE  PassKnows'
<1>0. cursor \in Params /\ Params' = Params /\ Len(op.params) \in Nat
      /\ \A p : DependsOn(p)' = DependsOn(p)
  BY VisitTypes, SameOperation, ParamsAreNumbers DEF Visit, OrderInv, OrderTypes
<1>n. \A p \in Params : p \in Nat
  BY ParamsAreNumbers DEF OrderInv, OrderTypes
<1>t. priority \in [Params -> Nat] /\ last \in Nat /\ cursor \in Nat
  BY DEF OrderInv, OrderTypes
<1>i. /\ cursor <= Len(op.params)
      /\ marshalled = {} /\ ops = <<>>
      /\ ~more => \A p \in Params : p > cursor => priority[p] # 0
      /\ ~progress => \A p \in Params : p > cursor /\ priority[p] = 0 => Unresolved(p) # {}
      /\ more /\ ~progress => \E p \in Params : priority[p] = 0
  BY DEF OrderInv, PassKnows, Visit
<1>c. cursor' = cursor - 1 /\ \A p \in Params : p > cursor' <=> p > cursor \/ p = cursor
  BY <1>n, <1>t DEF Visit
<1>v. op' = op /\ stage' = stage /\ marshalled' = marshalled /\ ops' = ops
  BY DEF Visit
<1>l. cursor' <= Len(op.params)'
  BY <1>0, <1>c, <1>i, <1>t, <1>v
<1>1. CASE priority[cursor] = 0 /\ Unresolved(cursor) = {}
  <2>1. /\ progress' = TRUE /\ more' = more
        /\ priority' = [priority EXCEPT ![cursor] = last + 1]
    BY <1>1 DEF Visit
  <2>2. \A p \in Params : priority'[p] = IF p = cursor THEN last + 1 ELSE priority[p]
    BY <2>1, <1>t
  <2>3. ~more' => \A p \in Params : p > cursor' => priority'[p] # 0
    BY <2>1, <2>2, <1>i, <1>c, <1>t
  <2> QED BY <2>1, <2>3, <1>0, <1>i, <1>v, <1>l DEF PassKnows
<1>2. CASE ~(priority[cursor] = 0 /\ Unresolved(cursor) = {})
  <2>1. /\ progress' = progress /\ more' = (more \/ priority[cursor] = 0)
        /\ priority' = priority
    BY <1>2 DEF Visit
  <2>2. \A p \in Params : Unresolved(p)' = Unresolved(p)
    BY <2>1, <1>0 DEF Unresolved
  <2>3. ~more' => \A p \in Params : p > cursor' => priority'[p] # 0
    BY <2>1, <1>i, <1>c
  <2>4. ~progress' => \A p \in Params : p > cursor' /\ priority'[p] = 0 => Unresolved(p)' # {}
    BY <2>1, <2>2, <1>2, <1>i, <1>c
  <2>5. more' /\ ~progress' => \E p \in Params : priority'[p] = 0
    BY <2>1, <1>0, <1>i
  <2> QED BY <2>3, <2>4, <2>5, <1>0, <1>i, <1>v, <1>l DEF PassKnows
<1> QED BY <1>1, <1>2

LEMMA VisitStep ==
  ASSUME OrderInv, Visit
  PROVE  OrderInv'
<1>1. MarshalKnows' /\ ErrorsMeant'
  BY DEF Visit, MarshalKnows, ErrorsMeant
<1> QED BY <1>1, VisitTypes, VisitPriorities, VisitPass DEF OrderInv

(* The end of a pass.                                                      *)
LEMMA EndPassStep ==
  ASSUME OrderInv, EndPass
  PROVE  OrderInv'
<1>0. /\ op' = op /\ Params' = Params /\ Len(op.params) \in Nat
      /\ \A p : DependsOn(p)' = DependsOn(p)
      /\ \A p \in Params : p \in Nat /\ p >= 1 /\ p <= Len(op.params)
  BY SameOperation, ParamsAreNumbers DEF EndPass, OrderInv, OrderTypes
<1>t. OrderTypes /\ PrioritiesOrdered
  BY DEF OrderInv
<1>i. /\ marshalled = {} /\ ops = <<>>
      /\ ~more => \A p \in Params : priority[p] # 0
      /\ ~progress => \A p \in Params : priority[p] = 0 => Unresolved(p) # {}
      /\ more /\ ~progress => \E p \in Params : priority[p] = 0
  <2>1. \A p \in Params : p > cursor
    BY <1>0 DEF EndPass
  <2> QED BY <2>1 DEF OrderInv, PassKnows, EndPass
<1>v. /\ priority' = priority /\ last' = last /\ marshalled' = marshalled /\ ops' = ops
      /\ progress' = FALSE /\ more' = FALSE
  BY DEF EndPass
<1>1. OrderTypes'
  BY <1>0, <1>t, <1>v DEF EndPass, OrderTypes
<1>2. PrioritiesOrdered'
  BY <1>0, <1>t, <1>v DEF PrioritiesOrdered
<1>3. CASE more /\ progress
  <2>1. stage' = "commit" /\ cursor' = Len(op.params)
    BY <1>3 DEF EndPass
  <2>2. \A p \in Params : ~(p > cursor')
    BY <2>1, <1>0
  <2>3. PassKnows'
    BY <2>1, <2>2, <1>0, <1>i, <1>v DEF PassKnows
  <2>4. MarshalKnows' /\ ErrorsMeant'
    BY <2>1 DEF MarshalKnows, ErrorsMeant
  <2> QED BY <1>1, <1>2, <2>3, <2>4 DEF OrderInv
<1>4. CASE more /\ ~progress
  <2>1. stage' = "circular"
    BY <1>4 DEF EndPass
  <2>2. Circular
    <3> DEFINE R == {p \in Params : priority[p] = 0}
    <3>1. R # {} /\ R \in SUBSET Params
      BY <1>4, <1>i
    <3>2. \A p \in R : DependsOn(p) \cap R # {}
      BY <1>4, <1>i, DependsOnParams DEF Unresolved
    <3> HIDE DEF R
    <3> QED BY <3>1, <3>2 DEF Circular
  <2>3. Circular'
    BY <2>2, <1>0, SameOperation
  <2>4. PassKnows' /\ MarshalKnows' /\ ErrorsMeant'
    BY <2>1, <2>3 DEF PassKnows, MarshalKnows, ErrorsMeant
  <2> QED BY <1>1, <1>2, <2>4 DEF OrderInv
<1>5. CASE ~more /\ Undefined
  <2>1. stage' = "undefined"
    BY <1>5 DEF EndPass, Undefined
  <2>2. Undefined'
    BY <1>5, <1>0, SameOperation
  <2>4. PassKnows' /\ MarshalKnows' /\ ErrorsMeant'
    BY <2>1, <2>2 DEF PassKnows, MarshalKnows, ErrorsMeant
  <2> QED BY <1>1, <1>2, <2>4 DEF OrderInv
<1>6. CASE ~more /\ ~Undefined
  <2>1. stage' = "marshal" /\ cursor' = last
    BY <1>6 DEF EndPass, Undefined
  <2>2. \A p \in Params : priority'[p] # 0 /\ ~(priority'[p] > cursor')
    BY <1>6, <2>1, <1>i, <1>t, <1>v DEF OrderTypes, PrioritiesOrdered
  <2>3. \A p \in Params : ~Through(p)'
    BY <2>2 DEF Through
  <2>4. ~Undefined'
    BY <1>6, <1>0, SameOperation
  <2>5. marshalled' = {} /\ DOMAIN ops' = {}
    BY <1>i, <1>v
  <2>6. cursor' <= last'
    BY <2>1, <1>v, <1>t DEF OrderTypes
  <2>7. MarshalKnows'
    BY <2>1, <2>2, <2>3, <2>4, <2>5, <2>6, <1>0 DEF MarshalKnows
  <2>8. PassKnows' /\ ErrorsMeant'
    BY <2>1 DEF PassKnows, ErrorsMeant
  <2> QED BY <1>1, <1>2, <2>7, <2>8 DEF OrderInv
<1> QED BY <1>3, <1>4, <1>5, <1>6

-----------------------------------------------------------------------------
(* The operations.                                                         *)

(* The parameter in hand is the one with the priority of the cursor.       *)
LEMMA NextParamFacts ==
  ASSUME OrderInv, Marshal
  PROVE  NextParam \in Params /\ priority[NextParam] = cursor
<1>1. cursor \in 1..last
  BY DEF OrderInv, OrderTypes, MarshalKnows, Marshal
<1>2. \E p \in Params : priority[p] = cursor
  BY <1>1 DEF OrderInv, PrioritiesOrdered
<1> QED BY <1>2 DEF NextParam

(* A parameter is claimed by arrays that depend on it, hence come first.   *)
LEMMA ClaimedLater ==
  ASSUME OrderInv, stage = "marshal",
         NEW p \in Params, NEW a \in Params, ClaimedBy(p, a)
  PROVE  /\ p # a /\ priority[p] < priority[a] /\ LengthOf(p) = {}
<1>1. p \in DependsOn(a) /\ LengthOf(p) = {}
  BY LengthIsNoArray DEF ClaimedBy
<1>2. priority[a] # 0
  BY DEF OrderInv, MarshalKnows
<1>3. priority[p] < priority[a]
  BY <1>1, <1>2 DEF OrderInv, PrioritiesOrdered
<1>4. priority[p] \in Nat
  BY DEF OrderInv, OrderTypes
<1> QED BY <1>1, <1>3, <1>4

(* The arrays through after the step are those through before and the one  *)
(* in hand.                                                                *)
LEMMA ThroughNext ==
  ASSUME OrderInv, Marshal
  PROVE  \A p \in Params : Through(p)' <=> Through(p) \/ p = NextParam
<1>1. NextParam \in Params /\ priority[NextParam] = cursor
  BY NextParamFacts
<1>2. \A p \in Params : priority[p] \in Nat
  BY DEF OrderInv, OrderTypes
<1>3. cursor \in Nat /\ cursor # 0 /\ cursor' = cursor - 1 /\ priority' = priority
  BY DEF OrderInv, OrderTypes, Marshal
<1>4. \A p \in Params : priority[p] = cursor => p = NextParam
  BY <1>1, <1>3 DEF OrderInv, PrioritiesOrdered
<1>5. \A p \in Params : priority[p] > cursor - 1 <=> priority[p] > cursor \/ priority[p] = cursor
  BY <1>2, <1>3
<1> HIDE DEF NextParam
<1> QED BY <1>1, <1>3, <1>4, <1>5 DEF Through

LEMMA MarshalTypes ==
  ASSUME OrderInv, Marshal
  PROVE  OrderTypes' /\ PrioritiesOrdered' /\ PassKnows'
<1>0. op' = op /\ Params' = Params /\ \A p : DependsOn(p)' = DependsOn(p)
  BY SameOperation DEF Marshal
<1>1. NextParam \in Params
  BY NextParamFacts
<1>2. PrioritiesOrdered'
  BY <1>0 DEF OrderInv, PrioritiesOrdered, Marshal
<1>3. marshalled' \in SUBSET Params
  <2>1. LengthOf(NextParam) \subseteq Params
    BY DependsOnParams DEF LengthOf
  <2> QED BY <1>1, <2>1 DEF OrderInv, OrderTypes, Marshal
<1>4. ops' \in Seq(Params)
  BY <1>1 DEF OrderInv, OrderTypes, Marshal
<1>5. cursor' \in Nat /\ stage' \in {"marshal", "shared"}
  BY DEF OrderInv, OrderTypes, Marshal
<1>6. OrderTypes'
  BY <1>0, <1>3, <1>4, <1>5 DEF OrderInv, OrderTypes, Marshal
<1>7. PassKnows'
  BY <1>5 DEF PassKnows
<1> QED BY <1>2, <1>6, <1>7

(* A length that is claimed already has two arrays.                        *)
LEMMA ClaimedTwice ==
  ASSUME OrderInv, Marshal, NEW q \in Params, ClaimedBy(q, NextParam), q \in marshalled
  PROVE  SharedLength
<1>1. NextParam \in Params /\ priority[NextParam] = cursor
  BY NextParamFacts
<1> HIDE DEF NextParam
<1>2. priority[q] < cursor
  BY <1>1, ClaimedLater DEF Marshal
<1>3. ~Through(q)
  BY <1>2 DEF Through, OrderInv, OrderTypes
<1>4. PICK a \in Params : ClaimedBy(q, a) /\ Through(a)
  BY <1>3 DEF OrderInv, MarshalKnows, Marshal
<1>5. a # NextParam
  BY <1>1, <1>4 DEF Through, OrderInv, OrderTypes
<1> QED BY <1>1, <1>4, <1>5 DEF ClaimedBy, SharedLength

(* What MarshalKnows says, without the stages.                             *)
Accounted ==
  /\ \A p \in Params : p \in marshalled <=>
       (Through(p) \/ \E a \in Params : ClaimedBy(p, a) /\ Through(a))
  /\ \A i \in DOMAIN ops : Through(ops[i]) /\ ~ \E a \in Params : ClaimedBy(ops[i], a)
  /\ \A p \in Params : Through(p) =>
       (\E a \in Params : ClaimedBy(p, a)) \/ \E i \in DOMAIN ops : ops[i] = p
  /\ \A i, j \in DOMAIN ops : ops[i] = ops[j] => i = j
  /\ \A a, b, p \in Params :
       Through(a) /\ Through(b) /\ ClaimedBy(p, a) /\ ClaimedBy(p, b) => a = b

(* A length whose array is through is passed over.                         *)
LEMMA SkipAccounted ==
  ASSUME OrderInv, Marshal, NextParam \in marshalled
  PROVE  Accounted'
<1>0. Params' = Params /\ \A p, a : ClaimedBy(p, a)' <=> ClaimedBy(p, a)
  BY SameOperation DEF Marshal
<1>1. NextParam \in Params /\ priority[NextParam] = cursor /\ cursor \in Nat
  BY NextParamFacts DEF OrderInv, OrderTypes
<1>2. Accounted /\ stage = "marshal"
  BY DEF OrderInv, MarshalKnows, Marshal, Accounted
<1>3. marshalled' = marshalled /\ ops' = ops
  BY DEF Marshal
<1>4. \A p \in Params : Through(p)' <=> Through(p) \/ p = NextParam
  BY ThroughNext
<1>5. ~Through(NextParam)
  BY <1>1 DEF Through
<1> HIDE DEF NextParam
<1>6. PICK a \in Params : ClaimedBy(NextParam, a) /\ Through(a)
  BY <1>1, <1>2, <1>5 DEF Accounted
<1>7. LengthOf(NextParam) = {}
  BY <1>1, <1>2, <1>6, ClaimedLater
<1>8. \A p \in Params : ~ClaimedBy(p, NextParam)
  BY <1>7 DEF ClaimedBy
<1>9. \A i \in DOMAIN ops : ops[i] \in Params
  BY DEF OrderInv, OrderTypes
<1>10. (\A p \in Params : p \in marshalled <=>
         (Through(p) \/ \E b \in Params : ClaimedBy(p, b) /\ Through(b)))'
  BY <1>0, <1>2, <1>3, <1>4, <1>8 DEF Accounted
<1>11. (\A i \in DOMAIN ops : Through(ops[i]) /\ ~ \E b \in Params : ClaimedBy(ops[i], b))'
  BY <1>0, <1>2, <1>3, <1>4, <1>9 DEF Accounted
<1>12. (\A p \in Params : Through(p) =>
         (\E b \in Params : ClaimedBy(p, b)) \/ \E i \in DOMAIN ops : ops[i] = p)'
  BY <1>0, <1>2, <1>3, <1>4, <1>6 DEF Accounted
<1>13. (\A b, d, p \in Params :
          Through(b) /\ Through(d) /\ ClaimedBy(p, b) /\ ClaimedBy(p, d) => b = d)'
  BY <1>0, <1>2, <1>4, <1>8 DEF Accounted
<1>14. (\A i, j \in DOMAIN ops : ops[i] = ops[j] => i = j)'
  BY <1>2, <1>3 DEF Accounted
<1> QED BY <1>10, <1>11, <1>12, <1>13, <1>14 DEF Accounted

(* Any other parameter gets an operation, and takes its length with it.    *)
LEMMA TakeAccounted ==
  ASSUME OrderInv, Marshal, NextParam \notin marshalled, stage' = "marshal"
  PROVE  Accounted'
<1>0. Params' = Params /\ \A p, a : ClaimedBy(p, a)' <=> ClaimedBy(p, a)
  BY SameOperation DEF Marshal
<1>1. NextParam \in Params /\ priority[NextParam] = cursor /\ cursor \in Nat
  BY NextParamFacts DEF OrderInv, OrderTypes
<1>2. Accounted /\ stage = "marshal"
  BY DEF OrderInv, MarshalKnows, Marshal, Accounted
<1>3. /\ marshalled' = marshalled \cup {NextParam} \cup LengthOf(NextParam)
      /\ ops' = Append(ops, NextParam)
      /\ LengthOf(NextParam) # {} => ~(LengthOf(NextParam) \subseteq marshalled)
  BY DEF Marshal
<1>4. \A p \in Params : Through(p)' <=> Through(p) \/ p = NextParam
  BY ThroughNext
<1>t. ops \in Seq(Params) /\ \A p \in Params : priority[p] \in Nat
  BY DEF OrderInv, OrderTypes
<1> HIDE DEF NextParam
<1>5. ~Through(NextParam)
  BY <1>1 DEF Through
<1>6. \A a \in Params : ~ClaimedBy(NextParam, a)
  <2> SUFFICES ASSUME NEW a \in Params, ClaimedBy(NextParam, a)  PROVE FALSE
    OBVIOUS
  <2>1. cursor < priority[a]
    BY <1>1, <1>2, ClaimedLater
  <2>2. Through(a)
    BY <2>1, <1>1, <1>t DEF Through
  <2> QED BY <1>1, <1>2, <2>2 DEF Accounted
<1>7. \A p \in Params : p \in LengthOf(NextParam) <=> ClaimedBy(p, NextParam)
  BY <1>1, LengthIsNoArray DEF ClaimedBy
<1>8. \A p \in Params : ClaimedBy(p, NextParam) => p \notin marshalled
  BY <1>3 DEF ClaimedBy
<1>9. (\A p \in Params : p \in marshalled <=>
         (Through(p) \/ \E a \in Params : ClaimedBy(p, a) /\ Through(a)))'
  <2> SUFFICES ASSUME NEW p \in Params
               PROVE  p \in marshalled' <=>
                        (Through(p)' \/ \E a \in Params : ClaimedBy(p, a) /\ Through(a)')
    BY <1>0
  <2>1. (\E a \in Params : ClaimedBy(p, a) /\ Through(a)') <=>
        (\E a \in Params : ClaimedBy(p, a) /\ Through(a)) \/ ClaimedBy(p, NextParam)
    BY <1>1, <1>4
  <2>2. p \in marshalled <=> (Through(p) \/ \E a \in Params : ClaimedBy(p, a) /\ Through(a))
    BY <1>2 DEF Accounted
  <2> QED BY <2>1, <2>2, <1>3, <1>4, <1>7
<1>10. DOMAIN ops' = DOMAIN ops \cup {Len(ops) + 1} /\ Len(ops) + 1 \notin DOMAIN ops
       /\ ops'[Len(ops) + 1] = NextParam /\ \A i \in DOMAIN ops : ops'[i] = ops[i] /\ ops[i] \in Params
  BY <1>1, <1>3, <1>t
<1>11. (\A i \in DOMAIN ops : Through(ops[i]) /\ ~ \E a \in Params : ClaimedBy(ops[i], a))'
  <2>1. \A i \in DOMAIN ops : Through(ops[i])' /\ ~ \E a \in Params : ClaimedBy(ops[i], a)
    BY <1>2, <1>4, <1>10 DEF Accounted, Through
  <2>2. \A p \in Params : p = NextParam => Through(p)'
    BY <1>4
  <2> QED BY <1>0, <1>1, <1>6, <1>10, <2>1, <2>2, <1>4, <1>2 DEF Accounted, Through
<1>12. (\A p \in Params : Through(p) =>
         (\E a \in Params : ClaimedBy(p, a)) \/ \E i \in DOMAIN ops : ops[i] = p)'
  BY <1>0, <1>2, <1>4, <1>10 DEF Accounted
<1>13. (\A i, j \in DOMAIN ops : ops[i] = ops[j] => i = j)'
  BY <1>2, <1>5, <1>10 DEF Accounted
<1>14. (\A a, b, p \in Params :
          Through(a) /\ Through(b) /\ ClaimedBy(p, a) /\ ClaimedBy(p, b) => a = b)'
  <2>1. \A a, p \in Params : Through(a) /\ ClaimedBy(p, a) => ~ClaimedBy(p, NextParam)
    BY <1>2, <1>8 DEF Accounted
  <2> QED BY <1>0, <1>2, <1>4, <2>1 DEF Accounted
<1> QED BY <1>9, <1>11, <1>12, <1>13, <1>14 DEF Accounted

LEMMA MarshalStep ==
  ASSUME OrderInv, Marshal
  PROVE  OrderInv'
<1>1. OrderTypes' /\ PrioritiesOrdered' /\ PassKnows'
  BY MarshalTypes
<1>2. Params' = Params /\ (Undefined' <=> Undefined) /\ (SharedLength' <=> SharedLength)
  BY SameOperation DEF Marshal
<1>3. CASE stage' = "marshal"
  <2>1. Accounted'
    BY <1>3, SkipAccounted, TakeAccounted
  <2>2. cursor' <= last'
    BY DEF Marshal, OrderInv, OrderTypes, MarshalKnows
  <2>3. ~Undefined' /\ \A p \in Params' : priority'[p] # 0
    BY <1>2 DEF Marshal, OrderInv, MarshalKnows
  <2>4. MarshalKnows' /\ ErrorsMeant'
    BY <1>3, <2>1, <2>2, <2>3 DEF MarshalKnows, ErrorsMeant, Accounted
  <2> QED BY <1>1, <2>4 DEF OrderInv
<1>4. CASE stage' # "marshal"
  <2>1. /\ NextParam \notin marshalled /\ stage' = "shared"
        /\ LengthOf(NextParam) \subseteq marshalled /\ LengthOf(NextParam) # {}
    BY <1>4 DEF Marshal
  <2>2. NextParam \in Params
    BY NextParamFacts
  <2>3. SharedLength
    <3> HIDE DEF NextParam
    <3>1. PICK q \in Params : LengthOf(NextParam) = {q}
      BY <2>1, <2>2, LengthIsNoArray
    <3>2. ClaimedBy(q, NextParam) /\ q \in marshalled
      BY <2>1, <2>2, <3>1 DEF ClaimedBy
    <3> QED BY <3>2, ClaimedTwice
  <2>4. MarshalKnows' /\ ErrorsMeant'
    BY <2>1, <2>3, <1>2 DEF MarshalKnows, ErrorsMeant
  <2> QED BY <1>1, <2>4 DEF OrderInv
<1> QED BY <1>3, <1>4

LEMMA GenerateStep ==
  ASSUME OrderInv, Generate
  PROVE  OrderInv'
<1>0. /\ Params' = Params /\ \A p : DependsOn(p)' = DependsOn(p)
      /\ \A p, a : ClaimedBy(p, a)' <=> ClaimedBy(p, a)
      /\ Undefined' <=> Undefined
  BY SameOperation DEF Generate
<1>1. \A p : Through(p)' <=> Through(p)
  BY DEF Generate, Through
<1>2. OrderTypes'
  BY <1>0 DEF Generate, OrderInv, OrderTypes
<1>3. PrioritiesOrdered'
  BY <1>0 DEF Generate, OrderInv, PrioritiesOrdered
<1>4. PassKnows' /\ ErrorsMeant'
  BY DEF Generate, PassKnows, ErrorsMeant
<1>5. Accounted
  BY DEF OrderInv, MarshalKnows, Generate, Accounted
<1>6. Accounted'
  BY <1>0, <1>1, <1>5 DEF Generate, Accounted, Through
<1>7. cursor' <= last' /\ cursor' = 0 /\ ~Undefined' /\ \A p \in Params' : priority'[p] # 0
  BY <1>0 DEF OrderInv, MarshalKnows, Generate
<1>8. MarshalKnows'
  BY <1>6, <1>7 DEF MarshalKnows, Accounted
<1> QED BY <1>2, <1>3, <1>4, <1>8 DEF OrderInv

-----------------------------------------------------------------------------
(* What follows.                                                           *)

(* Where every parameter has a priority above those it depends on, no set  *)
(* of parameters depends on itself: look at its lowest priority.           *)
LEMMA NoCircle ==
  ASSUME OrderInv, \A p \in Params : priority[p] # 0
  PROVE  ~Circular
<1> SUFFICES ASSUME NEW R \in SUBSET Params, R # {},
                    \A p \in R : DependsOn(p) \cap R # {}
             PROVE  FALSE
  BY DEF Circular
<1> DEFINE T == {priority[p] : p \in R}
<1>1. T \in SUBSET Nat /\ T # {}
  BY DEF OrderInv, OrderTypes
<1>2. PICK n \in T : \A k \in T : n <= k
  <2> HIDE DEF T
  <2> QED BY <1>1, NatMin
<1>3. PICK p \in R : priority[p] = n
  BY <1>2
<1>4. PICK q \in R : q \in DependsOn(p)
  BY <1>3
<1>5. priority[q] < priority[p]
  BY <1>4 DEF OrderInv, PrioritiesOrdered
<1>6. n <= priority[q]
  BY <1>2, <1>4
<1>7. priority[q] \in Nat /\ n \in Nat
  BY <1>1, <1>4, <1>2
<1> HIDE DEF T
<1> QED BY <1>3, <1>5, <1>6, <1>7

(* Everything is marshalled once.                                          *)
LEMMA MarshalledOnce ==
  ASSUME OrderInv, stage = "generated", NEW p \in Params
  PROVE  Cardinality(MarshalledBy(p)) = 1
<1>1. \A a \in Params : Through(a)
  BY DEF OrderInv, OrderTypes, MarshalKnows, Through
<1>2. Accounted
  BY DEF OrderInv, MarshalKnows, Accounted
<1>3. \A i \in DOMAIN ops : ops[i] \in Params
  BY DEF OrderInv, OrderTypes
<1>4. \E i : MarshalledBy(p) = {i}
  <2>1. CASE \E a \in Params : ClaimedBy(p, a)
    <3>1. PICK a \in Params : ClaimedBy(p, a)
      BY <2>1
    <3>2. ~ \E b \in Params : ClaimedBy(a, b)
      <4> SUFFICES ASSUME NEW b \in Params, ClaimedBy(a, b)  PROVE FALSE
        OBVIOUS
      <4>1. LengthOf(a) = {}
        BY LengthIsNoArray DEF ClaimedBy
      <4> QED BY <4>1, <3>1 DEF ClaimedBy
    <3>3. PICK i \in DOMAIN ops : ops[i] = a
      BY <1>1, <1>2, <3>2 DEF Accounted
    <3>4. \A j \in DOMAIN ops : ops[j] # p
      BY <1>2, <2>1 DEF Accounted
    <3>5. \A j \in DOMAIN ops : LengthOf(ops[j]) = {p} => ops[j] = a
      BY <1>1, <1>2, <1>3, <3>1 DEF Accounted, ClaimedBy
    <3>6. LengthOf(ops[i]) = {p}
      BY <3>1, <3>3 DEF ClaimedBy
    <3>7. MarshalledBy(p) = {i}
      BY <1>2, <3>3, <3>4, <3>5, <3>6 DEF MarshalledBy, Accounted
    <3> QED BY <3>7
  <2>2. CASE ~ \E a \in Params : ClaimedBy(p, a)
    <3>1. PICK i \in DOMAIN ops : ops[i] = p
      BY <1>1, <1>2, <2>2 DEF Accounted
    <3>2. \A j \in DOMAIN ops : LengthOf(ops[j]) # {p}
      BY <1>3, <2>2 DEF ClaimedBy
    <3>3. MarshalledBy(p) = {i}
      BY <1>2, <3>1, <3>2 DEF MarshalledBy, Accounted
    <3> QED BY <3>3
  <2> QED BY <2>1, <2>2
<1> HIDE DEF MarshalledBy
<1> QED BY <1>4, FS_Singleton

LEMMA OrderInvSuffices == OrderInv => LengthsWithTheirArrays
<1> SUFFICES ASSUME OrderInv PROVE LengthsWithTheirArrays
  OBVIOUS
<1>1. ErrorsMeant
  BY DEF OrderInv
<1>2. ASSUME stage = "generated"
      PROVE  /\ ~Circular /\ ~SharedLength /\ ~Undefined
             /\ \A p \in Params : Cardinality(MarshalledBy(p)) = 1
  <2>1. ~Circular /\ ~Undefined
    BY <1>2, NoCircle DEF OrderInv, MarshalKnows
  <2>2. ~SharedLength
    <3> SUFFICES ASSUME NEW p \in Params, NEW q \in Params, p # q,
                        LengthOf(p) # {}, LengthOf(p) = LengthOf(q)
                 PROVE  FALSE
      BY DEF SharedLength
    <3>1. PICK r \in Params : ClaimedBy(r, p) /\ ClaimedBy(r, q)
      BY LengthIsNoArray DEF ClaimedBy
    <3>2. Through(p) /\ Through(q)
      BY <1>2 DEF OrderInv, OrderTypes, MarshalKnows, Through
    <3> QED BY <1>2, <3>1, <3>2 DEF OrderInv, MarshalKnows
  <2> QED BY <1>2, <2>1, <2>2, MarshalledOnce
<1> QED BY <1>1, <1>2 DEF LengthsWithTheirArrays, ErrorsMeant

LEMMA OrderStep == OrderInv /\ [OrderNext]_orderVars => OrderInv'
<1> SUFFICES ASSUME OrderInv, [OrderNext]_orderVars PROVE OrderInv'
  OBVIOUS
<1>1. CASE Visit
  BY <1>1, VisitStep
<1>2. CASE EndPass
  BY <1>2, EndPassStep
<1>3. CASE Marshal
  BY <1>3, MarshalStep
<1>4. CASE Generate
  BY <1>4, GenerateStep
<1>5. CASE UNCHANGED orderVars
  <2> USE <1>5 DEF orderVars
  <2>0. /\ Params' = Params /\ \A p : DependsOn(p)' = DependsOn(p)
        /\ \A p, a : ClaimedBy(p, a)' <=> ClaimedBy(p, a)
        /\ (Undefined' <=> Undefined)
        /\ (Circular' <=> Circular)
        /\ (SharedLength' <=> SharedLength)
    BY SameOperation
  <2>1. \A p : (Through(p)' <=> Through(p)) /\ Unresolved(p)' = Unresolved(p)
    BY <2>0 DEF Through, Unresolved
  <2>2. OrderTypes' /\ PrioritiesOrdered'
    BY <2>0 DEF OrderInv, OrderTypes, PrioritiesOrdered
  <2>3. PassKnows'
    BY <2>0, <2>1 DEF OrderInv, PassKnows
  <2>4. MarshalKnows'
    BY <2>0, <2>1 DEF OrderInv, MarshalKnows, Through
  <2>5. ErrorsMeant'
    BY <2>0 DEF OrderInv, ErrorsMeant
  <2> QED BY <2>2, <2>3, <2>4, <2>5 DEF OrderInv
<1> QED BY <1>1, <1>2, <1>3, <1>4, <1>5 DEF OrderNext

(* Whatever a declaration refers to, code is generated only if every       *)
(* parameter is marshalled once and no error is there to report, and each  *)
(* error is reported of declarations that have it (dependencies.cc 59-96,  *)
(* parameter.cc 191-245).                                                  *)
THEOREM ParametersMarshalledOnce == OrderSpec => []LengthsWithTheirArrays
<1>1. Init => OrderInv
  BY InitOrder
<1>2. OrderInv /\ [OrderNext]_orderVars => OrderInv'
  BY OrderStep
<1>3. OrderInv => LengthsWithTheirArrays
  BY OrderInvSuffices
<1> QED BY <1>1, <1>2, <1>3, PTL DEF OrderSpec

(* The slots.                                                              *)
LEMMA SlotFacts ==
  ASSUME op \in Operations
  PROVE  /\ op.ret \in {"void", "word", "string"} /\ op.oneway \in BOOLEAN
         /\ Ret \in Nat /\ Ret = Len(op.params) + 1 /\ Len(op.params) \in Nat
         /\ Ret \notin Params /\ Params = 1 .. Len(op.params) /\ Params \subseteq Slots
         /\ \A p \in Slots : p \in 0 .. Ret /\ (p \in Params \/ p = Ret)
         /\ IsFiniteSet(Slots)
         /\ Cardinality(Slots) = IF op.ret = "void" THEN Len(op.params) ELSE Len(op.params) + 1
         /\ Ret \in Slots <=> op.ret # "void"
<1>1. Len(op.params) \in Nat /\ op.params \in Seq(Parameter)
  BY ParamsAreNumbers
<1>2. op.ret \in {"void", "word", "string"} /\ op.oneway \in BOOLEAN
  BY OperationsComplete
<1>3. Ret \in Nat /\ Ret = Len(op.params) + 1 /\ Ret \notin Params /\ Params = 1 .. Len(op.params)
  BY <1>1 DEF Ret, Params
<1>4. \A p \in Params : p \in 0 .. Ret
  BY <1>1, <1>3
<1>5. Slots = IF op.ret = "void" THEN Params ELSE Params \cup {Ret}
  BY DEF Slots
<1>6. IsFiniteSet(Params) /\ Cardinality(Params) = Len(op.params)
  BY <1>1, <1>3, FS_Interval
<1>7. IsFiniteSet(Params \cup {Ret}) /\ Cardinality(Params \cup {Ret}) = Len(op.params) + 1
  BY <1>3, <1>6, FS_AddElement
<1>8. /\ IsFiniteSet(Slots)
      /\ Cardinality(Slots) = IF op.ret = "void" THEN Len(op.params) ELSE Len(op.params) + 1
  BY <1>5, <1>6, <1>7
<1>9. /\ Params \subseteq Slots /\ (Ret \in Slots <=> op.ret # "void")
      /\ \A p \in Slots : p \in Params \/ p = Ret
  BY <1>3, <1>5
<1>10. Ret \in 0 .. Ret
  BY <1>3
<1> QED BY <1>1, <1>2, <1>3, <1>4, <1>8, <1>9, <1>10

(* Length parameters are parameters.                                       *)
LEMMA LengthFacts ==
  ASSUME op \in Operations, NEW p
  PROVE  /\ LengthOf(p) # {} => p \in Params /\ IsArray(p) /\ TheLength(p) \in Params
                                  /\ LengthOf(p) = {TheLength(p)}
         /\ \A q : q \in LengthOf(p) => q \in Params
<1>1. LengthOf(p) \subseteq Params
  BY DependsOnParams DEF LengthOf
<1>2. ASSUME LengthOf(p) # {}
      PROVE p \in Params /\ IsArray(p) /\ TheLength(p) \in Params /\ LengthOf(p) = {TheLength(p)}
  <2>1. p \in Params /\ IsArray(p)
    BY <1>2 DEF LengthOf, IsArray
  <2>2. \E q \in Params : LengthOf(p) = {q}
    BY <1>2, <2>1, LengthIsNoArray
  <2>3. TheLength(p) \in LengthOf(p)
    BY <2>2 DEF TheLength
  <2> QED BY <2>1, <2>2, <2>3
<1> QED BY <1>1, <1>2

LEMMA KindFacts ==
  ASSUME op \in Operations, NEW p \in Slots
  PROVE  /\ Kind(p) \in Kinds \cup {"alloc", "array"}
         /\ LengthOf(p) # {} => Kind(p) = "array"
         /\ Kind(p) = "array" => p \in Params
         /\ HasIn(p) => p \in Params
         /\ p = Ret => HasOut(p) /\ ~HasIn(p) /\ UseMalloc(p) /\ Kind(p) = op.ret
         /\ Kind(p) = "alloc" => ~HasIn(p) /\ ~HasOut(p)
         /\ p = Ret \/ Kind(p) = "alloc" \/ HasIn(p) \/ HasOut(p)
<1>0. op.ret \in {"void", "word", "string"} /\ Ret \notin Params /\ (p \in Params \/ p = Ret)
      /\ (Ret \in Slots <=> op.ret # "void")
  BY SlotFacts
<1>1. CASE p = Ret
  <2>1. Kind(p) = op.ret /\ op.ret # "void"
    BY <1>0, <1>1 DEF Kind
  <2>2. LengthOf(p) = {}
    BY <1>0, <1>1 DEF LengthOf, IsArray
  <2> QED BY <1>0, <1>1, <2>1, <2>2 DEF HasIn, HasOut, UseMalloc, Kinds
<1>2. CASE p \in Params
  <2>1. Param(p) \in Parameter
    BY <1>2, ParamsAreNumbers DEF Params, Param
  <2>2. Param(p).kind \in Kinds /\ Param(p).direction \in {"in", "out", "inout"} /\ Param(p).noxfer \in BOOLEAN
    BY <2>1 DEF Parameter, Directions
  <2>3. p # Ret
    BY <1>0, <1>2
  <2>4. LengthOf(p) # {} => IsArray(p)
    BY DEF LengthOf
  <2>5. IsArray(p) => ~Param(p).noxfer
    BY DEF IsArray
  <2>6. Kind(p) \in Kinds \cup {"alloc", "array"}
    BY <2>2, <2>3 DEF Kind
  <2>7. LengthOf(p) # {} => Kind(p) = "array"
    BY <2>3, <2>4, <2>5 DEF Kind
  <2> QED BY <1>2, <2>2, <2>3, <2>6, <2>7 DEF HasIn, HasOut
<1> QED BY <1>0, <1>1, <1>2

-----------------------------------------------------------------------------
(* Values, variables and messages.                                         *)

LEMMA MaxLengthType == MaxLength \in Nat /\ 0 \in 0 .. MaxLength /\ MaxLength \in 0 .. MaxLength
                       /\ MaxLength >= 1
  BY MaxLengthAssumption

LEMMA ValType ==
  ASSUME op \in Operations, NEW tag \in Tags, NEW p \in 0 .. Ret, NEW n \in 0 .. MaxLength
  PROVE  /\ Val(tag, p, n) \in Value
         /\ Val(tag, p, n).n = n /\ ~Val(tag, p, n).wire
  BY DEF Val, Value

LEMMA ValueFacts ==
  ASSUME op \in Operations
  PROVE  /\ Junk \in Value /\ Junk.n = 0
         /\ \A n \in 0 .. MaxLength : Length(n) \in Value /\ Length(n).n = n /\ ~Length(n).wire
<1>1. 0 \in 0 .. Ret /\ 0 \in 0 .. MaxLength
  BY SlotFacts, MaxLengthType
<1>2. "junk" \in Tags /\ "length" \in Tags
  BY DEF Tags
<1>3. Junk \in Value /\ Junk.n = 0
  BY <1>1, <1>2, ValType DEF Junk
<1>4. \A n \in 0 .. MaxLength : Length(n) \in Value /\ Length(n).n = n /\ ~Length(n).wire
  BY <1>1, <1>2, ValType DEF Length
<1> QED BY <1>3, <1>4

LEMMA CutType ==
  ASSUME op \in Operations, NEW v \in Value, NEW n \in 0 .. MaxLength
  PROVE  Cut(v, n) \in Value
<1>1. Junk \in Value
  BY ValueFacts
<1>2. [v EXCEPT !.n = n] \in Value
  BY DEF Value
<1> QED BY <1>1, <1>2 DEF Cut

LEMMA CutWhole ==
  ASSUME op \in Operations, NEW v \in Value
  PROVE  v.n \in 0 .. MaxLength /\ Cut(v, v.n) = v
<1>1. v.n \in 0 .. MaxLength
  BY DEF Value
<1>2. v.n \in Nat
  BY <1>1, MaxLengthType
<1>3. [v EXCEPT !.n = v.n] = v
  BY DEF Value
<1> QED BY <1>1, <1>2, <1>3 DEF Cut

LEMMA WireType ==
  ASSUME op \in Operations, NEW v \in Value
  PROVE  /\ Wire(v) \in Value /\ Unwire(v) \in Value
         /\ ~v.wire => Wire(v) = [v EXCEPT !.wire = TRUE] /\ Unwire([v EXCEPT !.wire = TRUE]) = v
<1>1. Junk \in Value
  BY ValueFacts
<1>2. [v EXCEPT !.wire = TRUE] \in Value /\ [v EXCEPT !.wire = FALSE] \in Value
  BY DEF Value
<1>3. Wire(v) \in Value /\ Unwire(v) \in Value
  BY <1>1, <1>2 DEF Wire, Unwire
<1>4. ASSUME ~v.wire
      PROVE Wire(v) = [v EXCEPT !.wire = TRUE] /\ Unwire([v EXCEPT !.wire = TRUE]) = v
  <2>1. [v EXCEPT !.wire = TRUE].wire = TRUE
    BY DEF Value
  <2>2. [[v EXCEPT !.wire = TRUE] EXCEPT !.wire = FALSE] = v
    BY <1>4 DEF Value
  <2> QED BY <1>4, <2>1, <2>2 DEF Wire, Unwire
<1> QED BY <1>3, <1>4

LEMMA WholeType ==
  ASSUME op \in Operations, NEW p \in Slots, NEW tag \in Tags, NEW n \in 1 .. MaxLength
  PROVE  /\ Whole(p, tag, n) \in Value /\ ~Whole(p, tag, n).wire
         /\ Claimed(p) => Whole(p, tag, n) = Length(n)
         /\ VarSized(p) /\ ~Claimed(p) /\ ~(Kind(p) = "array" /\ LengthOf(p) = {}) =>
              Whole(p, tag, n).n = n
         /\ Kind(p) = "array" /\ LengthOf(p) = {} /\ ~Claimed(p) => Whole(p, tag, n).n = MaxLength
<1>1. p \in 0 .. Ret
  BY SlotFacts
<1>2. n \in 0 .. MaxLength /\ 0 \in 0 .. MaxLength /\ MaxLength \in 0 .. MaxLength
  BY MaxLengthType
<1>3. Length(n) \in Value /\ ~Length(n).wire
  BY <1>2, ValueFacts
<1>4. /\ Val(tag, p, MaxLength) \in Value /\ ~Val(tag, p, MaxLength).wire /\ Val(tag, p, MaxLength).n = MaxLength
      /\ Val(tag, p, n) \in Value /\ ~Val(tag, p, n).wire /\ Val(tag, p, n).n = n
      /\ Val(tag, p, 0) \in Value /\ ~Val(tag, p, 0).wire
  BY <1>1, <1>2, ValType
<1>5. CASE Claimed(p)
  BY <1>3, <1>5 DEF Whole
<1>6. CASE ~Claimed(p) /\ Kind(p) = "array" /\ LengthOf(p) = {}
  BY <1>4, <1>6 DEF Whole
<1>7. CASE ~Claimed(p) /\ ~(Kind(p) = "array" /\ LengthOf(p) = {})
  <2>1. Whole(p, tag, n) = Val(tag, p, IF VarSized(p) THEN n ELSE 0)
    BY <1>7 DEF Whole
  <2> QED BY <1>4, <1>7, <2>1
<1> QED BY <1>5, <1>6, <1>7

Objects == Roles \X Slots
Heaps == [Objects -> [live : BOOLEAN, val : Value]]

LEMMA ContentType ==
  ASSUME op \in Operations, heap \in Heaps, NEW o
  PROVE  /\ Content(o) \in Value
         /\ \A v : o \in Objects /\ heap[o] = Holding(v) => Content(o) = v /\ Live(o)
<1>1. Junk \in Value
  BY ValueFacts
<1>2. o \in DOMAIN heap => heap[o].val \in Value
  BY DEF Heaps
<1>3. Content(o) \in Value
  BY <1>1, <1>2 DEF Content, Live
<1>4. ASSUME NEW v, o \in Objects, heap[o] = Holding(v)
      PROVE Content(o) = v /\ Live(o)
  BY <1>4 DEF Heaps, Content, Live, Holding
<1> QED BY <1>3, <1>4

Pointers == {None} \cup Objects

(* What is said of an operation stays true of it.                          *)
LEMMA SameSlots ==
  ASSUME op' = op
  PROVE  /\ Params' = Params /\ Slots' = Slots /\ Ret' = Ret
         /\ Objects' = Objects /\ Value' = Value /\ Heaps' = Heaps /\ Pointers' = Pointers
         /\ Variable' = Variable /\ Message' = Message
         /\ \A p : Param(p)' = Param(p) /\ IsArray(p)' = IsArray(p) /\ LengthOf(p)' = LengthOf(p)
         /\ \A p : Kind(p)' = Kind(p) /\ HasIn(p)' = HasIn(p) /\ HasOut(p)' = HasOut(p)
         /\ \A p : VarSized(p)' = VarSized(p) /\ UseMalloc(p)' = UseMalloc(p)
         /\ \A p : Claimed(p)' = Claimed(p) /\ ArrayOf(p)' = ArrayOf(p) /\ TheLength(p)' = TheLength(p)
         /\ \A p : Brings(p)' = Brings(p) /\ Target(p)' = Target(p)
         /\ \A dir : Items(dir)' = Items(dir)
         /\ Frames' = Frames
         /\ InSlots' = InSlots /\ OutSlots' = OutSlots
         /\ \A p : ServerBuffer(p)' = ServerBuffer(p)
         /\ EmptyMessage' = EmptyMessage
<1>1. Params' = Params /\ Ret' = Ret /\ \A p : LengthOf(p)' = LengthOf(p)
  BY SameOperation DEF Ret
<1>2. Slots' = Slots
  BY <1>1 DEF Slots
<1>3. \A p : Param(p)' = Param(p) /\ IsArray(p)' = IsArray(p)
  BY <1>1 DEF Param, IsArray
<1>4. \A p : Kind(p)' = Kind(p)
  BY <1>1, <1>3 DEF Kind
<1>5. \A p : HasIn(p)' = HasIn(p) /\ HasOut(p)' = HasOut(p)
  BY <1>1, <1>3, <1>4 DEF HasIn, HasOut
<1>6. \A p : VarSized(p)' = VarSized(p) /\ UseMalloc(p)' = UseMalloc(p)
  BY <1>1, <1>3, <1>4 DEF VarSized, UseMalloc
<1>7. \A p : Claimed(p)' = Claimed(p) /\ ArrayOf(p)' = ArrayOf(p) /\ TheLength(p)' = TheLength(p)
  BY <1>1 DEF Claimed, ArrayOf, TheLength
<1>8. \A p : Brings(p)' = Brings(p) /\ Target(p)' = Target(p)
  BY <1>4, <1>5, <1>6 DEF Brings, Target
<1>9. \A dir : Items(dir)' = Items(dir)
  BY <1>2, <1>5, <1>6 DEF Items
<1>10. Frames' = Frames
  BY <1>8, <1>9 DEF Frames
<1>11. InSlots' = InSlots /\ OutSlots' = OutSlots /\ \A p : ServerBuffer(p)' = ServerBuffer(p)
  BY <1>2, <1>5 DEF InSlots, OutSlots, ServerBuffer
<1>12. Objects' = Objects /\ Value' = Value
  BY <1>1, <1>2 DEF Objects, Value
<1>13. Heaps' = Heaps /\ Pointers' = Pointers
  BY <1>12 DEF Heaps, Pointers
<1>14. Variable' = Variable /\ Message' = Message
  BY <1>2, <1>12 DEF Variable, Message
<1>15. EmptyMessage' = EmptyMessage
  BY <1>2 DEF EmptyMessage
<1> QED BY <1>1, <1>2, <1>3, <1>4, <1>5, <1>6, <1>7, <1>8, <1>9, <1>10, <1>11, <1>12, <1>13, <1>14, <1>15

-----------------------------------------------------------------------------

LEMMA EmptyMessageType ==
  ASSUME op \in Operations
  PROVE  EmptyMessage \in Message /\ EmptyMessage.var = <<>>
<1>1. Junk \in Value /\ 0 \in 0 .. MaxLength
  BY ValueFacts, MaxLengthType
<1> QED BY <1>1 DEF EmptyMessage, Message

LEMMA AddWordType ==
  ASSUME NEW m \in Message, NEW p \in Slots, NEW v \in Value
  PROVE  /\ AddWord(m, p, v) \in Message
         /\ AddWord(m, p, v).word[p] = v
         /\ \A q \in Slots : q # p => AddWord(m, p, v).word[q] = m.word[q]
         /\ AddWord(m, p, v).len = m.len /\ AddWord(m, p, v).ptr = m.ptr
         /\ AddWord(m, p, v).var = m.var
  BY DEF AddWord, Message

LEMMA AddDataType ==
  ASSUME op \in Operations, heap \in Heaps, NEW m \in Message, NEW p \in Slots, NEW dir,
         NEW o \in Pointers, NEW n \in 0 .. MaxLength
  PROVE  /\ AddData(m, p, dir, o, n) \in Message
         /\ AddData(m, p, dir, o, n).word = m.word
         /\ AddData(m, p, dir, o, n).len[p] = n
         /\ \A q \in Slots : q # p => /\ AddData(m, p, dir, o, n).len[q] = m.len[q]
                                      /\ AddData(m, p, dir, o, n).ptr[q] = m.ptr[q]
         /\ <<p, dir>> \notin op.inline => /\ AddData(m, p, dir, o, n).ptr[p] = o
                                           /\ AddData(m, p, dir, o, n).var = m.var
         /\ <<p, dir>> \in op.inline =>
              AddData(m, p, dir, o, n).var = Append(m.var, Cut(Content(o), n))
<1>1. Cut(Content(o), n) \in Value
  BY ContentType, CutType
<1>2. Message = [word : [Slots -> Value], len : [Slots -> 0..MaxLength],
                 ptr : [Slots -> Pointers], var : Seq(Value)]
  BY DEF Message, Pointers, Objects
<1>3. CASE <<p, dir>> \in op.inline
  <2> DEFINE v == Cut(Content(o), n)
  <2>1. AddData(m, p, dir, o, n) = [m EXCEPT !.len[p] = n, !.var = Append(m.var, v)]
    BY <1>2, <1>3 DEF AddData
  <2>2. v \in Value
    BY <1>1
  <2> HIDE DEF v
  <2>3. Append(m.var, v) \in Seq(Value)
    BY <1>2, <2>2
  <2>4. [m EXCEPT !.len[p] = n, !.var = Append(m.var, v)] \in Message
    BY <1>2, <2>3
  <2> QED BY <1>2, <1>3, <2>1, <2>4 DEF v
<1>4. CASE <<p, dir>> \notin op.inline
  <2>1. AddData(m, p, dir, o, n) = [m EXCEPT !.len[p] = n, !.ptr[p] = o]
    BY <1>4 DEF AddData
  <2>2. [m EXCEPT !.len[p] = n, !.ptr[p] = o] \in Message
    BY <1>2
  <2> QED BY <1>2, <1>4, <2>1, <2>2
<1> QED BY <1>3, <1>4

LEMMA NextPieceType ==
  ASSUME op \in Operations, NEW m \in Message, NEW k \in Nat
  PROVE  NextPiece(m, k) \in Value
<1>1. Junk \in Value /\ m.var \in Seq(Value)
  BY ValueFacts DEF Message
<1> QED BY <1>1 DEF NextPiece

LEMMA ElementsType ==
  ASSUME op \in Operations, NEW v \in [Slots -> Variable], NEW p \in Slots
  PROVE  Elements(v, p) \in 0 .. MaxLength
<1>1. v[p].len \in 0 .. MaxLength /\ MaxLength \in 0 .. MaxLength
  BY MaxLengthType DEF Variable
<1>2. ASSUME LengthOf(p) # {}  PROVE v[TheLength(p)].val.n \in 0 .. MaxLength
  <2>1. TheLength(p) \in Slots
    BY <1>2, LengthFacts, SlotFacts
  <2> QED BY <2>1 DEF Variable, Value
<1> QED BY <1>1, <1>2 DEF Elements

LEMMA StrLenType ==
  ASSUME op \in Operations, heap \in Heaps, NEW v, NEW p
  PROVE  StrLen(v, p) \in 0 .. MaxLength
<1>1. Content(v[p].ptr) \in Value
  BY ContentType
<1> QED BY <1>1 DEF StrLen, Value

LEMMA HeldValue ==
  ASSUME NEW v \in Value
  PROVE  Holding(v) \in [live : BOOLEAN, val : Value]
  BY DEF Holding

(* Memory in the roles of the stubs is memory.                             *)
LEMMA ObjectFacts ==
  ASSUME NEW p \in Slots
  PROVE  /\ <<"caller", p>> \in Objects /\ <<"frame", p>> \in Objects /\ <<"alloc", p>> \in Objects
         /\ <<"pool", p>> \in Objects /\ <<"message", p>> \in Objects /\ <<"own", p>> \in Objects
         /\ ServerBuffer(p) \in Objects /\ New(p) \in Objects
         /\ \A o \in Objects : o \in Pointers
         /\ None \in Pointers /\ None \notin Objects
<1>1. /\ <<"caller", p>> \in Objects /\ <<"frame", p>> \in Objects /\ <<"alloc", p>> \in Objects
      /\ <<"pool", p>> \in Objects /\ <<"message", p>> \in Objects /\ <<"own", p>> \in Objects
  BY DEF Objects, Roles
<1>2. \A o \in Objects : o[1] \in Roles
  BY DEF Objects
<1>3. None[1] \notin Roles
  BY DEF None, Roles
<1> QED BY <1>1, <1>2, <1>3 DEF Pointers, ServerBuffer, New

(* Every variable of the stubs has its type.                               *)
StubTypes ==
  /\ client \in {"start", "marshal", "waiting", "unmarshal", "failed", "return", "done"}
  /\ server \in {"idle", "unmarshal", "running", "later", "marshal", "answered", "refused"}
  /\ ci \in 1 .. Len(ops) + 1 /\ si \in 1 .. Len(ops) + 2
  /\ c \in [Slots -> Variable] /\ s \in [Slots -> Variable]
  /\ req \in Message /\ rep \in Message
  /\ read \in [{"c", "s"} -> Nat]
  /\ heap \in Heaps
  /\ misused \subseteq Pointers
  /\ deferred \in BOOLEAN /\ ok \in BOOLEAN
  /\ given \in [Slots -> Value]

(* Where the stubs are, and how far they have read what is in the message. *)
PhaseInv ==
  /\ client = "start" => server = "idle" /\ ci = 1
  /\ client # "start" => stage = "generated"
  /\ client = "marshal" => server = "idle"
  /\ server = "idle" => client \in {"start", "marshal", "failed", "return", "done"} /\ si = 1 /\ read.s = 0
  /\ client = "waiting" => ci = 1 /\ ~op.oneway
  /\ server = "unmarshal" => read.s < si /\ si <= Len(ops) + 1
  /\ read.s <= Len(ops)
  /\ server \in {"running", "later"} => si = 1
  /\ server = "later" => ~op.oneway
  /\ server = "marshal" => si <= Len(Replies) + 1 /\ ~op.oneway
  /\ server \in {"idle", "unmarshal", "running", "later"} => rep = EmptyMessage
  /\ client \in {"start", "marshal", "waiting", "failed"} => read.c = 0
  /\ client = "unmarshal" => read.c < ci
  /\ client = "return" => read.c <= Len(ops)
  /\ client = "done" => read.c <= Len(Replies)
  /\ ok => client \in {"return", "done"} /\ ci = Len(ops) + 1 /\ server # "idle"
  /\ (client = "unmarshal" \/ ok) /\ ~op.oneway => server = "answered"

TypeInv == OrderInv /\ StubTypes /\ PhaseInv

(* The operations of the reply.                                            *)
LEMMA RepliesFacts ==
  ASSUME OrderInv
  PROVE  /\ op \in Operations /\ ops \in Seq(Params) /\ Len(ops) \in Nat
         /\ Replies \in Seq(Slots)
         /\ Len(Replies) = IF op.ret = "void" THEN Len(ops) ELSE Len(ops) + 1
         /\ \A i \in 1 .. Len(ops) : Replies[i] = ops[i] /\ ops[i] \in Params /\ ops[i] \in Slots
         /\ op.ret # "void" => Replies[Len(ops) + 1] = Ret
<1>1. op \in Operations /\ ops \in Seq(Params)
  BY DEF OrderInv, OrderTypes
<1>2. Params \subseteq Slots /\ (Ret \in Slots <=> op.ret # "void")
  BY <1>1, SlotFacts
<1>3. \A i \in 1 .. Len(ops) : ops[i] \in Params /\ ops[i] \in Slots
  BY <1>1, <1>2
<1>4. ops \in Seq(Slots) /\ Len(ops) \in Nat
  BY <1>1, <1>2
<1>5. CASE op.ret = "void"
  <2>1. Replies = ops \o <<>>
    BY <1>5 DEF Replies
  <2>2. Replies = ops
    BY <1>4, <2>1
  <2> QED BY <1>1, <1>3, <1>4, <1>5, <2>2
<1>6. CASE op.ret # "void"
  <2>1. Replies = ops \o <<Ret>> /\ Ret \in Slots
    BY <1>2, <1>6 DEF Replies
  <2>2. Replies \in Seq(Slots) /\ Len(Replies) = Len(ops) + 1 /\ Replies[Len(ops) + 1] = Ret
    BY <1>4, <2>1
  <2>3. \A i \in 1 .. Len(ops) : Replies[i] = ops[i]
    BY <1>4, <2>1
  <2> QED BY <1>1, <1>3, <1>4, <1>6, <2>2, <2>3
<1> QED BY <1>5, <1>6

(* The steps of the stubs leave the generated code alone.                  *)
LEMMA SameCode ==
  ASSUME OrderInv, UNCHANGED orderVars
  PROVE  /\ op' = op /\ ops' = ops /\ stage' = stage /\ Replies' = Replies
         /\ OrderInv'
<1>1. op' = op /\ ops' = ops /\ stage' = stage
  BY DEF orderVars
<1>2. Replies' = Replies
  BY <1>1, SameSlots DEF Replies
<1>3. OrderInv'
  BY OrderStep
<1> QED BY <1>1, <1>2, <1>3

LEMMA LengthsType ==
  ASSUME op \in Operations, NEW n \in Lengths, NEW p \in Slots
  PROVE  /\ n[p] \in 1 .. MaxLength /\ n[p] \in 0 .. MaxLength
         /\ Whole(p, "in", n[p]) \in Value /\ Whole(p, "out", n[p]) \in Value
<1>1. n[p] \in 1 .. MaxLength
  BY DEF Lengths
<1>2. n[p] \in 0 .. MaxLength
  BY <1>1, MaxLengthType
<1>3. "in" \in Tags /\ "out" \in Tags
  BY DEF Tags
<1> QED BY <1>1, <1>2, <1>3, WholeType

LEMMA InitTypes == StubInit => TypeInv
<1> SUFFICES ASSUME StubInit PROVE TypeInv
  OBVIOUS
<1>0. OrderInv /\ op \in Operations
  BY InitOrder DEF StubInit, OrderInv, OrderTypes
<1>1. PICK n \in Lengths :
       /\ c = [p \in Slots |-> CallerVariable(p, n[p])]
       /\ heap = [o \in Roles \X Slots |->
            LET p == o[2] IN
            IF o[1] = "caller" /\ Brings(p)
            THEN Holding(IF HasIn(p) THEN Whole(p, "in", n[p]) ELSE Junk)
            ELSE [live |-> o[1] = "pool", val |-> Junk]]
       /\ given = [p \in Slots |-> IF HasIn(p) THEN Whole(p, "in", n[p])
                                   ELSE IF p \in Params /\ Claimed(p) THEN CallerLength(p, n[p]) ELSE Junk]
  BY DEF StubInit
<1>2. Junk \in Value /\ \A k \in 0 .. MaxLength : Length(k) \in Value
  BY <1>0, ValueFacts
<1>3. ASSUME NEW p \in Slots  PROVE CallerLength(p, n[p]) \in Value
  BY <1>0, <1>2, LengthsType DEF CallerLength
<1>4. given \in [Slots -> Value]
  BY <1>0, <1>1, <1>2, <1>3, LengthsType
<1>5. heap \in Heaps
  <2>1. ASSUME NEW o \in Objects
        PROVE  (LET p == o[2] IN
                IF o[1] = "caller" /\ Brings(p)
                THEN Holding(IF HasIn(p) THEN Whole(p, "in", n[p]) ELSE Junk)
                ELSE [live |-> o[1] = "pool", val |-> Junk]) \in [live : BOOLEAN, val : Value]
    <3>1. o[2] \in Slots
      BY DEF Objects
    <3>2. Whole(o[2], "in", n[o[2]]) \in Value
      BY <1>0, <3>1, LengthsType
    <3> QED BY <1>2, <3>2 DEF Holding
  <2> QED BY <1>1, <2>1 DEF Heaps, Objects
<1>6. c \in [Slots -> Variable]
  <2>1. ASSUME NEW p \in Slots  PROVE CallerVariable(p, n[p]) \in Variable
    <3>1. (IF Brings(p) THEN <<"caller", p>> ELSE None) \in {None} \cup Roles \X Slots
      BY DEF Roles
    <3>2. (IF Kind(p) = "sequence" /\ HasIn(p) THEN n[p] ELSE 0) \in 0 .. MaxLength
      BY <1>0, LengthsType, MaxLengthType
    <3>3. (IF p \in Params /\ Claimed(p) THEN CallerLength(p, n[p])
           ELSE IF HasIn(p) /\ ~VarSized(p) THEN Whole(p, "in", n[p]) ELSE Junk) \in Value
      BY <1>0, <1>2, <1>3, LengthsType
    <3> QED BY <3>1, <3>2, <3>3 DEF CallerVariable, Variable
  <2> QED BY <1>1, <2>1
<1>7. s \in [Slots -> Variable]
  BY <1>2, MaxLengthType DEF StubInit, Variable
<1>8. EmptyMessage \in Message
  BY <1>0, EmptyMessageType
<1>9. ops = <<>> /\ Len(ops) = 0
  BY DEF StubInit, Init
<1>10. StubTypes
  <2>1. ci \in 1 .. Len(ops) + 1 /\ si \in 1 .. Len(ops) + 2
    BY <1>9 DEF StubInit
  <2>2. read \in [{"c", "s"} -> Nat]
    BY DEF StubInit
  <2> QED BY <1>4, <1>5, <1>6, <1>7, <1>8, <2>1, <2>2 DEF StubInit, StubTypes
<1>11. PhaseInv
  BY <1>9 DEF StubInit, PhaseInv
<1> QED BY <1>0, <1>10, <1>11 DEF TypeInv

-----------------------------------------------------------------------------
(* The client.                                                             *)

LEMMA StartTypes ==
  ASSUME TypeInv, Start
  PROVE  TypeInv'
<1>0. UNCHANGED orderVars /\ OrderInv
  BY DEF Start, TypeInv
<1>1. /\ op \in Operations /\ op' = op /\ ops' = ops /\ stage' = stage /\ Replies' = Replies /\ OrderInv'
      /\ Slots' = Slots /\ Variable' = Variable /\ Message' = Message /\ Heaps' = Heaps /\ Pointers' = Pointers
      /\ Value' = Value /\ EmptyMessage' = EmptyMessage
  BY <1>0, SameCode, SameSlots, RepliesFacts
<1>2. heap' \in Heaps
  <2>1. Junk \in Value
    BY <1>1, ValueFacts
  <2>2. heap' = [o \in Objects |-> IF o \in Frames THEN Holding(Junk) ELSE heap[o]]
    BY DEF Start, TypeInv, StubTypes, Heaps
  <2> QED BY <2>1, <2>2 DEF Holding, TypeInv, StubTypes, Heaps
<1>3. StubTypes'
  BY <1>1, <1>2 DEF Start, TypeInv, StubTypes
<1>4. PhaseInv'
  BY <1>1 DEF Start, TypeInv, PhaseInv, StubTypes
<1> QED BY <1>1, <1>3, <1>4 DEF TypeInv

(* All that the steps of the stubs leave alone, by name.                   *)
LEMMA CodeStays ==
  ASSUME TypeInv, UNCHANGED orderVars
  PROVE  /\ op \in Operations /\ op' = op /\ ops' = ops /\ stage' = stage /\ Replies' = Replies /\ OrderInv'
         /\ Slots' = Slots /\ Variable' = Variable /\ Message' = Message /\ Heaps' = Heaps
         /\ Pointers' = Pointers /\ Value' = Value /\ EmptyMessage' = EmptyMessage
         /\ Len(ops) \in Nat /\ ops \in Seq(Params)
  BY SameCode, SameSlots, RepliesFacts DEF TypeInv

LEMMA HeapDomain ==
  ASSUME TypeInv
  PROVE  heap \in Heaps /\ DOMAIN heap = Objects
         /\ \A o \in Objects : heap[o] \in [live : BOOLEAN, val : Value]
  BY DEF TypeInv, StubTypes, Heaps

LEMMA PointerType ==
  ASSUME TypeInv, NEW p \in Slots
  PROVE  /\ c[p].ptr \in Pointers /\ s[p].ptr \in Pointers
         /\ c[p].val \in Value /\ s[p].val \in Value
         /\ c[p].len \in 0 .. MaxLength /\ s[p].len \in 0 .. MaxLength
  BY DEF TypeInv, StubTypes, Variable, Pointers, Objects

LEMMA ClientMarshalTypes ==
  ASSUME TypeInv, ClientMarshal
  PROVE  TypeInv'
<1> DEFINE p == ops[ci]
<1>0. UNCHANGED orderVars
  BY DEF ClientMarshal
<1>1. /\ op \in Operations /\ op' = op /\ ops' = ops /\ stage' = stage /\ Replies' = Replies /\ OrderInv'
      /\ Slots' = Slots /\ Variable' = Variable /\ Message' = Message /\ Heaps' = Heaps
      /\ Pointers' = Pointers /\ Value' = Value /\ EmptyMessage' = EmptyMessage
      /\ Len(ops) \in Nat
  BY <1>0, CodeStays
<1>2. p \in Slots /\ ci \in 1 .. Len(ops)
  <2>1. ci \in 1 .. Len(ops)
    BY <1>1 DEF ClientMarshal, TypeInv, StubTypes
  <2> QED BY <2>1, RepliesFacts DEF TypeInv
<1>3. req \in Message /\ c \in [Slots -> Variable] /\ misused \subseteq Pointers /\ heap \in Heaps
  BY DEF TypeInv, StubTypes
<1>4. /\ \/ ~HasIn(p) /\ UNCHANGED <<req, c, misused>>
         \/ HasIn(p) /\ (\/ SendWord(p) \/ SendThread(p) \/ SendMap(p)
                         \/ SendString(p) \/ SendArray(p) \/ SendSequence(p))
      /\ ci' = ci + 1 /\ client = "marshal"
      /\ UNCHANGED <<orderVars, client, server, si, s, rep, read, heap, deferred, ok, given, taken, left>>
  BY DEF ClientMarshal
<1> HIDE DEF p
<1>5. c[p].val \in Value /\ c[p].len \in 0 .. MaxLength /\ c[p].ptr \in Pointers /\ Wire(c[p].val) \in Value
      /\ Elements(c, p) \in 0 .. MaxLength /\ StrLen(c, p) \in 0 .. MaxLength
  BY <1>1, <1>2, <1>3, PointerType, WireType, ElementsType, StrLenType
<1>6. ASSUME NEW n \in 0 .. MaxLength, SendData(p, n)
      PROVE req' \in Message /\ misused' \subseteq Pointers
  BY <1>1, <1>2, <1>3, <1>5, <1>6, AddDataType DEF SendData, Dead
<1>7. req' \in Message /\ c' \in [Slots -> Variable] /\ misused' \subseteq Pointers
  <2>1. CASE UNCHANGED <<req, c, misused>>
    BY <2>1, <1>3
  <2>2. CASE SendWord(p) \/ SendThread(p) \/ SendMap(p)
    BY <2>2, <1>2, <1>3, <1>5, AddWordType DEF SendWord, SendThread, SendMap
  <2>3. CASE SendString(p)
    <3>1. c' = [c EXCEPT ![p].len = StrLen(c, p)]
      BY <2>3 DEF SendString
    <3>2. c' \in [Slots -> Variable]
      BY <3>1, <1>2, <1>3, <1>5 DEF Variable
    <3> QED BY <2>3, <3>2, <1>5, <1>6 DEF SendString
  <2>4. CASE SendArray(p)
    BY <2>4, <1>3, <1>5, <1>6 DEF SendArray
  <2>5. CASE SendSequence(p)
    BY <2>5, <1>3, <1>5, <1>6 DEF SendSequence
  <2> QED BY <1>4, <2>1, <2>2, <2>3, <2>4, <2>5
<1>8. StubTypes'
  <2>1. ci' \in 1 .. Len(ops) + 1
    BY <1>1, <1>2, <1>4
  <2> QED BY <1>1, <1>4, <1>7, <2>1 DEF TypeInv, StubTypes
<1>9. PhaseInv'
  BY <1>1, <1>4 DEF TypeInv, PhaseInv
<1> QED BY <1>1, <1>8, <1>9 DEF TypeInv

LEMMA CallTypes ==
  ASSUME TypeInv, Call
  PROVE  TypeInv'
<1>0. UNCHANGED orderVars
  BY DEF Call
<1>1. /\ op \in Operations /\ op' = op /\ ops' = ops /\ stage' = stage /\ Replies' = Replies /\ OrderInv'
      /\ Slots' = Slots /\ Variable' = Variable /\ Message' = Message /\ Heaps' = Heaps
      /\ Pointers' = Pointers /\ Value' = Value /\ EmptyMessage' = EmptyMessage
      /\ Len(ops) \in Nat
  BY <1>0, CodeStays
<1>2. req \in Message /\ heap \in Heaps /\ DOMAIN heap = Objects /\ misused \subseteq Pointers
  BY HeapDomain DEF TypeInv, StubTypes
<1>3. heap' \in Heaps
  <2>1. ASSUME NEW o \in Objects
        PROVE  (IF o[1] = "pool" /\ o[2] \in Items("in")
                THEN Holding(Cut(Content(req.ptr[o[2]]), req.len[o[2]])) ELSE heap[o])
               \in [live : BOOLEAN, val : Value]
    <3>1. o[2] \in Slots
      BY DEF Objects
    <3>2. req.len[o[2]] \in 0 .. MaxLength
      BY <3>1, <1>2 DEF Message
    <3>3. Content(req.ptr[o[2]]) \in Value
      BY <1>1, <1>2, ContentType
    <3>4. Cut(Content(req.ptr[o[2]]), req.len[o[2]]) \in Value
      BY <1>1, <3>2, <3>3, CutType
    <3> QED BY <3>4, HeldValue, HeapDomain
  <2> QED BY <1>2, <2>1 DEF Call, Heaps
<1>4. misused' \subseteq Pointers
  <2>1. \A p \in Items("in") : req.ptr[p] \in Pointers
    BY <1>2 DEF Items, Message, Pointers, Objects
  <2> QED BY <1>2, <2>1 DEF Call, Dead
<1>5. StubTypes'
  BY <1>1, <1>3, <1>4 DEF TypeInv, StubTypes, Call
<1>6. PhaseInv'
  <2>1. op.oneway \in BOOLEAN
    BY <1>1, SlotFacts
  <2> QED BY <1>1, <2>1 DEF TypeInv, PhaseInv, Call
<1> QED BY <1>1, <1>5, <1>6 DEF TypeInv

LEMMA FailTypes ==
  ASSUME TypeInv, CallFails \/ SkipUnmarshal
  PROVE  TypeInv'
<1>0. UNCHANGED orderVars
  BY DEF CallFails, SkipUnmarshal
<1>1. /\ op \in Operations /\ op' = op /\ ops' = ops /\ stage' = stage /\ Replies' = Replies /\ OrderInv'
      /\ Slots' = Slots /\ Variable' = Variable /\ Message' = Message /\ Heaps' = Heaps
      /\ Pointers' = Pointers /\ Value' = Value /\ EmptyMessage' = EmptyMessage
      /\ Len(ops) \in Nat
  BY <1>0, CodeStays
<1>2. StubTypes'
  BY <1>1 DEF TypeInv, StubTypes, CallFails, SkipUnmarshal
<1>3. PhaseInv'
  BY <1>1 DEF TypeInv, PhaseInv, CallFails, SkipUnmarshal
<1> QED BY <1>1, <1>2, <1>3 DEF TypeInv

LEMMA FinishTypes ==
  ASSUME TypeInv, Finish
  PROVE  TypeInv'
<1>0. UNCHANGED orderVars
  BY DEF Finish
<1>1. /\ op \in Operations /\ op' = op /\ ops' = ops /\ stage' = stage /\ Replies' = Replies /\ OrderInv'
      /\ Slots' = Slots /\ Variable' = Variable /\ Message' = Message /\ Heaps' = Heaps
      /\ Pointers' = Pointers /\ Value' = Value /\ EmptyMessage' = EmptyMessage
      /\ Len(ops) \in Nat
  BY <1>0, CodeStays
<1>2. heap' \in Heaps
  <2>1. ASSUME NEW o \in Objects
        PROVE  (IF o \in Frames THEN [heap[o] EXCEPT !.live = FALSE] ELSE heap[o]) \in [live : BOOLEAN, val : Value]
    BY HeapDomain
  <2> QED BY <2>1, HeapDomain DEF Finish, Heaps
<1>3. ci = Len(ops) + 1
  BY <1>1 DEF Finish, TypeInv, StubTypes
<1>4. StubTypes'
  BY <1>1, <1>2 DEF TypeInv, StubTypes, Finish
<1>5. PhaseInv'
  <2>1. read.c \in Nat
    BY DEF TypeInv, StubTypes
  <2> QED BY <1>1, <1>3, <2>1 DEF TypeInv, PhaseInv, Finish
<1> QED BY <1>1, <1>4, <1>5 DEF TypeInv

(* One slot is unmarshalled.                                               *)
Takes(p) ==
  \/ TakeWord(p) \/ TakeThread(p) \/ TakeMap(p)
  \/ TakeString(p) \/ TakeArray(p) \/ TakeSequence(p)

LEMMA TakeTypes ==
  ASSUME TypeInv, NEW p \in Slots, Takes(p)
  PROVE  /\ c' \in [Slots -> Variable] /\ heap' \in Heaps /\ misused' \subseteq Pointers
         /\ read' \in [{"c", "s"} -> Nat] /\ read'.s = read.s /\ read'.c <= read.c + 1
<1>1. op \in Operations /\ heap \in Heaps /\ DOMAIN heap = Objects /\ c \in [Slots -> Variable]
      /\ misused \subseteq Pointers /\ read \in [{"c", "s"} -> Nat] /\ rep \in Message
  BY HeapDomain DEF TypeInv, StubTypes, OrderInv, OrderTypes
<1>2. Arrived \in Message
  BY <1>1, EmptyMessageType DEF Arrived
<1>3. /\ c[p].ptr \in Pointers /\ Arrived.word[p] \in Value /\ Arrived.len[p] \in 0 .. MaxLength
      /\ \A q \in Slots : c[q] \in Variable
  BY <1>1, <1>2, PointerType DEF Message
<1>4. CASE TakeWord(p) \/ TakeThread(p) \/ TakeMap(p)
  <2>1. \E v \in Value : c' = [c EXCEPT ![p].val = v]
    BY <1>1, <1>3, <1>4, WireType DEF TakeWord, TakeThread, TakeMap
  <2>2. c' \in [Slots -> Variable]
    BY <1>1, <2>1 DEF Variable
  <2> QED BY <1>1, <1>4, <2>2 DEF TakeWord, TakeThread, TakeMap
<1>5. Piece(p) \in Value
  <2>1. read.c \in Nat
    BY <1>1
  <2>2. NextPiece(Arrived, read.c) \in Value
    BY <1>1, <1>2, <2>1, NextPieceType
  <2>3. Cut(Content(Landing(p)), Arrived.len[p]) \in Value
    BY <1>1, <1>3, ContentType, CutType
  <2> QED BY <2>2, <2>3 DEF Piece
<1>6. ASSUME NEW buffer \in Pointers, NEW frees \in BOOLEAN, NEW copies \in BOOLEAN,
             TakeData(p, buffer, frees, copies)
      PROVE  /\ c' \in [Slots -> Variable] /\ heap' \in Heaps /\ misused' \subseteq Pointers
             /\ read' \in [{"c", "s"} -> Nat] /\ read'.s = read.s /\ read'.c <= read.c + 1
  <2>1. c' \in [Slots -> Variable]
    <3>1. ASSUME NEW q \in Slots
          PROVE  (IF q = p THEN [c[p] EXCEPT !.ptr = buffer,
                                   !.len = IF Kind(p) = "sequence" THEN Arrived.len[p] ELSE @]
                  ELSE IF LengthOf(p) = {q} THEN [c[q] EXCEPT !.val = Length(Arrived.len[p])]
                  ELSE c[q]) \in Variable
      <4>1. Variable = [ptr : Pointers, len : 0..MaxLength, val : Value]
        BY DEF Variable, Pointers, Objects
      <4>2. Length(Arrived.len[p]) \in Value
        BY <1>1, <1>3, ValueFacts
      <4>3. CASE q = p
        BY <1>3, <4>1, <4>3
      <4>4. CASE q # p
        BY <1>3, <4>1, <4>2, <4>4
      <4> QED BY <4>3, <4>4
    <3> QED BY <1>6, <3>1 DEF TakeData
  <2>2. heap' \in Heaps
    <3>1. ASSUME NEW o \in Objects
          PROVE  (IF copies /\ o = buffer THEN Holding(Piece(p))
                  ELSE IF frees /\ o = c[p].ptr THEN [heap[o] EXCEPT !.live = FALSE]
                  ELSE heap[o]) \in [live : BOOLEAN, val : Value]
      <4>1. heap[o] \in [live : BOOLEAN, val : Value]
        BY HeapDomain
      <4>2. Holding(Piece(p)) \in [live : BOOLEAN, val : Value]
        BY <1>5, HeldValue
      <4>3. [heap[o] EXCEPT !.live = FALSE] \in [live : BOOLEAN, val : Value]
        BY <4>1
      <4> QED BY <4>1, <4>2, <4>3
    <3> QED BY <1>1, <1>6, <3>1 DEF TakeData, Heaps
  <2>3. misused' \subseteq Pointers
    <3>1. p \in Items("out") => Landing(p) \in Pointers
      BY <1>3, ObjectFacts DEF Landing
    <3> QED BY <1>1, <1>3, <1>6, <3>1 DEF TakeData, Dead
  <2>4. read' \in [{"c", "s"} -> Nat] /\ read'.s = read.s /\ read'.c <= read.c + 1
    BY <1>1, <1>6 DEF TakeData
  <2> QED BY <2>1, <2>2, <2>3, <2>4
<1>7. New(p) \in Pointers
  BY ObjectFacts
<1>8. HasIn(p) \in BOOLEAN /\ UseMalloc(p) \in BOOLEAN /\ TRUE \in BOOLEAN /\ FALSE \in BOOLEAN
  BY <1>1, SlotFacts, ParamsAreNumbers DEF HasIn, UseMalloc, Param, Parameter
<1>9. CASE TakeString(p)
  BY <1>3, <1>6, <1>7, <1>8, <1>9 DEF TakeString
<1>10. CASE TakeArray(p)
  <2> DEFINE buffer == IF UseMalloc(p) THEN New(p) ELSE c[p].ptr
  <2>1. TakeData(p, buffer, HasIn(p), UseMalloc(p)) /\ buffer \in Pointers
    BY <1>3, <1>7, <1>10 DEF TakeArray
  <2> HIDE DEF buffer
  <2> QED BY <2>1, <1>6, <1>8
<1>11. CASE TakeSequence(p)
  BY <1>3, <1>6, <1>7, <1>8, <1>11 DEF TakeSequence
<1> QED BY <1>4, <1>9, <1>10, <1>11 DEF Takes

LEMMA ClientUnmarshalTypes ==
  ASSUME TypeInv, ClientUnmarshal
  PROVE  TypeInv'
<1> DEFINE p == ops[ci]
<1>0. UNCHANGED orderVars
  BY DEF ClientUnmarshal
<1>1. /\ op \in Operations /\ op' = op /\ ops' = ops /\ stage' = stage /\ Replies' = Replies /\ OrderInv'
      /\ Slots' = Slots /\ Variable' = Variable /\ Message' = Message /\ Heaps' = Heaps
      /\ Pointers' = Pointers /\ Value' = Value /\ EmptyMessage' = EmptyMessage
      /\ Len(ops) \in Nat
  BY <1>0, CodeStays
<1>2. p \in Slots /\ ci \in 1 .. Len(ops)
  <2>1. ci \in 1 .. Len(ops)
    BY <1>1 DEF ClientUnmarshal, TypeInv, StubTypes
  <2> QED BY <2>1, RepliesFacts DEF TypeInv
<1>3. /\ \/ ~HasOut(p) /\ UNCHANGED <<c, heap, misused, read>>
         \/ Takes(p)
      /\ ci' = ci + 1 /\ client = "unmarshal"
      /\ UNCHANGED <<orderVars, client, server, si, s, req, rep, deferred, ok, given, taken, left>>
  BY DEF ClientUnmarshal, Takes
<1> HIDE DEF p
<1>4. /\ c' \in [Slots -> Variable] /\ heap' \in Heaps /\ misused' \subseteq Pointers
      /\ read' \in [{"c", "s"} -> Nat] /\ read'.s = read.s /\ read'.c <= read.c + 1
  <2>1. CASE UNCHANGED <<c, heap, misused, read>>
    <3>1. read \in [{"c", "s"} -> Nat]
      BY DEF TypeInv, StubTypes
    <3> QED BY <2>1, <3>1 DEF TypeInv, StubTypes
  <2>2. CASE Takes(p)
    BY <2>2, <1>2, TakeTypes
  <2> QED BY <1>3, <2>1, <2>2
<1>5. StubTypes'
  <2>1. ci' \in 1 .. Len(ops) + 1
    BY <1>1, <1>2, <1>3
  <2> QED BY <1>1, <1>3, <1>4, <2>1 DEF TypeInv, StubTypes
<1>6. PhaseInv'
  <2>1. read.c \in Nat /\ read'.c \in Nat
    BY <1>4 DEF TypeInv, StubTypes
  <2> QED BY <1>1, <1>2, <1>3, <1>4, <2>1 DEF TypeInv, PhaseInv
<1> QED BY <1>1, <1>5, <1>6 DEF TypeInv

LEMMA ReturnTypes ==
  ASSUME TypeInv, Return
  PROVE  TypeInv'
<1>0. UNCHANGED orderVars
  BY DEF Return
<1>1. /\ op \in Operations /\ op' = op /\ ops' = ops /\ stage' = stage /\ Replies' = Replies /\ OrderInv'
      /\ Slots' = Slots /\ Variable' = Variable /\ Message' = Message /\ Heaps' = Heaps
      /\ Pointers' = Pointers /\ Value' = Value /\ EmptyMessage' = EmptyMessage
      /\ Len(ops) \in Nat
  BY <1>0, CodeStays
<1>2. /\ client = "return" /\ client' = "done"
      /\ UNCHANGED <<orderVars, ci, server, si, s, req, rep, deferred, ok, given, taken, left>>
  BY DEF Return
<1>3. Len(Replies) = IF op.ret = "void" THEN Len(ops) ELSE Len(ops) + 1
  BY RepliesFacts DEF TypeInv
<1>4. /\ c' \in [Slots -> Variable] /\ heap' \in Heaps /\ misused' \subseteq Pointers
      /\ read' \in [{"c", "s"} -> Nat] /\ read'.s = read.s /\ read'.c <= Len(Replies)
  <2>0. read.c <= Len(ops) /\ read \in [{"c", "s"} -> Nat] /\ read.c \in Nat
    BY <1>2 DEF TypeInv, StubTypes, PhaseInv
  <2>1. CASE op.ret = "void"
    BY <1>3, <2>0, <2>1 DEF Return, TypeInv, StubTypes
  <2>2. CASE op.ret # "void"
    <3>1. Ret \in Slots /\ Takes(Ret)
      BY <1>1, <2>2, SlotFacts DEF Return, Takes
    <3>2. /\ c' \in [Slots -> Variable] /\ heap' \in Heaps /\ misused' \subseteq Pointers
          /\ read' \in [{"c", "s"} -> Nat] /\ read'.s = read.s /\ read'.c <= read.c + 1
      BY <3>1, TakeTypes
    <3>3. read'.c \in Nat
      BY <3>2
    <3> QED BY <1>1, <1>3, <2>0, <2>2, <3>2, <3>3
  <2> QED BY <2>1, <2>2
<1>5. StubTypes'
  BY <1>1, <1>2, <1>4 DEF TypeInv, StubTypes
<1>6. PhaseInv'
  BY <1>1, <1>2, <1>4 DEF TypeInv, PhaseInv
<1> QED BY <1>1, <1>5, <1>6 DEF TypeInv

(* The server.                                                             *)

LEMMA ServerUnmarshalTypes ==
  ASSUME TypeInv, ServerUnmarshal
  PROVE  TypeInv'
<1> DEFINE p == ops[si]
<1>0. UNCHANGED orderVars
  BY DEF ServerUnmarshal
<1>1. /\ op \in Operations /\ op' = op /\ ops' = ops /\ stage' = stage /\ Replies' = Replies /\ OrderInv'
      /\ Slots' = Slots /\ Variable' = Variable /\ Message' = Message /\ Heaps' = Heaps
      /\ Pointers' = Pointers /\ Value' = Value /\ EmptyMessage' = EmptyMessage
      /\ Len(ops) \in Nat
  BY <1>0, CodeStays
<1>2. p \in Slots /\ si \in 1 .. Len(ops)
  <2>1. si \in 1 .. Len(ops)
    BY <1>1 DEF ServerUnmarshal, TypeInv, StubTypes
  <2> QED BY <2>1, RepliesFacts DEF TypeInv
<1>3. /\ \/ Kind(p) = "alloc" /\ UNCHANGED <<s, heap, read>>
         \/ ReceiveWord(p) \/ ReceiveThread(p) \/ ReceiveData(p)
      /\ si' = si + 1 /\ server = "unmarshal"
      /\ UNCHANGED <<orderVars, client, server, ci, c, req, rep, misused, deferred, ok, given, taken, left>>
  BY DEF ServerUnmarshal
<1> HIDE DEF p
<1>4. /\ req \in Message /\ s \in [Slots -> Variable] /\ heap \in Heaps
      /\ read \in [{"c", "s"} -> Nat] /\ read.s \in Nat /\ read.c \in Nat
  BY DEF TypeInv, StubTypes
<1>5. Junk \in Value /\ req.word[p] \in Value /\ Unwire(req.word[p]) \in Value /\ req.len[p] \in 0 .. MaxLength
  BY <1>1, <1>2, <1>4, ValueFacts, WireType DEF Message
<1>6. /\ s' \in [Slots -> Variable] /\ heap' \in Heaps
      /\ read' \in [{"c", "s"} -> Nat] /\ read'.c = read.c /\ read'.s <= read.s + 1
  <2>1. CASE UNCHANGED <<s, heap, read>>
    BY <2>1, <1>4
  <2>2. CASE ReceiveWord(p) \/ ReceiveThread(p)
    <3>1. \E v \in Value : s' = [s EXCEPT ![p].val = v]
      BY <2>2, <1>5 DEF ReceiveWord, ReceiveThread
    <3>2. s' \in [Slots -> Variable]
      BY <3>1, <1>2, <1>4 DEF Variable
    <3> QED BY <2>2, <3>2, <1>4 DEF ReceiveWord, ReceiveThread
  <2>3. CASE ReceiveData(p)
    <3> DEFINE l == IF HasIn(p) THEN req.len[p] ELSE s[p].len
    <3>1. s' = [s EXCEPT ![p] = [s[p] EXCEPT !.ptr = ServerBuffer(p), !.len = l]]
      BY <2>3, <1>2, <1>4 DEF ReceiveData, Variable
    <3>2. l \in 0 .. MaxLength
      BY <1>2, <1>5, PointerType
    <3>3. ServerBuffer(p) \in Objects /\ ServerBuffer(p) \in Pointers
      BY <1>2, ObjectFacts
    <3> HIDE DEF l
    <3>4. [s[p] EXCEPT !.ptr = ServerBuffer(p), !.len = l] \in Variable
      <4>1. Variable = [ptr : Pointers, len : 0..MaxLength, val : Value]
        BY DEF Variable, Pointers, Objects
      <4> QED BY <4>1, <3>2, <3>3, <1>2, <1>4
    <3>5. s' \in [Slots -> Variable]
      BY <3>1, <3>4, <1>2, <1>4
    <3>6. NextPiece(req, read.s) \in Value
      BY <1>1, <1>4, NextPieceType
    <3>7. CASE <<p, "in">> \in op.inline
      <4>1. /\ heap' = [heap EXCEPT ![ServerBuffer(p)] = Holding(NextPiece(req, read.s))]
            /\ read' = [read EXCEPT !.s = @ + 1]
        BY <2>3, <3>7 DEF ReceiveData
      <4>2. Holding(NextPiece(req, read.s)) \in [live : BOOLEAN, val : Value]
        BY <3>6, HeldValue
      <4>3. heap' \in Heaps
        BY <4>1, <4>2, <3>3, <1>4 DEF Heaps
      <4>4. read' \in [{"c", "s"} -> Nat] /\ read'.c = read.c /\ read'.s <= read.s + 1
        BY <4>1, <1>4
      <4> QED BY <3>5, <4>3, <4>4
    <3>8. CASE <<p, "in">> \notin op.inline
      BY <2>3, <3>5, <3>8, <1>4 DEF ReceiveData
    <3> QED BY <3>7, <3>8
  <2> QED BY <1>3, <2>1, <2>2, <2>3
<1>7. StubTypes'
  <2>1. si' \in 1 .. Len(ops) + 2
    BY <1>1, <1>2, <1>3
  <2> QED BY <1>1, <1>3, <1>6, <2>1 DEF TypeInv, StubTypes
<1>8. PhaseInv'
  <2>1. read'.s \in Nat
    BY <1>6
  <2>2. read.s < si
    BY <1>3 DEF TypeInv, PhaseInv
  <2>3. read'.s < si' /\ si' <= Len(ops) + 1 /\ read'.s <= Len(ops)
    BY <1>1, <1>2, <1>3, <1>4, <1>6, <2>1, <2>2
  <2> QED BY <1>1, <1>3, <1>6, <2>3 DEF TypeInv, PhaseInv
<1> QED BY <1>1, <1>7, <1>8 DEF TypeInv

LEMMA InvokeTypes ==
  ASSUME TypeInv, Invoke \/ Defer \/ Raise
  PROVE  TypeInv'
<1>0. UNCHANGED orderVars
  BY DEF Invoke, Defer, Raise
<1>1. /\ op \in Operations /\ op' = op /\ ops' = ops /\ stage' = stage /\ Replies' = Replies /\ OrderInv'
      /\ Slots' = Slots /\ Variable' = Variable /\ Message' = Message /\ Heaps' = Heaps
      /\ Pointers' = Pointers /\ Value' = Value /\ EmptyMessage' = EmptyMessage
      /\ Len(ops) \in Nat
  BY <1>0, CodeStays
<1>2. 1 \in 1 .. Len(ops) + 2
  BY <1>1
<1>3. CASE Invoke
  <2>1. StubTypes'
    BY <1>1, <1>2, <1>3 DEF TypeInv, StubTypes, Invoke
  <2>2. PhaseInv'
    BY <1>1, <1>3 DEF TypeInv, PhaseInv, Invoke
  <2> QED BY <1>1, <2>1, <2>2 DEF TypeInv
<1>4. CASE Defer
  <2>1. StubTypes'
    BY <1>1, <1>4 DEF TypeInv, StubTypes, Defer
  <2>2. PhaseInv'
    BY <1>1, <1>4 DEF TypeInv, PhaseInv, Defer
  <2> QED BY <1>1, <2>1, <2>2 DEF TypeInv
<1>5. CASE Raise
  <2>1. StubTypes'
    BY <1>1, <1>5 DEF TypeInv, StubTypes, Raise
  <2>2. PhaseInv'
    BY <1>1, <1>5 DEF TypeInv, PhaseInv, Raise
  <2> QED BY <1>1, <2>1, <2>2 DEF TypeInv
<1> QED BY <1>3, <1>4, <1>5

LEMMA LeavesTypes ==
  ASSUME TypeInv, NEW n \in Lengths, NEW own \in SUBSET Replaceable, Leaves(own, n)
  PROVE  s' \in [Slots -> Variable] /\ heap' \in Heaps
<1> DEFINE Buffer(p) == IF p \in own THEN <<"own", p>> ELSE s[p].ptr
           Written == {p \in OutSlots : VarSized(p)}
<1>1. op \in Operations /\ DOMAIN heap = Objects
  BY HeapDomain DEF TypeInv, OrderInv, OrderTypes
<1>2. /\ s' = [p \in Slots |->
               IF p \notin OutSlots THEN s[p]
               ELSE IF p \in Written THEN [s[p] EXCEPT !.ptr = Buffer(p), !.len = n[p]]
               ELSE [s[p] EXCEPT !.val = Whole(p, "out", n[p])]]
      /\ heap' = [o \in Objects |->
               IF o[2] \in Written /\ o = Buffer(o[2])
               THEN Holding(Whole(o[2], "out", n[o[2]])) ELSE heap[o]]
  BY <1>1 DEF Leaves
<1>3. ASSUME NEW p \in Slots
      PROVE /\ Buffer(p) \in Pointers /\ n[p] \in 0 .. MaxLength /\ Whole(p, "out", n[p]) \in Value
            /\ s[p] \in Variable /\ Holding(Whole(p, "out", n[p])) \in [live : BOOLEAN, val : Value]
  <2>1. <<"own", p>> \in Pointers /\ s[p].ptr \in Pointers
    BY ObjectFacts, PointerType
  <2> QED BY <1>1, <2>1, LengthsType, HeldValue DEF TypeInv, StubTypes
<1> HIDE DEF Buffer, Written
<1>4. ASSUME NEW p \in Slots
      PROVE (IF p \notin OutSlots THEN s[p]
             ELSE IF p \in Written THEN [s[p] EXCEPT !.ptr = Buffer(p), !.len = n[p]]
             ELSE [s[p] EXCEPT !.val = Whole(p, "out", n[p])]) \in Variable
  <2>1. Variable = [ptr : Pointers, len : 0..MaxLength, val : Value]
    BY DEF Variable, Pointers, Objects
  <2> QED BY <1>3, <2>1
<1>5. ASSUME NEW o \in Objects
      PROVE (IF o[2] \in Written /\ o = Buffer(o[2])
             THEN Holding(Whole(o[2], "out", n[o[2]])) ELSE heap[o]) \in [live : BOOLEAN, val : Value]
  <2>1. o[2] \in Slots
    BY DEF Objects
  <2> QED BY <1>3, <2>1, HeapDomain
<1> QED BY <1>2, <1>4, <1>5 DEF Heaps

LEMMA AnswerTypes ==
  ASSUME TypeInv, Answer \/ AnswerLater
  PROVE  TypeInv'
<1>0. UNCHANGED orderVars
  BY DEF Answer, AnswerLater
<1>1. /\ op \in Operations /\ op' = op /\ ops' = ops /\ stage' = stage /\ Replies' = Replies /\ OrderInv'
      /\ Slots' = Slots /\ Variable' = Variable /\ Message' = Message /\ Heaps' = Heaps
      /\ Pointers' = Pointers /\ Value' = Value /\ EmptyMessage' = EmptyMessage
      /\ Len(ops) \in Nat
  BY <1>0, CodeStays
<1>2. \E n \in Lengths, own \in SUBSET Replaceable : Leaves(own, n)
  <2>1. CASE Answer
    BY <2>1 DEF Answer
  <2>2. CASE AnswerLater
    BY <2>2 DEF AnswerLater
  <2> QED BY <2>1, <2>2
<1>3. s' \in [Slots -> Variable] /\ heap' \in Heaps
  BY <1>2, LeavesTypes
<1>4. deferred' \in BOOLEAN /\ server' \in {"marshal", "answered"}
  BY DEF Answer, AnswerLater, TypeInv, StubTypes
<1>5. UNCHANGED <<client, ci, si, c, req, rep, read, misused, ok, given, taken>>
  BY DEF Answer, AnswerLater
<1>6. StubTypes'
  BY <1>1, <1>3, <1>4, <1>5 DEF TypeInv, StubTypes
<1>7. PhaseInv'
  <2>1. server \in {"running", "later"} /\ si = 1
    BY DEF Answer, AnswerLater, TypeInv, PhaseInv
  <2>2. Len(Replies) \in Nat
    BY <1>1, RepliesFacts DEF TypeInv
  <2>3. server' = "marshal" => ~op.oneway
    BY DEF Answer, AnswerLater, TypeInv, PhaseInv
  <2> QED BY <1>1, <1>4, <1>5, <2>1, <2>2, <2>3 DEF TypeInv, PhaseInv
<1> QED BY <1>1, <1>6, <1>7 DEF TypeInv

LEMMA ServerMarshalTypes ==
  ASSUME TypeInv, ServerMarshal
  PROVE  TypeInv'
<1> DEFINE p == Replies[si]
<1>0. UNCHANGED orderVars
  BY DEF ServerMarshal
<1>1. /\ op \in Operations /\ op' = op /\ ops' = ops /\ stage' = stage /\ Replies' = Replies /\ OrderInv'
      /\ Slots' = Slots /\ Variable' = Variable /\ Message' = Message /\ Heaps' = Heaps
      /\ Pointers' = Pointers /\ Value' = Value /\ EmptyMessage' = EmptyMessage
      /\ Len(ops) \in Nat
  BY <1>0, CodeStays
<1>2. /\ p \in Slots /\ si \in 1 .. Len(Replies) /\ Len(Replies) \in Nat /\ Len(Replies) <= Len(ops) + 1
  <2>1. Replies \in Seq(Slots) /\ Len(Replies) \in Nat /\ Len(Replies) <= Len(ops) + 1
    BY <1>1, RepliesFacts DEF TypeInv
  <2>2. si \in 1 .. Len(Replies)
    BY <1>1, <2>1 DEF ServerMarshal, TypeInv, StubTypes
  <2> QED BY <2>1, <2>2
<1>3. /\ \/ ~HasOut(p) /\ UNCHANGED <<rep, heap, misused>>
         \/ HasOut(p) /\ (\/ AnswerWord(p) \/ AnswerThread(p) \/ AnswerMap(p)
                          \/ AnswerString(p) \/ AnswerArray(p) \/ AnswerSequence(p))
      /\ si' = si + 1 /\ server = "marshal"
      /\ UNCHANGED <<orderVars, client, server, ci, c, s, req, read, deferred, ok, given, taken, left>>
  BY DEF ServerMarshal
<1> HIDE DEF p
<1>4. rep \in Message /\ heap \in Heaps /\ misused \subseteq Pointers
  BY DEF TypeInv, StubTypes
<1>5. /\ s[p].ptr \in Pointers /\ s[p].val \in Value /\ Wire(s[p].val) \in Value /\ Junk \in Value
      /\ StrLen(s, p) \in 0 .. MaxLength /\ ServerLength(p) \in 0 .. MaxLength /\ s[p].len \in 0 .. MaxLength
  BY <1>1, <1>2, <1>4, PointerType, WireType, ValueFacts, StrLenType, MaxLengthType DEF ServerLength
<1>6. ASSUME NEW n \in 0 .. MaxLength, AnswerData(p, n)
      PROVE rep' \in Message /\ misused' \subseteq Pointers
  BY <1>1, <1>2, <1>4, <1>5, <1>6, AddDataType DEF AnswerData, Dead
<1>7. rep' \in Message /\ heap' \in Heaps /\ misused' \subseteq Pointers
  <2>1. CASE UNCHANGED <<rep, heap, misused>>
    BY <2>1, <1>4
  <2>2. CASE AnswerWord(p) \/ AnswerThread(p)
    BY <2>2, <1>2, <1>4, <1>5, AddWordType DEF AnswerWord, AnswerThread
  <2>3. CASE AnswerMap(p)
    <3>1. PICK v \in MapToSend(p) : rep' = AddWord(rep, p, v)
      BY <2>3 DEF AnswerMap
    <3>2. v \in Value
      BY <3>1, <1>5 DEF MapToSend
    <3> QED BY <2>3, <3>1, <3>2, <1>2, <1>4, AddWordType DEF AnswerMap
  <2>4. CASE AnswerString(p)
    <3>1. heap' \in Heaps
      <4>1. CASE p = Ret
        <5>1. heap' = [heap EXCEPT ![s[p].ptr].live = FALSE]
          BY <2>4, <4>1 DEF AnswerString
        <5> QED BY <5>1, <1>4 DEF Heaps
      <4>2. CASE p # Ret
        BY <2>4, <4>2, <1>4 DEF AnswerString
      <4> QED BY <4>1, <4>2
    <3> QED BY <2>4, <3>1, <1>5, <1>6 DEF AnswerString
  <2>5. CASE AnswerArray(p)
    BY <2>5, <1>4, <1>5, <1>6 DEF AnswerArray
  <2>6. CASE AnswerSequence(p)
    BY <2>6, <1>4, <1>5, <1>6 DEF AnswerSequence
  <2> QED BY <1>3, <2>1, <2>2, <2>3, <2>4, <2>5, <2>6
<1>8. StubTypes'
  <2>1. si' \in 1 .. Len(ops) + 2
    BY <1>1, <1>2, <1>3
  <2> QED BY <1>1, <1>3, <1>7, <2>1 DEF TypeInv, StubTypes
<1>9. PhaseInv'
  <2>1. si' <= Len(Replies) + 1
    BY <1>2, <1>3
  <2> QED BY <1>1, <1>3, <2>1 DEF TypeInv, PhaseInv
<1> QED BY <1>1, <1>8, <1>9 DEF TypeInv

LEMMA ReplyTypes ==
  ASSUME TypeInv, Reply
  PROVE  TypeInv'
<1>0. UNCHANGED orderVars
  BY DEF Reply
<1>1. /\ op \in Operations /\ op' = op /\ ops' = ops /\ stage' = stage /\ Replies' = Replies /\ OrderInv'
      /\ Slots' = Slots /\ Variable' = Variable /\ Message' = Message /\ Heaps' = Heaps
      /\ Pointers' = Pointers /\ Value' = Value /\ EmptyMessage' = EmptyMessage
      /\ Len(ops) \in Nat
  BY <1>0, CodeStays
<1>2. /\ server = "marshal" /\ server' = "answered"
      /\ UNCHANGED <<orderVars, ci, si, c, s, req, rep, read, deferred, ok, given, taken, left>>
  BY DEF Reply
<1>3. rep \in Message /\ heap \in Heaps /\ DOMAIN heap = Objects /\ misused \subseteq Pointers
  BY HeapDomain DEF TypeInv, StubTypes
<1>4. CASE UNCHANGED <<client, heap, misused>>
  <2>1. StubTypes'
    BY <1>1, <1>2, <1>4 DEF TypeInv, StubTypes
  <2>2. PhaseInv'
    BY <1>1, <1>2, <1>4 DEF TypeInv, PhaseInv
  <2> QED BY <1>1, <2>1, <2>2 DEF TypeInv
<1>5. CASE client = "waiting"
  <2>1. misused' \subseteq Pointers
    <3>1. \A p \in Items("out") : rep.ptr[p] \in Pointers /\ Landing(p) \in Pointers
      <4>1. ASSUME NEW p \in Items("out") PROVE rep.ptr[p] \in Pointers /\ Landing(p) \in Pointers
        <5>1. p \in Slots
          BY DEF Items
        <5>2. rep.ptr[p] \in Pointers
          BY <5>1, <1>3 DEF Message, Pointers, Objects
        <5>3. Landing(p) \in Pointers
          BY <5>1, PointerType, ObjectFacts DEF Landing
        <5> QED BY <5>2, <5>3
      <4> QED BY <4>1
    <3>2. misused' = misused \cup Dead({rep.ptr[p] : p \in Items("out")}
                                       \cup {Landing(p) : p \in Items("out")})
      BY <1>5 DEF Reply
    <3> QED BY <3>1, <3>2, <1>3 DEF Dead
  <2>2. \/ client' = "failed" /\ UNCHANGED heap
        \/ client' = "unmarshal" /\
           heap' = [o \in Objects |->
                       IF o[2] \in Items("out") /\ o = Landing(o[2])
                       THEN [heap[o] EXCEPT !.val = Cut(Content(rep.ptr[o[2]]), rep.len[o[2]])]
                       ELSE heap[o]]
    BY <1>3, <1>5 DEF Reply
  <2>3. heap' \in Heaps
    <3>1. ASSUME NEW o \in Objects
          PROVE (IF o[2] \in Items("out") /\ o = Landing(o[2])
                       THEN [heap[o] EXCEPT !.val = Cut(Content(rep.ptr[o[2]]), rep.len[o[2]])]
                       ELSE heap[o]) \in [live : BOOLEAN, val : Value]
      <4>1. o[2] \in Slots /\ heap[o] \in [live : BOOLEAN, val : Value]
        BY HeapDomain DEF Objects
      <4>2. rep.len[o[2]] \in 0 .. MaxLength
        BY <4>1, <1>3 DEF Message
      <4>3. Cut(Content(rep.ptr[o[2]]), rep.len[o[2]]) \in Value
        BY <1>1, <1>3, <4>2, ContentType, CutType
      <4> QED BY <4>1, <4>3
    <3> QED BY <2>2, <3>1, <1>3 DEF Heaps
  <2>4. StubTypes'
    BY <1>1, <1>2, <2>1, <2>2, <2>3 DEF TypeInv, StubTypes
  <2>5. PhaseInv'
    BY <1>1, <1>2, <1>5, <2>2 DEF TypeInv, PhaseInv
  <2> QED BY <1>1, <2>4, <2>5 DEF TypeInv
<1>6. CASE client # "waiting"
  BY <1>4, <1>6 DEF Reply
<1> QED BY <1>5, <1>6

(* While the code is generated, no stub runs.                              *)
LEMMA OrderTypesKept ==
  ASSUME TypeInv, OrderNext, UNCHANGED stubVars
  PROVE  TypeInv'
<1>1. op' = op /\ OrderInv' /\ op \in Operations
  BY OrderStep DEF OrderNext, Visit, EndPass, Marshal, Generate, TypeInv, OrderInv, OrderTypes
<1>2. /\ Slots' = Slots /\ Variable' = Variable /\ Message' = Message /\ Heaps' = Heaps
      /\ Pointers' = Pointers /\ Value' = Value /\ EmptyMessage' = EmptyMessage
  BY <1>1, SameSlots
<1>3. stage \in {"commit", "marshal"} /\ (Len(ops') = Len(ops) \/ Len(ops') = Len(ops) + 1)
  <2>1. ops \in Seq(Params)
    BY DEF TypeInv, OrderInv, OrderTypes
  <2>2. ops' = ops \/ ops' = Append(ops, NextParam)
    BY DEF OrderNext, Visit, EndPass, Marshal, Generate
  <2> QED BY <2>1, <2>2 DEF OrderNext, Visit, EndPass, Marshal, Generate
<1>4. client = "start" /\ server = "idle" /\ ci = 1 /\ si = 1 /\ ~ok /\ read.s = 0 /\ read.c = 0
  <2>1. client = "start"
    BY <1>3 DEF TypeInv, PhaseInv
  <2> QED BY <2>1 DEF TypeInv, PhaseInv
<1>5. Len(ops) \in Nat /\ Len(ops') \in Nat
  <2>1. Len(ops) \in Nat
    BY RepliesFacts DEF TypeInv
  <2> QED BY <2>1, <1>3
<1>6. ci' \in 1 .. Len(ops') + 1 /\ si' \in 1 .. Len(ops') + 2
  BY <1>4, <1>5 DEF stubVars
<1>7. StubTypes'
  BY <1>2, <1>6 DEF TypeInv, StubTypes, stubVars
<1>8. PhaseInv'
  BY <1>2, <1>4, <1>5 DEF TypeInv, PhaseInv, stubVars
<1> QED BY <1>1, <1>7, <1>8 DEF TypeInv

LEMMA TypesStay ==
  ASSUME TypeInv, UNCHANGED vars
  PROVE  TypeInv'
<1>1. UNCHANGED orderVars /\ UNCHANGED stubVars
  BY DEF vars
<1>2. /\ op' = op /\ ops' = ops /\ stage' = stage /\ Replies' = Replies /\ OrderInv'
      /\ Slots' = Slots /\ Variable' = Variable /\ Message' = Message /\ Heaps' = Heaps
      /\ Pointers' = Pointers /\ Value' = Value /\ EmptyMessage' = EmptyMessage
  BY <1>1, CodeStays
<1>3. StubTypes'
  BY <1>1, <1>2 DEF TypeInv, StubTypes, stubVars
<1>4. PhaseInv'
  BY <1>1, <1>2 DEF TypeInv, PhaseInv, stubVars
<1> QED BY <1>2, <1>3, <1>4 DEF TypeInv

LEMMA TypeInvStep == TypeInv /\ [Next]_vars => TypeInv'
<1> SUFFICES ASSUME TypeInv, [Next]_vars PROVE TypeInv'
  OBVIOUS
<1>1. CASE OrderNext /\ UNCHANGED stubVars
  BY <1>1, OrderTypesKept
<1>2. CASE ClientNext
  BY <1>2, StartTypes, ClientMarshalTypes, CallTypes, FailTypes, ClientUnmarshalTypes, FinishTypes,
     ReturnTypes DEF ClientNext
<1>3. CASE ServerNext
  BY <1>3, ServerUnmarshalTypes, InvokeTypes, AnswerTypes, ServerMarshalTypes, ReplyTypes DEF ServerNext
<1>4. CASE UNCHANGED vars
  BY <1>4, TypesStay
<1> QED BY <1>1, <1>2, <1>3, <1>4 DEF Next, OrderNext

-----------------------------------------------------------------------------
(* What is counted is bounded by the number of parameters.                 *)

(* The cursors stay within the list.                                       *)
CursorInv == cursor <= Len(op.params)

LEMMA LastBounded ==
  ASSUME OrderInv
  PROVE  last \in 0 .. Len(op.params) /\ Len(op.params) \in Nat
<1>1. Len(op.params) \in Nat /\ last \in Nat
  BY ParamsAreNumbers DEF OrderInv, OrderTypes
<1>2. IsFiniteSet(Params) /\ Cardinality(Params) = Len(op.params)
  BY <1>1, UpToCardinality DEF Params
<1>3. IsFiniteSet(1 .. last) /\ Cardinality(1 .. last) = last
  BY <1>1, UpToCardinality
<1> DEFINE f == [k \in 1 .. last |-> CHOOSE p \in Params : priority[p] = k]
<1>4. ASSUME NEW k \in 1 .. last
      PROVE f[k] \in Params /\ priority[f[k]] = k
  <2>1. \E p \in Params : priority[p] = k
    BY DEF OrderInv, PrioritiesOrdered
  <2> QED BY <2>1
<1> HIDE DEF f
<1>5. \A k, l \in 1 .. last : f[k] = f[l] => k = l
  BY <1>4
<1>6. f \in [1 .. last -> Params]
  BY <1>4 DEF f
<1>7. ~ Len(op.params) < last
  <2> SUFFICES ASSUME Len(op.params) < last PROVE FALSE
    OBVIOUS
  <2>1. \E k, l \in 1 .. last : k # l /\ f[k] = f[l]
    BY <1>2, <1>3, <1>6, FS_PigeonHole
  <2> QED BY <1>5, <2>1
<1> QED BY <1>1, <1>7

LEMMA OpsBounded ==
  ASSUME OrderInv, stage = "generated"
  PROVE  Len(ops) <= Len(op.params) /\ Len(ops) \in Nat
<1>1. Len(op.params) \in Nat /\ ops \in Seq(Params) /\ Len(ops) \in Nat
  BY ParamsAreNumbers DEF OrderInv, OrderTypes
<1>2. IsFiniteSet(Params) /\ Cardinality(Params) = Len(op.params)
  BY <1>1, UpToCardinality DEF Params
<1>3. IsFiniteSet(1 .. Len(ops)) /\ Cardinality(1 .. Len(ops)) = Len(ops)
  BY <1>1, UpToCardinality
<1>4. ops \in [1 .. Len(ops) -> Params] /\ DOMAIN ops = 1 .. Len(ops)
  BY <1>1
<1>5. \A i, j \in 1 .. Len(ops) : ops[i] = ops[j] => i = j
  BY <1>4 DEF OrderInv, MarshalKnows
<1>6. ~ Len(op.params) < Len(ops)
  <2> SUFFICES ASSUME Len(op.params) < Len(ops) PROVE FALSE
    OBVIOUS
  <2>1. \E k, l \in 1 .. Len(ops) : k # l /\ ops[k] = ops[l]
    BY <1>2, <1>3, <1>4, FS_PigeonHole
  <2> QED BY <1>5, <2>1
<1> QED BY <1>1, <1>6

LEMMA CursorStep ==
  ASSUME OrderInv, CursorInv, [OrderNext]_orderVars
  PROVE  CursorInv'
<1>1. cursor \in Nat /\ Len(op.params) \in Nat /\ last <= Len(op.params)
  BY LastBounded DEF OrderInv, OrderTypes
<1>2. op' = op
  BY DEF OrderNext, Visit, EndPass, Marshal, Generate, orderVars
<1>3. cursor' \in {cursor, cursor - 1, Len(op.params), last}
  BY DEF OrderNext, Visit, EndPass, Marshal, Generate, orderVars
<1> QED BY <1>1, <1>2, <1>3 DEF CursorInv

LEMMA TypesSuffice ==
  ASSUME TypeInv, CursorInv
  PROVE  TypeOK
<1>1. /\ op \in Operations /\ op.params \in Seq(Parameter) /\ Len(op.params) \in Nat
      /\ last \in 0 .. Len(op.params)
  BY LastBounded, ParamsAreNumbers DEF TypeInv, OrderInv, OrderTypes
<1>2. cursor \in 0 .. Len(op.params)
  BY <1>1 DEF TypeInv, CursorInv, OrderInv, OrderTypes
<1>3. priority \in [Params -> 0 .. last]
  <2>1. \A p \in Params : priority[p] \in Nat /\ priority[p] <= last
    BY DEF TypeInv, OrderInv, OrderTypes, PrioritiesOrdered
  <2>2. \A p \in Params : priority[p] \in 0 .. last
    BY <1>1, <2>1
  <2> QED BY <2>2 DEF TypeInv, OrderInv, OrderTypes
<1>4. read \in [{"c", "s"} -> 0 .. Cardinality(Slots)]
  <2>1. Cardinality(Slots) = (IF op.ret = "void" THEN Len(op.params) ELSE Len(op.params) + 1)
    BY <1>1, SlotFacts
  <2>2. read \in [{"c", "s"} -> Nat] /\ read.c \in Nat /\ read.s \in Nat
    BY DEF TypeInv, StubTypes
  <2>3. Len(Replies) = (IF op.ret = "void" THEN Len(ops) ELSE Len(ops) + 1) /\ Len(ops) \in Nat
    BY RepliesFacts DEF TypeInv
  <2>4. read.c <= Cardinality(Slots) /\ read.s <= Cardinality(Slots)
    <3>1. CASE client = "start"
      <4>1. read.c = 0 /\ read.s = 0
        BY <3>1 DEF TypeInv, PhaseInv
      <4> QED BY <1>1, <2>1, <4>1
    <3>2. CASE client # "start"
      <4>1. Len(ops) <= Len(op.params)
        BY <3>2, OpsBounded DEF TypeInv, PhaseInv
      <4>2. read.s <= Len(ops)
        BY DEF TypeInv, PhaseInv
      <4>3. read.c <= Len(Replies)
        <5>1. CASE client \in {"marshal", "waiting", "failed"}
          BY <2>3, <5>1 DEF TypeInv, PhaseInv
        <5>2. CASE client = "unmarshal"
          BY <2>2, <2>3, <5>2 DEF TypeInv, PhaseInv, StubTypes
        <5>3. CASE client \in {"return", "done"}
          BY <2>2, <2>3, <5>3 DEF TypeInv, PhaseInv
        <5> QED BY <3>2, <5>1, <5>2, <5>3 DEF TypeInv, StubTypes
      <4> QED BY <1>1, <2>1, <2>2, <2>3, <4>1, <4>2, <4>3
    <3> QED BY <3>1, <3>2
  <2>5. read.c \in 0 .. Cardinality(Slots) /\ read.s \in 0 .. Cardinality(Slots)
    BY <1>1, <2>1, <2>2, <2>4
  <2> QED BY <2>2, <2>5
<1>5. /\ heap \in [Roles \X Slots -> [live : BOOLEAN, val : Value]]
      /\ misused \subseteq {None} \cup Roles \X Slots
  BY DEF TypeInv, StubTypes, Heaps, Objects, Pointers
<1>6. /\ stage \in {"commit", "circular", "undefined", "marshal", "shared", "generated"}
      /\ progress \in BOOLEAN /\ more \in BOOLEAN
      /\ marshalled \subseteq Params /\ ops \in Seq(Params)
  BY DEF TypeInv, OrderInv, OrderTypes
<1> QED BY <1>1, <1>2, <1>3, <1>4, <1>5, <1>6 DEF TypeInv, StubTypes, TypeOK

(* Neither the generator nor the stubs it generates run past the end of a  *)
(* list or read more pieces than the message was given room for, whatever  *)
(* operation they are generated for (dependencies.cc 59-96, be/operation.cc*)
(* and the marshalling operations).                                        *)
THEOREM StubsTypeCorrect == Spec => []TypeOK
<1>1. StubInit => TypeInv /\ CursorInv
  <2>1. StubInit => CursorInv
    BY ParamsAreNumbers DEF StubInit, Init, CursorInv
  <2> QED BY <2>1, InitTypes
<1>2. TypeInv /\ CursorInv /\ [Next]_vars => TypeInv' /\ CursorInv'
  <2> SUFFICES ASSUME TypeInv, CursorInv, [Next]_vars PROVE TypeInv' /\ CursorInv'
    OBVIOUS
  <2>1. [OrderNext]_orderVars
    BY DEF Next, vars, OrderNext, ClientNext, ServerNext, Start, ClientMarshal, Call, CallFails,
       ClientUnmarshal, Finish, SkipUnmarshal, Return, ServerUnmarshal, Invoke, Answer, Raise, Defer,
       AnswerLater, ServerMarshal, Reply
  <2> QED BY <2>1, TypeInvStep, CursorStep DEF TypeInv
<1>3. TypeInv /\ CursorInv => TypeOK
  BY TypesSuffice
<1> QED BY <1>1, <1>2, <1>3, PTL DEF Spec

(* What Supported and the order of the operations say of a slot.           *)

LEMMA SupportedKinds ==
  ASSUME op \in Operations, Supported(op), NEW p \in Params
  PROVE  /\ Kind(p) = "map" => ~(HasIn(p) /\ HasOut(p))
         /\ Kind(p) = "string" => UseMalloc(p)
         /\ Kind(p) = "array" => IsArray(p) /\ (~UseMalloc(p) => ~(HasIn(p) /\ HasOut(p)))
         /\ \A dir : <<p, dir>> \in op.inline /\ VarSized(p) => Kind(p) = "string"
         /\ op.oneway => ~HasOut(p)
<1>1. p \in DOMAIN op.params /\ p # Ret /\ Param(p) \in Parameter /\ Params = DOMAIN op.params
  <2>1. op.params \in Seq(Parameter) /\ Len(op.params) \in Nat
    BY ParamsAreNumbers
  <2> QED BY <2>1, SlotFacts DEF Param, Params
<1>2. Param(p).kind \in Kinds /\ Param(p).direction \in {"in", "out", "inout"}
      /\ Param(p).noxfer \in BOOLEAN /\ Param(p).prealloc \in BOOLEAN
  BY <1>1 DEF Parameter, Directions
<1>3. Kind(p) = IF Param(p).noxfer THEN "alloc" ELSE IF IsArray(p) THEN "array" ELSE Param(p).kind
  BY <1>1 DEF Kind
<1>4. IsArray(p) <=> Param(p).kind = "string" /\ Param(p).length # 0 /\ ~Param(p).noxfer
  BY DEF IsArray
<1>5. /\ Param(p).direction = "inout" =>
           Param(p).kind # "map" /\ ~(Param(p).kind = "string" /\ Param(p).length # 0 /\ Param(p).prealloc)
      /\ Param(p).kind = "string" /\ Param(p).length # 0 => op.inline \cap {<<p, "in">>, <<p, "out">>} = {}
      /\ Param(p).kind = "string" /\ ~(Param(p).kind = "string" /\ Param(p).length # 0) => ~Param(p).prealloc
      /\ op.oneway => Param(p).direction = "in"
  BY <1>1 DEF Supported, Param
<1>6. (HasIn(p) => Param(p).direction \in {"in", "inout"}) /\ (HasOut(p) => Param(p).direction \in {"out", "inout"})
  BY <1>1 DEF HasIn, HasOut
<1>7. UseMalloc(p) <=> ~Param(p).prealloc
  BY <1>1 DEF UseMalloc
<1>8. Kind(p) = "map" => ~(HasIn(p) /\ HasOut(p))
  BY <1>2, <1>3, <1>5, <1>6
<1>9. Kind(p) = "string" => UseMalloc(p)
  BY <1>2, <1>3, <1>4, <1>5, <1>7
<1>10. Kind(p) = "array" => IsArray(p)
  BY <1>2, <1>3 DEF Kinds
<1>11. Kind(p) = "array" => (~UseMalloc(p) => ~(HasIn(p) /\ HasOut(p)))
  BY <1>2, <1>4, <1>5, <1>6, <1>7, <1>10
<1>12. op.oneway => ~HasOut(p)
  BY <1>2, <1>5, <1>6
<1>13. ASSUME NEW dir, <<p, dir>> \in op.inline, VarSized(p)
       PROVE Kind(p) = "string"
  <2> DEFINE i == <<p, dir>>
  <2>1. i[1] = p /\ i[2] = dir
    OBVIOUS
  <2>2. \/ i = <<Len(op.params) + 1, "out">> /\ op.ret = "string"
        \/ /\ i[1] \in 1..Len(op.params) /\ i[2] \in {"in", "out"}
           /\ op.params[i[1]].kind = "string"
           /\ op.params[i[1]].direction \in {i[2], "inout"}
    BY <1>13, OperationsComplete
  <2>3. p # Len(op.params) + 1
    BY <1>1 DEF Ret
  <2>4. dir \in {"in", "out"} /\ Param(p).kind = "string"
    BY <2>1, <2>2, <2>3 DEF Param
  <2>5. ~(Param(p).kind = "string" /\ Param(p).length # 0)
    BY <1>13, <1>5, <2>4
  <2> QED BY <1>2, <1>3, <1>4, <2>4, <2>5, <1>13 DEF VarSized
<1> QED BY <1>8, <1>9, <1>10, <1>11, <1>12, <1>13

(* What travels in the variable part.                                      *)
Carries(p, dir) == VarSized(p) /\ <<p, dir>> \in op.inline

LEMMA CarriesFacts ==
  ASSUME op \in Operations, Supported(op), NEW p \in Slots
  PROVE  /\ Carries(p, "in") => Kind(p) = "string" /\ HasIn(p) /\ p \in Params
         /\ Carries(p, "out") => Kind(p) = "string" /\ HasOut(p)
         /\ p = Ret /\ VarSized(p) => Kind(p) = "string" /\ Carries(p, "out")
         /\ p \in Items("in") => VarSized(p) /\ HasIn(p) /\ p \in Params /\ ~Carries(p, "in")
         /\ p \in Items("out") => VarSized(p) /\ HasOut(p) /\ p \in Params /\ ~Carries(p, "out")
         /\ VarSized(p) /\ HasIn(p) /\ ~Carries(p, "in") => p \in Items("in")
         /\ VarSized(p) /\ HasOut(p) /\ ~Carries(p, "out") => p \in Items("out")
         /\ op.oneway => ~HasOut(p)
<1>0. op.ret \in {"void", "word", "string"} /\ Ret \notin Params /\ (p \in Params \/ p = Ret)
      /\ (Ret \in Slots <=> op.ret # "void") /\ Ret = Len(op.params) + 1 /\ Params = 1 .. Len(op.params)
  BY SlotFacts
<1>1. ASSUME p = Ret, VarSized(p)
      PROVE Kind(p) = "string" /\ Carries(p, "out")
  <2>1. Kind(p) = op.ret
    BY <1>1 DEF Kind
  <2>2. op.ret = "string"
    BY <1>0, <1>1, <2>1 DEF VarSized
  <2>3. <<Ret, "out">> \in op.inline
    BY <1>0, <2>2 DEF Supported
  <2> QED BY <1>1, <2>1, <2>2, <2>3 DEF Carries
<1>2. ASSUME NEW dir \in {"in", "out"}, Carries(p, dir), p \in Params
      PROVE Kind(p) = "string" /\ IF dir = "in" THEN HasIn(p) ELSE HasOut(p)
  <2>1. Kind(p) = "string"
    BY <1>2, SupportedKinds DEF Carries
  <2> DEFINE i == <<p, dir>>
  <2>2. i[1] = p /\ i[2] = dir
    OBVIOUS
  <2>3. \/ i = <<Len(op.params) + 1, "out">> /\ op.ret = "string"
        \/ /\ i[1] \in 1..Len(op.params) /\ i[2] \in {"in", "out"}
           /\ op.params[i[1]].kind = "string"
           /\ op.params[i[1]].direction \in {i[2], "inout"}
    BY <1>2, OperationsComplete DEF Carries
  <2>4. p # Len(op.params) + 1
    BY <1>0, <1>2
  <2>5. Param(p).direction \in {dir, "inout"}
    BY <2>2, <2>3, <2>4 DEF Param
  <2>6. p # Ret /\ Kind(p) # "alloc"
    BY <1>0, <1>2, <2>1
  <2> QED BY <2>1, <2>5, <2>6 DEF HasIn, HasOut
<1>3. p = Ret => ~Carries(p, "in")
  <2> SUFFICES ASSUME p = Ret, <<p, "in">> \in op.inline PROVE FALSE
    BY DEF Carries
  <2> DEFINE i == <<p, "in">>
  <2>1. i[1] = p /\ i[2] = "in"
    OBVIOUS
  <2>2. \/ i = <<Len(op.params) + 1, "out">> /\ op.ret = "string"
        \/ i[1] \in 1..Len(op.params)
    BY OperationsComplete
  <2> QED BY <1>0, <2>1, <2>2
<1>4. HasIn(p) => p \in Params
  BY KindFacts
<1>5. p = Ret => HasOut(p)
  BY DEF HasOut
<1>6. /\ p \in Items("in") <=> VarSized(p) /\ HasIn(p) /\ <<p, "in">> \notin op.inline
      /\ p \in Items("out") <=> VarSized(p) /\ HasOut(p) /\ <<p, "out">> \notin op.inline
  BY DEF Items
<1>7. op.oneway => ~HasOut(p)
  <2>1. op.oneway => p \in Params
    BY <1>0 DEF Supported
  <2> QED BY <2>1, SupportedKinds
<1> QED BY <1>0, <1>1, <1>2, <1>3, <1>4, <1>5, <1>6, <1>7 DEF Carries

(* Lengths travel as their arrays do.                                      *)
LEMMA ClaimedFacts ==
  ASSUME op \in Operations, Supported(op), NEW p \in Slots
  PROVE  /\ Claimed(p) => /\ p \in Params /\ Kind(p) = "word" /\ ~VarSized(p)
                          /\ ArrayOf(p) \in Params /\ ArrayOf(p) \in Slots /\ LengthOf(ArrayOf(p)) = {p}
                          /\ Kind(ArrayOf(p)) = "array" /\ ~Claimed(ArrayOf(p))
                          /\ (HasIn(p) <=> HasIn(ArrayOf(p))) /\ (HasOut(p) <=> HasOut(ArrayOf(p)))
         /\ LengthOf(p) # {} => /\ Kind(p) = "array" /\ TheLength(p) \in Params /\ TheLength(p) \in Slots
                                /\ LengthOf(p) = {TheLength(p)} /\ Claimed(TheLength(p))
                                /\ TheLength(p) # p
<1>1. ASSUME NEW a \in Params, LengthOf(a) # {}
      PROVE /\ LengthOf(a) = {TheLength(a)} /\ TheLength(a) \in Params /\ Claimed(TheLength(a))
            /\ Kind(a) = "array" /\ Kind(TheLength(a)) = "word"
            /\ (HasIn(TheLength(a)) <=> HasIn(a)) /\ (HasOut(TheLength(a)) <=> HasOut(a))
  <2> DEFINE q == TheLength(a)
  <2>1. LengthOf(a) = {q} /\ q \in Params /\ IsArray(a)
    BY <1>1, LengthFacts
  <2>2. q \in DependsOn(a)
    BY <2>1 DEF LengthOf
  <2>3. q = Param(a).length /\ Scalar(q)
    BY <2>2 DEF DependsOn, Resolves
  <2>4. Param(q).kind = "word" /\ Param(a).length = q
    BY <2>3 DEF Scalar
  <2>5. a \in DOMAIN op.params /\ q \in DOMAIN op.params /\ q # Ret /\ a # Ret
    <3>1. op.params \in Seq(Parameter) /\ Len(op.params) \in Nat
      BY ParamsAreNumbers
    <3> QED BY <2>1, <3>1, SlotFacts DEF Params
  <2>6. Param(a).kind = "string" /\ Param(a).length # 0 /\ ~Param(a).noxfer
    BY <2>1 DEF IsArray
  <2>7. Param(q).direction = Param(a).direction /\ ~Param(q).noxfer
    BY <2>4, <2>5, <2>6 DEF Supported, Param
  <2>8. ~IsArray(q)
    BY <2>4 DEF IsArray
  <2>9. Kind(q) = "word" /\ Kind(a) = "array"
    BY <2>1, <2>4, <2>5, <2>6, <2>7, <2>8 DEF Kind
  <2>10. (HasIn(q) <=> HasIn(a)) /\ (HasOut(q) <=> HasOut(a))
    BY <2>5, <2>7, <2>9 DEF HasIn, HasOut
  <2>11. Claimed(q)
    BY <2>1 DEF Claimed
  <2> QED BY <2>1, <2>9, <2>10, <2>11
<1>2. \A q \in Params : q \in Slots
  BY SlotFacts
<1>3. ASSUME Claimed(p)
      PROVE /\ p \in Params /\ Kind(p) = "word" /\ ~VarSized(p)
            /\ ArrayOf(p) \in Params /\ LengthOf(ArrayOf(p)) = {p}
            /\ Kind(ArrayOf(p)) = "array" /\ ~Claimed(ArrayOf(p))
            /\ (HasIn(p) <=> HasIn(ArrayOf(p))) /\ (HasOut(p) <=> HasOut(ArrayOf(p)))
  <2>1. ArrayOf(p) \in Params /\ LengthOf(ArrayOf(p)) = {p}
    BY <1>3 DEF Claimed, ArrayOf
  <2>2. TheLength(ArrayOf(p)) = p
    BY <2>1, <1>1
  <2>3. ASSUME Claimed(ArrayOf(p)) PROVE FALSE
    <3>1. PICK b \in Params : LengthOf(b) = {ArrayOf(p)}
      BY <2>3 DEF Claimed
    <3>2. TheLength(b) = ArrayOf(p) /\ Kind(TheLength(b)) = "word"
      BY <3>1, <1>1
    <3>3. Kind(ArrayOf(p)) = "array"
      BY <1>1, <2>1
    <3> QED BY <3>2, <3>3
  <2> QED BY <1>1, <2>1, <2>2, <2>3 DEF VarSized
<1>4. ASSUME LengthOf(p) # {}
      PROVE /\ p \in Params /\ Kind(p) = "array" /\ TheLength(p) \in Params
            /\ LengthOf(p) = {TheLength(p)} /\ Claimed(TheLength(p)) /\ TheLength(p) # p
  <2>1. p \in Params
    BY <1>4, LengthFacts
  <2> QED BY <1>1, <1>4, <2>1
<1> QED BY <1>2, <1>3, <1>4

(* What OrderInv says of an operation for which code was generated.        *)
LEMMA GeneratedFacts ==
  ASSUME OrderInv, stage = "generated"
  PROVE  /\ \A i, j \in 1 .. Len(ops) : ops[i] = ops[j] => i = j
         /\ \A i \in 1 .. Len(ops) : ~Claimed(ops[i]) /\ ops[i] \in Params /\ ops[i] \in Slots
         /\ \A p \in Params : Claimed(p) \/ \E i \in 1 .. Len(ops) : ops[i] = p
         /\ \A a, b, p \in Params : LengthOf(a) = {p} /\ LengthOf(b) = {p} => a = b
         /\ DOMAIN ops = 1 .. Len(ops) /\ Len(ops) \in Nat
<1>1. ops \in Seq(Params) /\ cursor = 0 /\ Len(ops) \in Nat /\ DOMAIN ops = 1 .. Len(ops)
  <2>1. ops \in Seq(Params) /\ cursor = 0
    BY DEF OrderInv, OrderTypes, MarshalKnows
  <2> QED BY <2>1
<1>2. \A p \in Params : Through(p)
  BY <1>1 DEF OrderInv, OrderTypes, MarshalKnows, Through
<1>3. \A p : Claimed(p) <=> \E a \in Params : ClaimedBy(p, a)
  BY DEF Claimed, ClaimedBy
<1>4. \A i, j \in 1 .. Len(ops) : ops[i] = ops[j] => i = j
  BY <1>1 DEF OrderInv, MarshalKnows
<1>5. \A i \in 1 .. Len(ops) : ~Claimed(ops[i])
  BY <1>1, <1>3 DEF OrderInv, MarshalKnows
<1>6. \A i \in 1 .. Len(ops) : ops[i] \in Params /\ ops[i] \in Slots
  BY RepliesFacts
<1>7. \A p \in Params : Claimed(p) \/ \E i \in 1 .. Len(ops) : ops[i] = p
  BY <1>1, <1>2, <1>3 DEF OrderInv, MarshalKnows
<1>8. \A a, b, p \in Params : LengthOf(a) = {p} /\ LengthOf(b) = {p} => a = b
  BY <1>2 DEF OrderInv, MarshalKnows, ClaimedBy
<1> QED BY <1>1, <1>4, <1>5, <1>6, <1>7, <1>8

(* An array is the array of its length.                                    *)
LEMMA ArrayOfLength ==
  ASSUME OrderInv, stage = "generated", Supported(op), NEW p \in Slots, LengthOf(p) # {}
  PROVE  ArrayOf(TheLength(p)) = p
<1>1. op \in Operations
  BY DEF OrderInv, OrderTypes
<1>2. p \in Params /\ TheLength(p) \in Params /\ LengthOf(p) = {TheLength(p)} /\ Claimed(TheLength(p))
  BY <1>1, LengthFacts, ClaimedFacts
<1>3. TheLength(p) \in Slots
  BY <1>1, <1>2, SlotFacts
<1>4. ArrayOf(TheLength(p)) \in Params /\ LengthOf(ArrayOf(TheLength(p))) = {TheLength(p)}
  BY <1>1, <1>2, <1>3, ClaimedFacts
<1> QED BY <1>2, <1>4, GeneratedFacts

-----------------------------------------------------------------------------
(* The pieces of a message's variable part, in the order of a list.        *)
Pieces(list, i, dir) == {j \in 1 .. i - 1 : j \in DOMAIN list /\ Carries(list[j], dir)}
Before(list, i, dir) == Cardinality(Pieces(list, i, dir))

LEMMA BeforeFacts ==
  ASSUME NEW list, NEW i \in Nat, i >= 1, NEW dir
  PROVE  /\ Before(list, i, dir) \in Nat
         /\ Before(list, 1, dir) = 0
         /\ Before(list, i + 1, dir) = IF i \in DOMAIN list /\ Carries(list[i], dir)
                                       THEN Before(list, i, dir) + 1 ELSE Before(list, i, dir)
<1>1. IsFiniteSet(1 .. i - 1)
  BY UpToCardinality
<1>2. IsFiniteSet(Pieces(list, i, dir)) /\ Cardinality(Pieces(list, i, dir)) \in Nat
  <2>1. Pieces(list, i, dir) \in SUBSET (1 .. i - 1)
    BY DEF Pieces
  <2>2. IsFiniteSet(Pieces(list, i, dir))
    BY <1>1, <2>1, FS_Subset
  <2> QED BY <2>2, FS_CardinalityType
<1>3. Before(list, 1, dir) = 0
  <2>1. Pieces(list, 1, dir) = {}
    BY DEF Pieces
  <2> QED BY <2>1, FS_EmptySet DEF Before
<1>4. CASE i \in DOMAIN list /\ Carries(list[i], dir)
  <2>1. Pieces(list, i + 1, dir) = Pieces(list, i, dir) \cup {i} /\ i \notin Pieces(list, i, dir)
    BY <1>4 DEF Pieces
  <2>2. Cardinality(Pieces(list, i + 1, dir)) = Cardinality(Pieces(list, i, dir)) + 1
    BY <1>2, <2>1, FS_AddElement
  <2> QED BY <1>2, <1>3, <1>4, <2>2 DEF Before
<1>5. CASE ~(i \in DOMAIN list /\ Carries(list[i], dir))
  <2>1. Pieces(list, i + 1, dir) = Pieces(list, i, dir)
    BY <1>5 DEF Pieces
  <2> QED BY <1>2, <1>3, <1>5, <2>1 DEF Before
<1> QED BY <1>4, <1>5

LEMMA BeforeFirst ==
  ASSUME NEW list, NEW dir
  PROVE  Before(list, 1, dir) = 0
<1>1. 1 \in Nat /\ 1 >= 1
  OBVIOUS
<1> QED BY <1>1, BeforeFacts

-----------------------------------------------------------------------------
(* The invariant of a call.                                                *)

(* The two sides do not share memory.                                      *)
ClientSide(o) == o[1] \in {"caller", "frame", "alloc"}
SidesInv ==
  \A p \in Slots :
    /\ c[p].ptr \in {None, <<"caller", p>>, <<"alloc", p>>}
    /\ s[p].ptr \in {None, <<"message", p>>, <<"pool", p>>, <<"own", p>>}

(* Values that were put into slots: those of lengths are the lengths.      *)
WellFormed(values, slots) ==
  \A p \in slots :
    /\ values[p] \in Value /\ ~values[p].wire
    /\ Claimed(p) => ArrayOf(p) \in slots /\ values[p] = Length(values[ArrayOf(p)].n)
    /\ Kind(p) = "array" /\ LengthOf(p) = {} => values[p].n = MaxLength

GivenInv ==
  /\ WellFormed(given, InSlots)
  /\ \A p \in Slots : ~HasIn(p) /\ ~Claimed(p) => given[p] = Junk

(* The caller's variables are as he set them, except those for outputs that *)
(* the stub has stored.                                                    *)
CallerKept(p) ==
  /\ ~VarSized(p) => c[p].val = given[p]
  /\ VarSized(p) => c[p].ptr = IF Brings(p) THEN <<"caller", p>> ELSE None
  /\ Kind(p) = "sequence" /\ HasIn(p) => c[p].len = given[p].n
  /\ Brings(p) => heap[<<"caller", p>>].live

Taking == client = "unmarshal" \/ ok
Behind(p) == \E i \in DOMAIN ops : i < ci /\ (ops[i] = p \/ LengthOf(ops[i]) = {p})

CallerInv ==
  \A p \in Params :
    /\ ~(Taking /\ HasOut(p) /\ Behind(p)) => CallerKept(p)
    /\ Brings(p) /\ ~(Taking /\ HasOut(p)) => heap[<<"caller", p>>] = Holding(given[p])

-----------------------------------------------------------------------------
(* The slot that the client unmarshals is the only one whose memory changes.*)

LEMMA TakeEffect ==
  ASSUME TypeInv, SidesInv, NEW p \in Slots, Takes(p)
  PROVE  /\ \A q \in Slots : q # p /\ LengthOf(p) # {q} => c'[q] = c[q]
         /\ \A q \in Slots : q # p => c'[q].ptr = c[q].ptr /\ c'[q].len = c[q].len
         /\ c'[p].ptr \in {c[p].ptr, <<"alloc", p>>}
         /\ \A o \in Objects : o # c[p].ptr /\ o # <<"alloc", p>> => heap'[o] = heap[o]
<1>1. op \in Operations /\ heap \in Heaps /\ DOMAIN heap = Objects /\ c \in [Slots -> Variable]
  BY HeapDomain DEF TypeInv, StubTypes, OrderInv, OrderTypes
<1>2. CASE TakeWord(p) \/ TakeThread(p) \/ TakeMap(p)
  <2>1. PICK v : c' = [c EXCEPT ![p].val = v]
    BY <1>2 DEF TakeWord, TakeThread, TakeMap
  <2>2. \A q \in Slots : c[q] \in Variable
    BY <1>1
  <2>3. /\ \A q \in Slots : q # p => c'[q] = c[q]
        /\ c'[p].ptr = c[p].ptr
    BY <1>1, <2>1, <2>2 DEF Variable
  <2>4. heap' = heap
    BY <1>2 DEF TakeWord, TakeThread, TakeMap
  <2> QED BY <2>3, <2>4
<1>3. ASSUME NEW buffer, NEW frees, NEW copies, TakeData(p, buffer, frees, copies)
      PROVE  /\ \A q \in Slots : q # p /\ LengthOf(p) # {q} => c'[q] = c[q]
             /\ \A q \in Slots : q # p => c'[q].ptr = c[q].ptr /\ c'[q].len = c[q].len
             /\ c'[p].ptr = buffer
             /\ \A o \in Objects : o # c[p].ptr /\ o # buffer => heap'[o] = heap[o]
  <2>1. c' = [q \in Slots |->
       IF q = p THEN [c[p] EXCEPT !.ptr = buffer,
                        !.len = IF Kind(p) = "sequence" THEN Arrived.len[p] ELSE @]
       ELSE IF LengthOf(p) = {q} THEN [c[q] EXCEPT !.val = Length(Arrived.len[p])]
       ELSE c[q]]
    BY <1>3 DEF TakeData
  <2>2. \A q \in Slots : q # p /\ LengthOf(p) # {q} => c'[q] = c[q]
    BY <2>1
  <2>3. ASSUME NEW q \in Slots, q # p PROVE c'[q].ptr = c[q].ptr /\ c'[q].len = c[q].len
    <3>1. c[q] \in Variable
      BY <1>1
    <3>2. c'[q] = (IF LengthOf(p) = {q} THEN [c[q] EXCEPT !.val = Length(Arrived.len[p])] ELSE c[q])
      BY <2>1, <2>3
    <3> QED BY <3>1, <3>2 DEF Variable
  <2>4. c'[p].ptr = buffer
    <3>1. c[p] \in Variable
      BY <1>1
    <3>2. c'[p] = [c[p] EXCEPT !.ptr = buffer,
                        !.len = IF Kind(p) = "sequence" THEN Arrived.len[p] ELSE @]
      BY <2>1
    <3> QED BY <3>1, <3>2 DEF Variable
  <2>5. \A o \in Objects : o # c[p].ptr /\ o # buffer => heap'[o] = heap[o]
    BY <1>1, <1>3 DEF TakeData
  <2> QED BY <2>2, <2>3, <2>4, <2>5
<1>4. CASE TakeString(p)
  <2>1. CASE HasIn(p) /\ ~Outgrown(p)
    <3>1. TakeData(p, c[p].ptr, FALSE, TRUE)
      BY <1>4, <2>1 DEF TakeString
    <3> QED BY <1>3, <3>1
  <2>2. CASE ~(HasIn(p) /\ ~Outgrown(p))
    <3>1. TakeData(p, New(p), HasIn(p), TRUE)
      BY <1>4, <2>2 DEF TakeString
    <3> QED BY <1>3, <3>1 DEF New
  <2> QED BY <2>1, <2>2
<1>5. CASE TakeArray(p)
  <2>1. CASE UseMalloc(p)
    <3>1. TakeData(p, New(p), HasIn(p), UseMalloc(p))
      BY <1>5, <2>1 DEF TakeArray
    <3> QED BY <1>3, <3>1 DEF New
  <2>2. CASE ~UseMalloc(p)
    <3>1. TakeData(p, c[p].ptr, HasIn(p), UseMalloc(p))
      BY <1>5, <2>2 DEF TakeArray
    <3> QED BY <1>3, <3>1
  <2> QED BY <2>1, <2>2
<1>6. CASE TakeSequence(p)
  <2>1. CASE UseMalloc(p)
    <3>1. TakeData(p, New(p), HasIn(p), TRUE)
      BY <1>6, <2>1 DEF TakeSequence
    <3> QED BY <1>3, <3>1 DEF New
  <2>2. CASE ~UseMalloc(p)
    <3>1. TakeData(p, c[p].ptr, FALSE, FALSE)
      BY <1>6, <2>2 DEF TakeSequence
    <3> QED BY <1>3, <3>1
  <2> QED BY <2>1, <2>2
<1> QED BY <1>2, <1>4, <1>5, <1>6 DEF Takes

(* What the server does on its own it does in its memory.                  *)
ServerAlone == ServerUnmarshal \/ Invoke \/ Answer \/ Raise \/ Defer \/ AnswerLater \/ ServerMarshal

LEMMA ServerAloneEffect ==
  ASSUME TypeInv, SidesInv, ServerAlone
  PROVE  /\ UNCHANGED <<orderVars, ci, c, req, ok, given>>
         /\ read'.c = read.c /\ server # "idle" /\ server' # "idle" /\ server # "answered"
         /\ client' = client \/ (client = "waiting" /\ client' = "failed")
         /\ SidesInv'
         /\ \A o \in Objects : ClientSide(o) => heap'[o] = heap[o]
<1>1. op \in Operations /\ heap \in Heaps /\ DOMAIN heap = Objects /\ s \in [Slots -> Variable]
      /\ read \in [{"c", "s"} -> Nat]
  BY HeapDomain DEF TypeInv, StubTypes, OrderInv, OrderTypes
<1>2. /\ UNCHANGED <<orderVars, ci, c, req, ok, given>>
      /\ server # "idle" /\ server' # "idle" /\ server # "answered"
      /\ client' = client \/ (client = "waiting" /\ client' = "failed")
  BY DEF ServerAlone, ServerUnmarshal, Invoke, Answer, Raise, Defer, AnswerLater, ServerMarshal
<1>3. /\ op' = op /\ Slots' = Slots
  BY <1>2, CodeStays
<1>4. CASE Invoke \/ Raise \/ Defer
  BY <1>2, <1>3, <1>4 DEF Invoke, Raise, Defer, SidesInv
<1>5. CASE ServerUnmarshal
  <2> DEFINE p == ops[si]
  <2>1. p \in Slots
    <3>1. si \in 1 .. Len(ops)
      BY <1>5, RepliesFacts DEF ServerUnmarshal, TypeInv, StubTypes
    <3> QED BY <3>1, RepliesFacts DEF TypeInv
  <2>2. \/ UNCHANGED <<s, heap, read>>
        \/ ReceiveWord(p) \/ ReceiveThread(p) \/ ReceiveData(p)
    BY <1>5 DEF ServerUnmarshal
  <2> HIDE DEF p
  <2>3. CASE UNCHANGED <<s, heap, read>>
    BY <1>2, <1>3, <2>3 DEF SidesInv
  <2>4. CASE ReceiveWord(p) \/ ReceiveThread(p)
    <3>1. PICK v : s' = [s EXCEPT ![p].val = v]
      BY <2>4 DEF ReceiveWord, ReceiveThread
    <3>2. \A q \in Slots : s[q] \in Variable
      BY <1>1
    <3>3. \A q \in Slots : s'[q].ptr = s[q].ptr
      BY <1>1, <3>1, <3>2 DEF Variable
    <3> QED BY <1>2, <1>3, <2>4, <3>3 DEF SidesInv, ReceiveWord, ReceiveThread
  <2>5. CASE ReceiveData(p)
    <3>1. PICK l : s' = [s EXCEPT ![p].ptr = ServerBuffer(p), ![p].len = l]
      BY <2>5 DEF ReceiveData
    <3>2. \A q \in Slots : s[q] \in Variable
      BY <1>1
    <3>3. s' = [s EXCEPT ![p] = [s[p] EXCEPT !.ptr = ServerBuffer(p), !.len = l]]
      BY <1>1, <2>1, <3>1, <3>2 DEF Variable
    <3>4. \A q \in Slots : s'[q].ptr = IF q = p THEN ServerBuffer(p) ELSE s[q].ptr
      BY <1>1, <2>1, <3>2, <3>3 DEF Variable
    <3>5. ServerBuffer(p) \in {<<"message", p>>, <<"pool", p>>}
      BY DEF ServerBuffer
    <3>6. \A q \in Slots : s'[q].ptr \in {None, <<"message", q>>, <<"pool", q>>, <<"own", q>>}
      BY <3>4, <3>5 DEF SidesInv
    <3>7. SidesInv'
      BY <1>2, <1>3, <3>6 DEF SidesInv
    <3>8. heap' = heap \/ heap' = [heap EXCEPT ![ServerBuffer(p)] = Holding(NextPiece(req, read.s))]
      BY <2>5 DEF ReceiveData
    <3>9. ~ClientSide(ServerBuffer(p))
      BY <3>5 DEF ClientSide
    <3>10. \A o \in Objects : ClientSide(o) => heap'[o] = heap[o]
      <4> DEFINE h == Holding(NextPiece(req, read.s))
      <4>1. heap' = heap \/ heap' = [heap EXCEPT ![ServerBuffer(p)] = h]
        BY <3>8
      <4> HIDE DEF h
      <4> QED BY <1>1, <3>9, <4>1
    <3>11. read'.c = read.c
      BY <1>1, <2>5 DEF ReceiveData
    <3> QED BY <1>2, <3>7, <3>10, <3>11
  <2> QED BY <2>2, <2>3, <2>4, <2>5
<1>6. CASE Answer \/ AnswerLater
  <2>1. PICK n \in Lengths, own \in SUBSET Replaceable : Leaves(own, n)
    <3>1. CASE Answer
      BY <3>1 DEF Answer
    <3>2. CASE AnswerLater
      BY <3>2 DEF AnswerLater
    <3> QED BY <1>6, <3>1, <3>2
  <2> DEFINE Buffer(p) == IF p \in own THEN <<"own", p>> ELSE s[p].ptr
             Written == {p \in OutSlots : VarSized(p)}
  <2>2. /\ s' = [p \in Slots |->
                 IF p \notin OutSlots THEN s[p]
                 ELSE IF p \in Written THEN [s[p] EXCEPT !.ptr = Buffer(p), !.len = n[p]]
                 ELSE [s[p] EXCEPT !.val = Whole(p, "out", n[p])]]
        /\ heap' = [o \in Objects |->
                 IF o[2] \in Written /\ o = Buffer(o[2])
                 THEN Holding(Whole(o[2], "out", n[o[2]])) ELSE heap[o]]
    BY <1>1, <2>1 DEF Leaves
  <2>3. \A p \in Slots : Buffer(p) \in {None, <<"message", p>>, <<"pool", p>>, <<"own", p>>}
    BY DEF SidesInv
  <2>4. \A p \in Slots : s'[p].ptr \in {s[p].ptr, Buffer(p)}
    <3> HIDE DEF Buffer, Written
    <3> SUFFICES ASSUME NEW p \in Slots PROVE s'[p].ptr \in {s[p].ptr, Buffer(p)}
      OBVIOUS
    <3>1. s[p] \in Variable
      BY <1>1
    <3>2. s'[p] = (IF p \notin OutSlots THEN s[p]
                 ELSE IF p \in Written THEN [s[p] EXCEPT !.ptr = Buffer(p), !.len = n[p]]
                 ELSE [s[p] EXCEPT !.val = Whole(p, "out", n[p])])
      BY <2>2
    <3> QED BY <3>1, <3>2 DEF Variable
  <2>5. SidesInv'
    BY <1>2, <1>3, <2>3, <2>4 DEF SidesInv
  <2>6. \A o \in Objects : ClientSide(o) => heap'[o] = heap[o]
    <3> SUFFICES ASSUME NEW o \in Objects, ClientSide(o) PROVE heap'[o] = heap[o]
      OBVIOUS
    <3>1. o[2] \in Slots
      BY DEF Objects
    <3>2. o # Buffer(o[2])
      <4>1. Buffer(o[2])[1] \in {"none", "message", "pool", "own"}
        BY <2>3, <3>1 DEF None
      <4> HIDE DEF Buffer
      <4> QED BY <4>1 DEF ClientSide
    <3> HIDE DEF Buffer, Written
    <3> QED BY <2>2, <3>2
  <2> QED BY <1>2, <1>6, <2>5, <2>6 DEF Answer, AnswerLater
<1>7. CASE ServerMarshal
  <2> DEFINE p == Replies[si]
  <2>1. heap' = heap \/ (p = Ret /\ AnswerString(p))
    BY <1>7 DEF ServerMarshal, AnswerWord, AnswerThread, AnswerMap, AnswerString, AnswerArray, AnswerSequence
  <2>2. \A o \in Objects : ClientSide(o) => heap'[o] = heap[o]
    <3>1. CASE heap' = heap
      BY <3>1
    <3>2. CASE p = Ret /\ AnswerString(p)
      <4>1. p \in Slots
        <5>1. si \in 1 .. Len(Replies) /\ Replies \in Seq(Slots)
          BY <1>7, RepliesFacts DEF ServerMarshal, TypeInv, StubTypes
        <5> QED BY <5>1
      <4>2. heap' = [heap EXCEPT ![s[p].ptr].live = FALSE]
        BY <3>2 DEF AnswerString
      <4>3. s[p].ptr[1] \in {"none", "message", "pool", "own"}
        BY <4>1 DEF SidesInv, None
      <4>4. ~ClientSide(s[p].ptr)
        BY <4>3 DEF ClientSide
      <4> QED BY <1>1, <4>2, <4>4
    <3> QED BY <2>1, <3>1, <3>2
  <2>3. SidesInv'
    BY <1>2, <1>3, <1>7 DEF ServerMarshal, SidesInv
  <2> QED BY <1>2, <1>7, <2>2, <2>3 DEF ServerMarshal
<1> QED BY <1>4, <1>5, <1>6, <1>7 DEF ServerAlone

(* The operation the client unmarshals next, if it has anything to take.   *)
LEMMA UnmarshalCases ==
  ASSUME TypeInv, ClientUnmarshal
  PROVE  /\ ops[ci] \in Slots /\ ops[ci] \in Params /\ ci \in 1 .. Len(ops) /\ ci' = ci + 1
         /\ client = "unmarshal" /\ Len(ops) \in Nat /\ stage = "generated" /\ op \in Operations
         /\ UNCHANGED <<orderVars, client, server, si, s, req, rep, deferred, ok, given, taken, left>>
         /\ \/ ~HasOut(ops[ci]) /\ UNCHANGED <<c, heap, misused, read>>
            \/ HasOut(ops[ci]) /\ Takes(ops[ci])
<1>1. Len(ops) \in Nat /\ op \in Operations
  BY RepliesFacts DEF TypeInv
<1>2. ci \in 1 .. Len(ops) /\ ci' = ci + 1 /\ client = "unmarshal"
  BY <1>1 DEF ClientUnmarshal, TypeInv, StubTypes
<1>3. ops[ci] \in Slots /\ ops[ci] \in Params
  BY <1>2, RepliesFacts DEF TypeInv
<1>4. stage = "generated"
  BY <1>2 DEF TypeInv, PhaseInv
<1> QED BY <1>1, <1>2, <1>3, <1>4 DEF ClientUnmarshal, Takes

LEMMA ReturnCases ==
  ASSUME TypeInv, Return
  PROVE  /\ client = "return" /\ client' = "done" /\ op \in Operations /\ stage = "generated"
         /\ UNCHANGED <<orderVars, server, ci, si, s, req, rep, deferred, ok, given, taken, left>>
         /\ \/ op.ret = "void" /\ UNCHANGED <<c, heap, misused, read>>
            \/ op.ret # "void" /\ Ret \in Slots /\ Ret \notin Params /\ Takes(Ret)
               /\ (TakeWord(Ret) \/ TakeString(Ret)) /\ LengthOf(Ret) = {} /\ ~HasIn(Ret)
<1>1. op \in Operations
  BY RepliesFacts DEF TypeInv
<1>2. Ret \notin Params /\ (Ret \in Slots <=> op.ret # "void")
  BY <1>1, SlotFacts
<1>3. LengthOf(Ret) = {} /\ ~HasIn(Ret)
  BY <1>2 DEF LengthOf, IsArray, HasIn
<1>4. stage = "generated"
  BY DEF Return, TypeInv, PhaseInv
<1> QED BY <1>1, <1>2, <1>3, <1>4 DEF Return, Takes

(* What the client does is not seen by the server, but for the message.    *)
LEMMA ClientEffect ==
  ASSUME TypeInv, SidesInv, ClientNext
  PROVE  /\ UNCHANGED <<orderVars, si, s, rep, deferred, given, taken, left>>
         /\ read'.s = read.s
         /\ server' = server \/ (Call /\ server = "idle" /\ server' = "unmarshal")
         /\ SidesInv'
         /\ \A o \in Objects : ~ClientSide(o) /\ (o[1] # "pool" \/ ~Call) => heap'[o] = heap[o]
<1>1. op \in Operations /\ heap \in Heaps /\ DOMAIN heap = Objects /\ c \in [Slots -> Variable]
      /\ read \in [{"c", "s"} -> Nat]
  BY HeapDomain DEF TypeInv, StubTypes, OrderInv, OrderTypes
<1>2. /\ UNCHANGED <<orderVars, si, s, rep, deferred, given, taken, left>>
      /\ server' = server \/ (Call /\ server = "idle" /\ server' = "unmarshal")
  <2>1. Call => server = "idle" /\ server' = "unmarshal"
    BY DEF Call, TypeInv, PhaseInv
  <2>2. \/ server' = server
        \/ Call
    BY DEF ClientNext, Start, ClientMarshal, CallFails, ClientUnmarshal, Finish, SkipUnmarshal, Return
  <2>3. UNCHANGED <<orderVars, si, s, rep, deferred, given, taken, left>>
    BY DEF ClientNext, Start, ClientMarshal, Call, CallFails, ClientUnmarshal, Finish, SkipUnmarshal, Return
  <2> QED BY <2>1, <2>2, <2>3
<1>3. /\ op' = op /\ Slots' = Slots
  BY <1>2, CodeStays
<1>4. ASSUME NEW p \in Slots, Takes(p), read'.s = read.s, ~Call
      PROVE  /\ SidesInv'
             /\ \A o \in Objects : ~ClientSide(o) /\ (o[1] # "pool" \/ ~Call) => heap'[o] = heap[o]
  <2>1. /\ \A q \in Slots : q # p => c'[q].ptr = c[q].ptr
        /\ c'[p].ptr \in {c[p].ptr, <<"alloc", p>>}
        /\ \A o \in Objects : o # c[p].ptr /\ o # <<"alloc", p>> => heap'[o] = heap[o]
    BY <1>4, TakeEffect
  <2>2. SidesInv'
    BY <1>2, <1>3, <2>1 DEF SidesInv
  <2>3. \A o \in Objects : ~ClientSide(o) => o # c[p].ptr /\ o # <<"alloc", p>>
    <3>1. c[p].ptr[1] \in {"none", "caller", "alloc"} /\ <<"alloc", p>>[1] = "alloc"
      BY DEF SidesInv, None
    <3>2. None \notin Objects
      BY ObjectFacts
    <3>3. c[p].ptr = None \/ ClientSide(c[p].ptr)
      BY DEF SidesInv, ClientSide
    <3>4. ClientSide(<<"alloc", p>>)
      BY DEF ClientSide
    <3> QED BY <3>2, <3>3, <3>4
  <2> QED BY <2>1, <2>2, <2>3
<1>5. CASE ClientUnmarshal
  <2> DEFINE p == ops[ci]
  <2>1. p \in Slots /\ (UNCHANGED <<c, heap, misused, read>> \/ Takes(p))
    BY <1>5, UnmarshalCases
  <2>2. ~Call
    BY <1>5 DEF Call, ClientUnmarshal
  <2> HIDE DEF p
  <2>3. CASE UNCHANGED <<c, heap, misused, read>>
    BY <1>2, <1>3, <2>3 DEF SidesInv
  <2>4. CASE Takes(p)
    <3>1. read'.s = read.s
      BY <2>1, <2>4, TakeTypes
    <3> QED BY <1>2, <1>4, <2>1, <2>2, <2>4, <3>1
  <2> QED BY <2>1, <2>3, <2>4
<1>6. CASE Return
  <2>1. UNCHANGED <<c, heap, misused, read>> \/ (Ret \in Slots /\ Takes(Ret))
    BY <1>6, ReturnCases
  <2>2. ~Call
    BY <1>6 DEF Call, Return
  <2>3. CASE UNCHANGED <<c, heap, misused, read>>
    BY <1>2, <1>3, <2>3 DEF SidesInv
  <2>4. CASE Ret \in Slots /\ Takes(Ret)
    <3>1. read'.s = read.s
      BY <2>4, TakeTypes
    <3> QED BY <1>2, <1>4, <2>2, <2>4, <3>1
  <2> QED BY <2>1, <2>3, <2>4
<1>7. CASE Start \/ Finish
  <2>1. \A o \in Objects : o \notin Frames => heap'[o] = heap[o]
    BY <1>1, <1>7 DEF Start, Finish
  <2>2. \A o \in Frames : ClientSide(o)
    BY DEF Frames, ClientSide
  <2>3. c' = c /\ read' = read
    BY <1>7 DEF Start, Finish
  <2> QED BY <1>2, <1>3, <2>1, <2>2, <2>3 DEF SidesInv
<1>8. CASE Call
  <2>1. \A o \in Objects : o[1] # "pool" => heap'[o] = heap[o]
    BY <1>1, <1>8 DEF Call
  <2>2. c' = c /\ read' = read
    BY <1>8 DEF Call
  <2> QED BY <1>2, <1>3, <1>8, <2>1, <2>2 DEF SidesInv
<1>9. CASE CallFails \/ SkipUnmarshal
  <2>1. c' = c /\ read' = read /\ heap' = heap
    BY <1>9 DEF CallFails, SkipUnmarshal
  <2> QED BY <1>2, <1>3, <2>1 DEF SidesInv
<1>10. CASE ClientMarshal
  <2>1. read' = read /\ heap' = heap
    BY <1>10 DEF ClientMarshal
  <2> DEFINE p == ops[ci]
  <2>2. c' = c \/ c' = [c EXCEPT ![p].len = StrLen(c, p)]
    BY <1>10 DEF ClientMarshal, SendWord, SendThread, SendMap, SendString, SendArray, SendSequence
  <2> HIDE DEF p
  <2>3. \A q \in Slots : c[q] \in Variable
    BY <1>1
  <2>4. \A q \in Slots : c'[q].ptr = c[q].ptr
    <3> DEFINE l == StrLen(c, p)
    <3>1. c' = c \/ c' = [c EXCEPT ![p].len = l]
      BY <2>2
    <3> HIDE DEF l
    <3> QED BY <1>1, <2>3, <3>1 DEF Variable
  <2> QED BY <1>2, <1>3, <2>1, <2>4 DEF SidesInv
<1> QED BY <1>5, <1>6, <1>7, <1>8, <1>9, <1>10 DEF ClientNext

(* The reply comes into the client's memory.                               *)
LEMMA ReplyEffect ==
  ASSUME TypeInv, SidesInv, Reply
  PROVE  /\ UNCHANGED <<orderVars, ci, si, c, s, req, rep, read, deferred, ok, given, taken, left>>
         /\ server = "marshal" /\ server' = "answered"
         /\ SidesInv'
         /\ \A o \in Objects : ~ClientSide(o) => heap'[o] = heap[o]
         /\ \/ client' = client /\ heap' = heap
            \/ client = "waiting" /\ client' = "failed" /\ heap' = heap
            \/ /\ client = "waiting" /\ client' = "unmarshal"
               /\ heap' = [o \in Objects |->
                             IF o[2] \in Items("out") /\ o = Landing(o[2])
                             THEN [heap[o] EXCEPT !.val = Cut(Content(rep.ptr[o[2]]), rep.len[o[2]])]
                             ELSE heap[o]]
<1>1. DOMAIN heap = Objects
  BY HeapDomain
<1>2. /\ UNCHANGED <<orderVars, ci, si, c, s, req, rep, read, deferred, ok, given, taken, left>>
      /\ server = "marshal" /\ server' = "answered"
      /\ \/ client' = client /\ heap' = heap
         \/ client = "waiting" /\ client' = "failed" /\ heap' = heap
         \/ /\ client = "waiting" /\ client' = "unmarshal"
            /\ heap' = [o \in Objects |->
                             IF o[2] \in Items("out") /\ o = Landing(o[2])
                             THEN [heap[o] EXCEPT !.val = Cut(Content(rep.ptr[o[2]]), rep.len[o[2]])]
                             ELSE heap[o]]
  BY <1>1 DEF Reply
<1>3. SidesInv'
  <2>1. Slots' = Slots
    BY <1>2, CodeStays
  <2> QED BY <1>2, <2>1 DEF SidesInv
<1>4. ASSUME NEW p \in Slots PROVE Landing(p) = None \/ ClientSide(Landing(p))
  BY DEF Landing, SidesInv, ClientSide
<1>5. ASSUME NEW o \in Objects, ~ClientSide(o) PROVE heap'[o] = heap[o]
  <2>1. o[2] \in Slots /\ None \notin Objects
    BY ObjectFacts DEF Objects
  <2>2. o # Landing(o[2])
    BY <1>4, <1>5, <2>1
  <2> QED BY <1>2, <1>5, <2>2
<1> QED BY <1>2, <1>3, <1>5

-----------------------------------------------------------------------------
(* While the code is generated nothing is known but what the caller brings. *)

LEMMA GeneratingEffect ==
  ASSUME TypeInv, OrderNext, UNCHANGED stubVars
  PROVE  /\ op' = op /\ op \in Operations /\ client = "start" /\ server = "idle" /\ ~ok
         /\ UNCHANGED stubVars
<1>1. op' = op /\ op \in Operations /\ stage # "generated"
  BY DEF OrderNext, Visit, EndPass, Marshal, Generate, TypeInv, OrderInv, OrderTypes
<1>2. client = "start"
  BY <1>1 DEF TypeInv, PhaseInv
<1> QED BY <1>1, <1>2 DEF TypeInv, PhaseInv

(* The sides and what was given stay.                                      *)
LEMMA SidesStep ==
  ASSUME TypeInv, SidesInv, [Next]_vars
  PROVE  SidesInv' /\ op' = op /\ given' = given /\ op \in Operations
<1>0. op \in Operations
  BY DEF TypeInv, OrderInv, OrderTypes
<1>1. CASE OrderNext /\ UNCHANGED stubVars
  <2>1. op' = op /\ UNCHANGED stubVars
    BY <1>1, GeneratingEffect
  <2>2. Slots' = Slots
    BY <2>1, SameSlots
  <2> QED BY <1>0, <2>1, <2>2 DEF SidesInv, stubVars
<1>2. CASE ClientNext
  BY <1>0, <1>2, ClientEffect DEF orderVars
<1>3. CASE ServerAlone
  BY <1>0, <1>3, ServerAloneEffect DEF orderVars
<1>4. CASE Reply
  BY <1>0, <1>4, ReplyEffect DEF orderVars
<1>5. CASE UNCHANGED vars
  <2>1. Slots' = Slots /\ op' = op
    BY <1>5, SameSlots DEF vars, orderVars
  <2> QED BY <1>0, <1>5, <2>1 DEF SidesInv, vars, stubVars, orderVars
<1> QED BY <1>1, <1>2, <1>3, <1>4, <1>5 DEF Next, OrderNext, ServerNext, ServerAlone

LEMMA GivenStep ==
  ASSUME GivenInv, op' = op, given' = given
  PROVE  GivenInv'
<1>1. /\ Slots' = Slots /\ InSlots' = InSlots /\ Value' = Value
      /\ \A p : Kind(p)' = Kind(p) /\ HasIn(p)' = HasIn(p) /\ Claimed(p)' = Claimed(p)
                /\ ArrayOf(p)' = ArrayOf(p) /\ LengthOf(p)' = LengthOf(p)
  BY SameSlots
<1>2. WellFormed(given, InSlots)'
  BY <1>1 DEF GivenInv, WellFormed
<1> QED BY <1>1, <1>2 DEF GivenInv

-----------------------------------------------------------------------------
(* The caller's variables.                                                 *)

LEMMA CallerStays ==
  ASSUME CallerInv, op' = op, given' = given, Taking => Taking',
         \A p \in Params :
            /\ c'[p].ptr = c[p].ptr /\ c'[p].val = c[p].val
            /\ Kind(p) = "sequence" => c'[p].len = c[p].len
            /\ heap'[<<"caller", p>>] = heap[<<"caller", p>>]
            /\ Taking /\ Behind(p) => Behind(p)'
  PROVE  CallerInv'
<1>1. /\ Params' = Params
      /\ \A p : Kind(p)' = Kind(p) /\ HasIn(p)' = HasIn(p) /\ HasOut(p)' = HasOut(p)
                /\ VarSized(p)' = VarSized(p) /\ Brings(p)' = Brings(p)
  BY SameSlots
<1>2. ASSUME NEW p \in Params, CallerKept(p)
      PROVE CallerKept(p)'
  BY <1>1, <1>2 DEF CallerKept
<1>3. ASSUME NEW p \in Params
      PROVE /\ ~(Taking /\ HasOut(p) /\ Behind(p))' => CallerKept(p)'
            /\ (Brings(p) /\ ~(Taking /\ HasOut(p)) => heap[<<"caller", p>>] = Holding(given[p]))'
  <2>1. ASSUME ~(Taking /\ HasOut(p) /\ Behind(p))'
        PROVE CallerKept(p)'
    <3>1. ~(Taking /\ HasOut(p) /\ Behind(p))
      BY <1>1, <2>1
    <3> QED BY <1>2, <3>1 DEF CallerInv
  <2>2. (Brings(p) /\ ~(Taking /\ HasOut(p)) => heap[<<"caller", p>>] = Holding(given[p]))'
    BY <1>1 DEF CallerInv, Holding
  <2> QED BY <2>1, <2>2
<1> QED BY <1>1, <1>3 DEF CallerInv

(* An operation unmarshalled has been done for its slot and its length.    *)
LEMMA BehindNext ==
  ASSUME TypeInv, ClientUnmarshal, NEW q \in Params
  PROVE  Behind(q)' <=> Behind(q) \/ q = ops[ci] \/ LengthOf(ops[ci]) = {q}
<1>1. /\ ci \in 1 .. Len(ops) /\ ci' = ci + 1 /\ UNCHANGED orderVars /\ stage = "generated"
  BY UnmarshalCases
<1>2. /\ op' = op /\ ops' = ops /\ DOMAIN ops = 1 .. Len(ops) /\ Len(ops) \in Nat
  BY <1>1, GeneratedFacts DEF orderVars, TypeInv
<1>3. \A p : LengthOf(p)' = LengthOf(p)
  BY <1>2, SameSlots
<1>4. Behind(q)' <=> \E i \in DOMAIN ops : i < ci + 1 /\ (ops[i] = q \/ LengthOf(ops[i]) = {q})
  BY <1>1, <1>2, <1>3 DEF Behind
<1>5. \A i \in DOMAIN ops : i < ci + 1 <=> i < ci \/ i = ci
  BY <1>1, <1>2
<1> QED BY <1>1, <1>2, <1>4, <1>5 DEF Behind

LEMMA CallerUnmarshal ==
  ASSUME TypeInv, Supported(op), SidesInv, CallerInv, ClientUnmarshal
  PROVE  CallerInv'
<1> DEFINE p == ops[ci]
<1>1. /\ p \in Slots /\ p \in Params /\ ci \in 1 .. Len(ops) /\ ci' = ci + 1
      /\ client = "unmarshal" /\ Len(ops) \in Nat /\ stage = "generated" /\ op \in Operations
      /\ UNCHANGED <<orderVars, client, server, si, s, req, rep, deferred, ok, given, taken, left>>
      /\ \/ ~HasOut(p) /\ UNCHANGED <<c, heap, misused, read>>
         \/ HasOut(p) /\ Takes(p)
  BY UnmarshalCases
<1>2. op' = op /\ ops' = ops /\ Taking /\ Taking' /\ DOMAIN ops = 1 .. Len(ops)
      /\ (\A i, j \in 1 .. Len(ops) : ops[i] = ops[j] => i = j)
      /\ (\A a, b, q \in Params : LengthOf(a) = {q} /\ LengthOf(b) = {q} => a = b)
  BY <1>1, GeneratedFacts DEF orderVars, Taking, TypeInv
<1>3. /\ Params' = Params
      /\ \A q : Kind(q)' = Kind(q) /\ HasIn(q)' = HasIn(q) /\ HasOut(q)' = HasOut(q)
                /\ VarSized(q)' = VarSized(q) /\ Brings(q)' = Brings(q) /\ LengthOf(q)' = LengthOf(q)
  BY <1>2, SameSlots
<1>4. \A q \in Params : Behind(q)' <=> Behind(q) \/ q = p \/ LengthOf(p) = {q}
  BY BehindNext
<1> HIDE DEF p
<1>5. CASE ~HasOut(p) /\ UNCHANGED <<c, heap, misused, read>>
  <2>1. \A q \in Params : Taking /\ Behind(q) => Behind(q)'
    BY <1>4
  <2> QED BY <1>1, <1>2, <1>5, <2>1, CallerStays
<1>6. CASE HasOut(p) /\ Takes(p)
  <2>1. /\ \A q \in Slots : q # p /\ LengthOf(p) # {q} => c'[q] = c[q]
        /\ c[p].ptr \in {None, <<"caller", p>>, <<"alloc", p>>}
        /\ \A o \in Objects : o # c[p].ptr /\ o # <<"alloc", p>> => heap'[o] = heap[o]
    BY <1>1, <1>6, TakeEffect DEF SidesInv
  <2>2. ASSUME NEW q \in Params, q # p
        PROVE heap'[<<"caller", q>>] = heap[<<"caller", q>>]
    <3>1. q \in Slots /\ <<"caller", q>> \in Objects
      BY <1>1, SlotFacts, ObjectFacts
    <3>2. <<"caller", q>> # c[p].ptr /\ <<"caller", q>> # <<"alloc", p>>
      BY <2>1, <2>2 DEF None
    <3> QED BY <2>1, <3>1, <3>2
  <2>3. ASSUME NEW q \in Params, ~(HasOut(q) /\ Behind(q)')
        PROVE CallerKept(q)'
    <3>1. ~(HasOut(q) /\ Behind(q)) /\ q # p
      BY <1>4, <1>6, <2>3
    <3>2. LengthOf(p) # {q}
      <4> SUFFICES ASSUME LengthOf(p) = {q} PROVE FALSE
        OBVIOUS
      <4>1. Claimed(q) /\ q \in Slots
        BY <1>1, SlotFacts DEF Claimed
      <4>2. ArrayOf(q) = p
        BY <1>1, <1>2, <4>1, ClaimedFacts
      <4>3. HasOut(q)
        BY <1>1, <1>6, <4>1, <4>2, ClaimedFacts
      <4> QED BY <1>4, <2>3, <4>3
    <3>3. c'[q] = c[q]
      BY <1>1, <2>1, <3>1, <3>2, SlotFacts
    <3>4. CallerKept(q)
      BY <3>1 DEF CallerInv
    <3> QED BY <1>1, <1>3, <2>2, <3>1, <3>3, <3>4 DEF CallerKept
  <2>4. ASSUME NEW q \in Params, Brings(q), ~HasOut(q)
        PROVE heap'[<<"caller", q>>] = Holding(given'[q])
    <3>1. q # p
      BY <1>6, <2>4
    <3> QED BY <1>1, <2>2, <2>4, <3>1 DEF CallerInv
  <2>5. ASSUME NEW q \in Params
        PROVE /\ ~(Taking /\ HasOut(q) /\ Behind(q))' => CallerKept(q)'
              /\ (Brings(q) /\ ~(Taking /\ HasOut(q)) => heap[<<"caller", q>>] = Holding(given[q]))'
    <3>1. ~(Taking /\ HasOut(q) /\ Behind(q))' => CallerKept(q)'
      BY <1>2, <1>3, <2>3
    <3>2. (Brings(q) /\ ~(Taking /\ HasOut(q)) => heap[<<"caller", q>>] = Holding(given[q]))'
      BY <1>2, <1>3, <2>4 DEF Holding
    <3> QED BY <3>1, <3>2
  <2> QED BY <1>3, <2>5 DEF CallerInv
<1> QED BY <1>1, <1>5, <1>6

LEMMA CallerReturn ==
  ASSUME TypeInv, SidesInv, CallerInv, Return
  PROVE  CallerInv'
<1>1. /\ client = "return" /\ client' = "done" /\ op \in Operations
      /\ UNCHANGED <<orderVars, server, ci, si, s, req, rep, deferred, ok, given, taken, left>>
      /\ \/ op.ret = "void" /\ UNCHANGED <<c, heap, misused, read>>
         \/ Ret \in Slots /\ Ret \notin Params /\ Takes(Ret) /\ LengthOf(Ret) = {}
  BY ReturnCases
<1>2. op' = op /\ ops' = ops /\ (Taking => Taking')
  BY <1>1 DEF orderVars, Taking
<1>3. \A p : Behind(p)' <=> Behind(p)
  <2>1. \A p : LengthOf(p)' = LengthOf(p)
    BY <1>2, SameSlots
  <2> QED BY <1>1, <1>2, <2>1 DEF Behind
<1>4. ASSUME NEW p \in Params
      PROVE c'[p] = c[p] /\ heap'[<<"caller", p>>] = heap[<<"caller", p>>]
  <2>1. CASE UNCHANGED <<c, heap, misused, read>>
    BY <2>1
  <2>2. CASE Ret \in Slots /\ Ret \notin Params /\ Takes(Ret) /\ LengthOf(Ret) = {}
    <3>1. /\ \A q \in Slots : q # Ret /\ LengthOf(Ret) # {q} => c'[q] = c[q]
          /\ c[Ret].ptr \in {None, <<"caller", Ret>>, <<"alloc", Ret>>}
          /\ \A o \in Objects : o # c[Ret].ptr /\ o # <<"alloc", Ret>> => heap'[o] = heap[o]
      BY <2>2, TakeEffect DEF SidesInv
    <3>2. p \in Slots /\ p # Ret /\ <<"caller", p>> \in Objects
      BY <1>1, <2>2, SlotFacts, ObjectFacts
    <3>3. <<"caller", p>> # c[Ret].ptr /\ <<"caller", p>> # <<"alloc", Ret>>
      BY <3>1, <3>2 DEF None
    <3>4. LengthOf(Ret) # {p}
      BY <2>2
    <3> QED BY <3>1, <3>2, <3>3, <3>4
  <2> QED BY <1>1, <2>1, <2>2
<1> QED BY <1>1, <1>2, <1>3, <1>4, CallerStays

LEMMA CallerReply ==
  ASSUME TypeInv, SidesInv, CallerInv, Reply
  PROVE  CallerInv'
<1>1. /\ UNCHANGED <<orderVars, ci, si, c, s, req, rep, read, deferred, ok, given, taken, left>>
      /\ op' = op /\ ops' = ops /\ op \in Operations /\ heap \in Heaps
      /\ \/ client' = client /\ heap' = heap
         \/ client = "waiting" /\ client' = "failed" /\ heap' = heap
         \/ /\ client = "waiting" /\ client' = "unmarshal"
            /\ heap' = [o \in Objects |->
                             IF o[2] \in Items("out") /\ o = Landing(o[2])
                             THEN [heap[o] EXCEPT !.val = Cut(Content(rep.ptr[o[2]]), rep.len[o[2]])]
                             ELSE heap[o]]
  BY ReplyEffect, CodeStays, HeapDomain
<1>2. /\ Params' = Params
      /\ \A q : Kind(q)' = Kind(q) /\ HasIn(q)' = HasIn(q) /\ HasOut(q)' = HasOut(q)
                /\ VarSized(q)' = VarSized(q) /\ Brings(q)' = Brings(q) /\ LengthOf(q)' = LengthOf(q)
  BY <1>1, SameSlots
<1>3. CASE heap' = heap
  <2>1. Taking => Taking'
    BY <1>1, <1>3 DEF Taking
  <2>2. \A p : Behind(p)' <=> Behind(p)
    BY <1>1, <1>2 DEF Behind
  <2> QED BY <1>1, <1>3, <2>1, <2>2, CallerStays
<1>4. CASE /\ client = "waiting" /\ client' = "unmarshal"
           /\ heap' = [o \in Objects |->
                             IF o[2] \in Items("out") /\ o = Landing(o[2])
                             THEN [heap[o] EXCEPT !.val = Cut(Content(rep.ptr[o[2]]), rep.len[o[2]])]
                             ELSE heap[o]]
  <2>1. ~Taking /\ Taking' /\ ci = 1 /\ ci' = 1
    BY <1>1, <1>4 DEF Taking, TypeInv, PhaseInv
  <2>2. \A p \in Params : CallerKept(p) /\ (Brings(p) => heap[<<"caller", p>>] = Holding(given[p]))
    BY <2>1 DEF CallerInv
  <2>3. ASSUME NEW p \in Params
        PROVE /\ heap'[<<"caller", p>>].live = heap[<<"caller", p>>].live
              /\ ~HasOut(p) => heap'[<<"caller", p>>] = heap[<<"caller", p>>]
    <3> DEFINE o == <<"caller", p>>
               v == Cut(Content(rep.ptr[o[2]]), rep.len[o[2]])
    <3>1. p \in Slots /\ o \in Objects /\ o[2] = p
      BY <1>1, SlotFacts, ObjectFacts
    <3>2. heap[o] \in [live : BOOLEAN, val : Value]
      BY <3>1, HeapDomain
    <3>3. heap'[o] = heap[o] \/ (p \in Items("out") /\ heap'[o] = [heap[o] EXCEPT !.val = v])
      BY <1>4, <3>1
    <3> HIDE DEF o, v
    <3>4. p \in Items("out") => HasOut(p)
      BY DEF Items
    <3> QED BY <3>2, <3>3, <3>4 DEF o
  <2>4. ASSUME NEW p \in Params
        PROVE CallerKept(p)'
    BY <1>1, <1>2, <2>2, <2>3 DEF CallerKept
  <2>5. ASSUME NEW p \in Params, Brings(p), ~HasOut(p)
        PROVE heap'[<<"caller", p>>] = Holding(given'[p])
    BY <1>1, <2>2, <2>3, <2>5
  <2>6. ASSUME NEW p \in Params
        PROVE (Brings(p) /\ ~(Taking /\ HasOut(p)) => heap[<<"caller", p>>] = Holding(given[p]))'
    BY <1>2, <2>1, <2>5 DEF Holding
  <2> QED BY <1>2, <2>4, <2>6 DEF CallerInv
<1> QED BY <1>1, <1>3, <1>4

LEMMA CallerStep ==
  ASSUME TypeInv, Supported(op), SidesInv, CallerInv, [Next]_vars
  PROVE  CallerInv'
<1>0. op \in Operations /\ op' = op /\ given' = given /\ heap \in Heaps /\ DOMAIN heap = Objects
      /\ c \in [Slots -> Variable]
  BY SidesStep, HeapDomain DEF TypeInv, StubTypes
<1>1. \A p \in Params : p \in Slots /\ <<"caller", p>> \in Objects /\ c[p] \in Variable
  BY <1>0, SlotFacts, ObjectFacts
<1>2. \A p : LengthOf(p)' = LengthOf(p)
  BY <1>0, SameSlots
<1>3. CASE OrderNext /\ UNCHANGED stubVars
  <2>1. ~Taking /\ UNCHANGED stubVars
    BY <1>3, GeneratingEffect DEF Taking
  <2> QED BY <1>0, <2>1, CallerStays DEF stubVars
<1>4. CASE ServerAlone
  <2>1. /\ UNCHANGED <<orderVars, ci, c, ok, given>>
        /\ client' = client \/ (client = "waiting" /\ client' = "failed")
        /\ \A o \in Objects : ClientSide(o) => heap'[o] = heap[o]
    BY <1>4, ServerAloneEffect
  <2>2. ops' = ops /\ (Taking => Taking')
    BY <2>1 DEF orderVars, Taking
  <2>3. \A p : Behind(p)' <=> Behind(p)
    BY <1>2, <2>1, <2>2 DEF Behind
  <2>4. \A p \in Params : heap'[<<"caller", p>>] = heap[<<"caller", p>>]
    BY <1>1, <2>1 DEF ClientSide
  <2> QED BY <1>0, <2>1, <2>2, <2>3, <2>4, CallerStays
<1>5. CASE Start \/ Finish
  <2>1. c' = c /\ ci' = ci /\ ops' = ops /\ (Taking => Taking')
    BY <1>5 DEF Start, Finish, orderVars, Taking
  <2>2. \A p : Behind(p)' <=> Behind(p)
    BY <1>2, <2>1 DEF Behind
  <2>3. \A p : <<"caller", p>> \notin Frames
    BY DEF Frames
  <2>4. \A p \in Params : heap'[<<"caller", p>>] = heap[<<"caller", p>>]
    BY <1>0, <1>1, <1>5, <2>3 DEF Start, Finish
  <2> QED BY <1>0, <2>1, <2>2, <2>4, CallerStays
<1>6. CASE Call
  <2>1. c' = c /\ ~Taking
    BY <1>6 DEF Call, Taking, TypeInv, PhaseInv
  <2>2. \A p \in Params : heap'[<<"caller", p>>] = heap[<<"caller", p>>]
    BY <1>0, <1>1, <1>6 DEF Call
  <2> QED BY <1>0, <2>1, <2>2, CallerStays
<1>7. CASE CallFails \/ SkipUnmarshal
  <2>1. c' = c /\ heap' = heap /\ ~Taking
    BY <1>7 DEF CallFails, SkipUnmarshal, Taking, TypeInv, PhaseInv
  <2> QED BY <1>0, <2>1, CallerStays
<1>8. CASE ClientMarshal
  <2>1. heap' = heap /\ ~Taking
    BY <1>8 DEF ClientMarshal, Taking, TypeInv, PhaseInv
  <2> DEFINE p == ops[ci]
  <2>2. c' = c \/ (Kind(p) = "string" /\ c' = [c EXCEPT ![p].len = StrLen(c, p)])
    BY <1>8 DEF ClientMarshal, SendWord, SendThread, SendMap, SendString, SendArray, SendSequence
  <2> HIDE DEF p
  <2>3. ASSUME NEW q \in Params
        PROVE /\ c'[q].ptr = c[q].ptr /\ c'[q].val = c[q].val
              /\ Kind(q) = "sequence" => c'[q].len = c[q].len
    <3> DEFINE l == StrLen(c, p)
    <3>1. c' = c \/ (Kind(p) = "string" /\ c' = [c EXCEPT ![p].len = l])
      BY <2>2
    <3> HIDE DEF l
    <3>2. c[q] \in Variable /\ q \in DOMAIN c
      BY <1>0, <1>1
    <3>3. q # p => c'[q] = c[q]
      BY <3>1, <3>2
    <3>4. q = p => c'[q] = c[q] \/ (Kind(q) = "string" /\ c'[q] = [c[q] EXCEPT !.len = l])
      BY <3>1, <3>2
    <3> QED BY <3>2, <3>3, <3>4 DEF Variable
  <2> QED BY <1>0, <2>1, <2>3, CallerStays
<1>9. CASE UNCHANGED vars
  <2>1. UNCHANGED <<c, heap, ops, ci, client, ok>>
    BY <1>9 DEF vars, orderVars, stubVars
  <2>2. \A p : Behind(p)' <=> Behind(p)
    BY <1>2, <2>1 DEF Behind
  <2>3. Taking => Taking'
    BY <2>1 DEF Taking
  <2> QED BY <1>0, <2>1, <2>2, <2>3, CallerStays
<1> QED BY <1>3, <1>4, <1>5, <1>6, <1>7, <1>8, <1>9, CallerUnmarshal, CallerReturn, CallerReply
    DEF Next, OrderNext, ClientNext, ServerNext, ServerAlone

-----------------------------------------------------------------------------
(* The request.                                                            *)

LEMMA CutJunk ==
  ASSUME op \in Operations, NEW n \in 0 .. MaxLength
  PROVE  Cut(Junk, n) = Junk
<1>1. n \in Nat /\ 0 \in 0 .. MaxLength /\ Junk.n = 0
  BY ValueFacts, MaxLengthType
<1>2. CASE n = 0
  <2>1. Cut(Junk, Junk.n) = Junk
    BY ValueFacts, CutWhole
  <2> QED BY <1>1, <1>2, <2>1
<1>3. CASE n # 0
  BY <1>1, <1>3 DEF Cut
<1> QED BY <1>2, <1>3

(* Until an output is stored, the caller's variables stand for what he gave. *)
LEMMA CallerSees ==
  ASSUME TypeInv, Supported(op), GivenInv, CallerInv, stage = "generated",
         NEW p \in Params, ~(Taking /\ HasOut(p)), Kind(p) # "alloc"
  PROVE  /\ Seen(p) = given[p]
         /\ HasIn(p) /\ VarSized(p) =>
              /\ c[p].ptr = <<"caller", p>> /\ Live(c[p].ptr) /\ Content(c[p].ptr) = given[p]
              /\ heap[<<"caller", p>>] = Holding(given[p])
              /\ Kind(p) = "string" => StrLen(c, p) = given[p].n
              /\ Kind(p) # "string" => Elements(c, p) = given[p].n
              /\ Kind(p) = "sequence" => c[p].len = given[p].n
         /\ ~VarSized(p) => c[p].val = given[p]
<1>0. /\ op \in Operations /\ p \in Slots /\ OrderInv /\ heap \in Heaps /\ DOMAIN heap = Objects
      /\ c \in [Slots -> Variable] /\ given[p] \in Value /\ given \in [Slots -> Value]
  BY SlotFacts, HeapDomain DEF TypeInv, StubTypes, OrderInv, OrderTypes
<1>1. CallerKept(p) /\ (Brings(p) => heap[<<"caller", p>>] = Holding(given[p]))
  BY DEF CallerInv
<1>2. Junk \in Value /\ Junk.n = 0 /\ \A n \in 0 .. MaxLength : Length(n).n = n
  BY <1>0, ValueFacts
<1>3. given[p].n \in 0 .. MaxLength /\ Cut(given[p], given[p].n) = given[p]
  BY <1>0, CutWhole
<1>4. VarSized(p) => ~Claimed(p)
  BY <1>0, ClaimedFacts
<1>5. ASSUME VarSized(p), Brings(p)
      PROVE c[p].ptr = <<"caller", p>> /\ Live(c[p].ptr) /\ Content(c[p].ptr) = given[p]
  <2>1. c[p].ptr = <<"caller", p>> /\ <<"caller", p>> \in Objects
    BY <1>0, <1>1, <1>5, ObjectFacts DEF CallerKept
  <2> QED BY <1>0, <1>1, <1>5, <2>1, ContentType
<1>6. ASSUME VarSized(p), ~HasIn(p)
      PROVE given[p] = Junk /\ Content(c[p].ptr) = Junk
  <2>1. given[p] = Junk
    BY <1>0, <1>4, <1>6 DEF GivenInv
  <2>2. CASE Brings(p)
    BY <1>5, <1>6, <2>1, <2>2
  <2>3. CASE ~Brings(p)
    <3>1. c[p].ptr = None /\ None \notin Objects
      BY <1>0, <1>1, <1>6, <2>3, ObjectFacts DEF CallerKept
    <3>2. Content(c[p].ptr) = Junk
      BY <1>0, <3>1 DEF Content, Live
    <3> QED BY <2>1, <3>2
  <2> QED BY <2>2, <2>3
<1>7. ASSUME VarSized(p), HasIn(p), Kind(p) # "string"
      PROVE Elements(c, p) = given[p].n /\ (Kind(p) = "sequence" => c[p].len = given[p].n)
  <2>1. CASE Kind(p) = "sequence"
    BY <1>1, <1>7, <2>1 DEF CallerKept, Elements
  <2>2. CASE Kind(p) = "array" /\ LengthOf(p) = {}
    <3>1. given[p].n = MaxLength
      BY <1>0, <1>7, <2>2 DEF GivenInv, WellFormed, InSlots
    <3> QED BY <2>2, <3>1 DEF Elements
  <2>3. CASE Kind(p) = "array" /\ LengthOf(p) # {}
    <3> DEFINE q == TheLength(p)
    <3>1. q \in Params /\ q \in Slots /\ Claimed(q) /\ ArrayOf(q) = p
      BY <1>0, <2>3, ClaimedFacts, ArrayOfLength
    <3>2. (HasIn(q) <=> HasIn(p)) /\ (HasOut(q) <=> HasOut(p)) /\ ~VarSized(q)
      BY <1>0, <3>1, ClaimedFacts
    <3>3. given[q] = Length(given[p].n)
      BY <1>7, <3>1, <3>2 DEF GivenInv, WellFormed, InSlots
    <3>4. c[q].val = given[q]
      BY <3>1, <3>2 DEF CallerInv, CallerKept
    <3>5. c[q].val.n = given[p].n
      BY <1>2, <1>3, <3>3, <3>4
    <3> QED BY <2>3, <3>5 DEF Elements
  <2> QED BY <1>7, <2>1, <2>2, <2>3 DEF VarSized
<1>8. Elements(c, p) \in 0 .. MaxLength
  BY <1>0, ElementsType
<1>9. HasIn(p) /\ VarSized(p) => Brings(p)
  BY DEF Brings
<1>10. Seen(p) = given[p]
  <2>1. CASE ~VarSized(p)
    BY <1>1, <2>1 DEF Seen, CallerKept
  <2>2. CASE VarSized(p) /\ HasIn(p)
    BY <1>3, <1>5, <1>7, <1>9, <2>2 DEF Seen
  <2>3. CASE VarSized(p) /\ ~HasIn(p)
    BY <1>0, <1>6, <1>8, <2>3, CutJunk DEF Seen
  <2> QED BY <2>1, <2>2, <2>3
<1>11. HasIn(p) /\ VarSized(p) => StrLen(c, p) = given[p].n
  BY <1>5, <1>9 DEF StrLen
<1> QED BY <1>1, <1>5, <1>7, <1>9, <1>10, <1>11 DEF CallerKept

OnWire(p, v) == IF Kind(p) = "thread" THEN [v EXCEPT !.wire = TRUE] ELSE v

(* The part of the request that is of slot p.                              *)
Requested(p) ==
  /\ ~VarSized(p) => req.word[p] = OnWire(p, given[p])
  /\ VarSized(p) => /\ req.len[p] = given[p].n
                    /\ ~Carries(p, "in") => req.ptr[p] = <<"caller", p>>

RequestInv ==
  /\ \A i \in 1 .. Len(ops) :
       server # "idle" \/ (client = "marshal" /\ i < ci) =>
         /\ HasIn(ops[i]) => Requested(ops[i])
         /\ Carries(ops[i], "in") => /\ Before(ops, i, "in") + 1 \in DOMAIN req.var
                                     /\ req.var[Before(ops, i, "in") + 1] = given[ops[i]]
  /\ client = "marshal" => Len(req.var) = Before(ops, ci, "in")
  /\ client = "start" => req = EmptyMessage

(* One operation adds to the request what the caller gave for it.          *)
LEMMA MarshalEffect ==
  ASSUME TypeInv, Supported(op), GivenInv, CallerInv, ClientMarshal, NEW p, p = ops[ci]
  PROVE  /\ p \in Slots /\ ci \in 1 .. Len(ops) /\ ci' = ci + 1 /\ client = "marshal"
         /\ client' = client /\ server' = server /\ server = "idle"
         /\ \A q \in Slots : q # p => /\ req'.word[q] = req.word[q] /\ req'.len[q] = req.len[q]
                                      /\ req'.ptr[q] = req.ptr[q]
         /\ HasIn(p) => Requested(p)'
         /\ req'.var = IF Carries(p, "in") THEN Append(req.var, given[p]) ELSE req.var
         /\ misused' = misused
<1>1. /\ op \in Operations /\ op' = op /\ heap \in Heaps /\ req \in Message /\ Len(ops) \in Nat
      /\ \A q : Kind(q)' = Kind(q) /\ VarSized(q)' = VarSized(q)
      /\ \A q, dir : Carries(q, dir)' = Carries(q, dir)
  <2>1. op' = op
    BY DEF ClientMarshal, orderVars
  <2> QED BY <2>1, SameSlots, RepliesFacts DEF TypeInv, StubTypes, Carries
<1>2. /\ ci \in 1 .. Len(ops) /\ ci' = ci + 1 /\ client = "marshal" /\ given' = given
      /\ client' = client /\ server' = server /\ server = "idle" /\ stage = "generated" /\ ~Taking
  BY <1>1 DEF ClientMarshal, TypeInv, StubTypes, PhaseInv, Taking
<1>3. p \in Slots /\ p \in Params
  BY <1>2, RepliesFacts DEF TypeInv
<1>4. \/ ~HasIn(p) /\ UNCHANGED <<req, c, misused>>
      \/ HasIn(p) /\ (\/ SendWord(p) \/ SendThread(p) \/ SendMap(p)
                      \/ SendString(p) \/ SendArray(p) \/ SendSequence(p))
  BY DEF ClientMarshal
<1>5. CASE ~HasIn(p)
  <2>1. ~Carries(p, "in")
    BY <1>1, <1>3, <1>5, CarriesFacts
  <2> QED BY <1>2, <1>3, <1>4, <1>5, <2>1
<1>6. CASE HasIn(p)
  <2>1. Kind(p) # "alloc" /\ given[p] \in Value /\ ~given[p].wire
    BY <1>3, <1>6 DEF HasIn, GivenInv, WellFormed, InSlots
  <2>2. CASE ~VarSized(p)
    <3>1. c[p].val = given[p]
      BY <1>2, <1>3, <2>1, <2>2, CallerSees
    <3>2. Wire(given[p]) = [given[p] EXCEPT !.wire = TRUE] /\ Wire(given[p]) \in Value
      BY <1>1, <2>1, WireType
    <3>3. SendWord(p) \/ SendThread(p) \/ SendMap(p)
      BY <1>4, <1>6, <2>2 DEF SendString, SendArray, SendSequence, VarSized
    <3>4. req' = AddWord(req, p, OnWire(p, given[p])) /\ misused' = misused
      <4>1. CASE SendThread(p)
        <5>1. OnWire(p, given[p]) = Wire(c[p].val)
          BY <3>1, <3>2, <4>1 DEF SendThread, OnWire
        <5> QED BY <4>1, <5>1 DEF SendThread
      <4>2. CASE SendWord(p) \/ SendMap(p)
        <5>1. OnWire(p, given[p]) = c[p].val
          BY <3>1, <4>2 DEF SendWord, SendMap, OnWire
        <5> QED BY <4>2, <5>1 DEF SendWord, SendMap
      <4> QED BY <3>3, <4>1, <4>2
    <3>5. OnWire(p, given[p]) \in Value
      BY <2>1, <3>2 DEF OnWire
    <3>6. /\ req'.word[p] = OnWire(p, given[p])
          /\ \A q \in Slots : q # p => /\ req'.word[q] = req.word[q] /\ req'.len[q] = req.len[q]
                                       /\ req'.ptr[q] = req.ptr[q]
          /\ req'.var = req.var
      BY <1>1, <1>3, <3>4, <3>5, AddWordType
    <3>7. ~Carries(p, "in")
      BY <2>2 DEF Carries
    <3>8. Requested(p)'
      BY <1>1, <1>2, <2>2, <3>6 DEF Requested, OnWire
    <3> QED BY <1>2, <1>3, <3>4, <3>6, <3>7, <3>8
  <2>3. CASE VarSized(p)
    <3>1. /\ c[p].ptr = <<"caller", p>> /\ Live(c[p].ptr) /\ Content(c[p].ptr) = given[p]
          /\ Kind(p) = "string" => StrLen(c, p) = given[p].n
          /\ Kind(p) # "string" => Elements(c, p) = given[p].n
          /\ Kind(p) = "sequence" => c[p].len = given[p].n
      BY <1>2, <1>3, <1>6, <2>1, <2>3, CallerSees
    <3>2. SendString(p) \/ SendArray(p) \/ SendSequence(p)
      BY <1>4, <1>6, <2>3 DEF SendWord, SendThread, SendMap, VarSized
    <3>3. SendData(p, given[p].n)
      BY <3>1, <3>2 DEF SendString, SendArray, SendSequence
    <3> DEFINE n == given[p].n
               o == <<"caller", p>>
    <3>4. req' = AddData(req, p, "in", o, n) /\ misused' = misused \cup Dead({o})
      BY <3>1, <3>3 DEF SendData
    <3>5. n \in 0 .. MaxLength /\ o \in Pointers /\ Cut(Content(o), n) = given[p] /\ Dead({o}) = {}
      BY <1>1, <1>3, <2>1, <3>1, CutWhole, ObjectFacts DEF Dead
    <3> HIDE DEF n, o
    <3>6. /\ \A q \in Slots : q # p => /\ req'.len[q] = req.len[q] /\ req'.ptr[q] = req.ptr[q]
          /\ req'.word = req.word /\ req'.len[p] = n
          /\ <<p, "in">> \notin op.inline => req'.ptr[p] = o /\ req'.var = req.var
          /\ <<p, "in">> \in op.inline => req'.var = Append(req.var, given[p])
      BY <1>1, <1>3, <3>4, <3>5, AddDataType
    <3>7. misused' = misused
      BY <3>4, <3>5
    <3>8. Requested(p)'
      BY <1>1, <1>2, <2>3, <3>6 DEF Requested, Carries, n, o
    <3>9. req'.var = IF Carries(p, "in") THEN Append(req.var, given[p]) ELSE req.var
      BY <2>3, <3>6 DEF Carries
    <3> QED BY <1>2, <1>3, <3>6, <3>7, <3>8, <3>9
  <2> QED BY <2>2, <2>3
<1> QED BY <1>5, <1>6

LEMMA RequestStays ==
  ASSUME TypeInv, RequestInv, op' = op, ops' = ops, given' = given, req' = req, server # "idle" \/ server' = "idle",
         client' = "marshal" => client = "marshal" /\ ci' = ci,
         client' # "start"
  PROVE  RequestInv'
<1>1. /\ \A q : VarSized(q)' = VarSized(q) /\ HasIn(q)' = HasIn(q) /\ Kind(q)' = Kind(q)
      /\ \A q, dir : Carries(q, dir)' = Carries(q, dir)
  BY SameSlots DEF Carries
<1>2. \A i, dir : Before(ops, i, dir)' = Before(ops, i, dir)
  BY <1>1 DEF Before, Pieces
<1>3. \A q : Requested(q)' = Requested(q)
  BY <1>1 DEF Requested, OnWire
<1>4. ASSUME client' = "marshal" PROVE Len(req'.var) = Before(ops, ci, "in")'
  <2>1. client = "marshal" /\ ci' = ci
    BY <1>4
  <2>2. Before(ops, ci, "in")' = Before(ops, ci, "in")
    BY <1>1, <2>1 DEF Before, Pieces
  <2> QED BY <2>1, <2>2 DEF RequestInv
<1> QED BY <1>1, <1>2, <1>3, <1>4 DEF RequestInv

LEMMA BeforeStays ==
  ASSUME op' = op, ops' = ops
  PROVE  /\ \A q, dir : Carries(q, dir)' = Carries(q, dir)
         /\ \A i, dir : Before(ops, i, dir)' = Before(ops, i, dir)
         /\ \A i, dir : Before(Replies, i, dir)' = Before(Replies, i, dir)
<1>1. \A q, dir : Carries(q, dir)' = Carries(q, dir)
  BY SameSlots DEF Carries
<1>2. Replies' = Replies
  BY SameSlots DEF Replies
<1> QED BY <1>1, <1>2 DEF Before, Pieces

LEMMA RequestMarshal ==
  ASSUME TypeInv, Supported(op), GivenInv, CallerInv, RequestInv, ClientMarshal
  PROVE  RequestInv'
<1>1. PICK p : p = ops[ci]
  OBVIOUS
<1>2. /\ p \in Slots /\ ci \in 1 .. Len(ops) /\ ci' = ci + 1 /\ client = "marshal"
      /\ client' = client /\ server' = server /\ server = "idle"
      /\ \A q \in Slots : q # p => /\ req'.word[q] = req.word[q] /\ req'.len[q] = req.len[q]
                                   /\ req'.ptr[q] = req.ptr[q]
      /\ HasIn(p) => Requested(p)'
      /\ req'.var = IF Carries(p, "in") THEN Append(req.var, given[p]) ELSE req.var
  BY <1>1, MarshalEffect
<1>3. /\ op' = op /\ ops' = ops /\ given' = given /\ stage = "generated" /\ OrderInv /\ op \in Operations
      /\ req \in Message
  BY DEF ClientMarshal, orderVars, TypeInv, StubTypes, PhaseInv, OrderInv, OrderTypes
<1>4. /\ \A q : VarSized(q)' = VarSized(q) /\ HasIn(q)' = HasIn(q) /\ Kind(q)' = Kind(q)
      /\ \A q, dir : Carries(q, dir)' = Carries(q, dir)
      /\ \A i, dir : Before(ops, i, dir)' = Before(ops, i, dir)
  BY <1>3, SameSlots, BeforeStays
<1>5. /\ \A i, j \in 1 .. Len(ops) : ops[i] = ops[j] => i = j
      /\ \A i \in 1 .. Len(ops) : ops[i] \in Slots
      /\ DOMAIN ops = 1 .. Len(ops) /\ Len(ops) \in Nat
  BY <1>3, GeneratedFacts
<1>6. req.var \in Seq(Value) /\ given[p] \in Value
  BY <1>2, <1>3 DEF Message, TypeInv, StubTypes
<1>7. Len(req.var) = Before(ops, ci, "in") /\ Len(req.var) \in Nat /\ DOMAIN req.var = 1 .. Len(req.var)
  BY <1>2, <1>6 DEF RequestInv
<1>8. Before(ops, ci + 1, "in") = IF Carries(p, "in") THEN Before(ops, ci, "in") + 1 ELSE Before(ops, ci, "in")
  BY <1>1, <1>2, <1>5, BeforeFacts
<1>9. /\ Len(req'.var) = Before(ops, ci + 1, "in")
      /\ \A k \in DOMAIN req.var : k \in DOMAIN req'.var /\ req'.var[k] = req.var[k]
      /\ Carries(p, "in") => Before(ops, ci, "in") + 1 \in DOMAIN req'.var
                             /\ req'.var[Before(ops, ci, "in") + 1] = given[p]
  <2>1. CASE Carries(p, "in")
    <3>1. req'.var = Append(req.var, given[p])
      BY <1>2, <2>1
    <3> QED BY <1>6, <1>7, <1>8, <2>1, <3>1
  <2>2. CASE ~Carries(p, "in")
    <3>1. req'.var = req.var
      BY <1>2, <2>2
    <3> QED BY <1>7, <1>8, <2>2, <3>1
  <2> QED BY <2>1, <2>2
<1>10. ASSUME NEW i \in 1 .. Len(ops), i < ci + 1
       PROVE  /\ HasIn(ops[i]) => Requested(ops[i])'
              /\ Carries(ops[i], "in") => /\ Before(ops, i, "in") + 1 \in DOMAIN req'.var
                                          /\ req'.var[Before(ops, i, "in") + 1] = given[ops[i]]
  <2>1. CASE i = ci
    BY <1>1, <1>2, <1>3, <1>9, <2>1 DEF Requested, OnWire
  <2>2. CASE i # ci
    <3>1. i < ci
      BY <1>2, <1>10, <2>2
    <3>2. /\ HasIn(ops[i]) => Requested(ops[i])
          /\ Carries(ops[i], "in") => /\ Before(ops, i, "in") + 1 \in DOMAIN req.var
                                      /\ req.var[Before(ops, i, "in") + 1] = given[ops[i]]
      BY <1>2, <3>1 DEF RequestInv
    <3>3. ops[i] \in Slots /\ ops[i] # p
      BY <1>1, <1>2, <1>5, <2>2
    <3>4. HasIn(ops[i]) => Requested(ops[i])'
      BY <1>2, <1>3, <1>4, <3>2, <3>3 DEF Requested, OnWire
    <3> QED BY <1>9, <3>2, <3>4
  <2> QED BY <2>1, <2>2
<1>11. \A i \in 1 .. Len(ops') :
          server' # "idle" \/ (client' = "marshal" /\ i < ci') =>
            /\ HasIn(ops[i])' => Requested(ops[i])'
            /\ Carries(ops[i], "in")' => /\ (Before(ops, i, "in") + 1)' \in DOMAIN req'.var
                                         /\ req'.var[(Before(ops, i, "in") + 1)'] = given'[ops'[i]]
  BY <1>2, <1>3, <1>4, <1>10
<1>12. (Before(ops, ci, "in"))' = Before(ops, ci + 1, "in")
  BY <1>2, <1>3, <1>4 DEF Before, Pieces
<1> QED BY <1>2, <1>9, <1>11, <1>12 DEF RequestInv

LEMMA RequestStep ==
  ASSUME TypeInv, Supported(op), SidesInv, GivenInv, CallerInv, RequestInv, [Next]_vars
  PROVE  RequestInv'
<1>0. op' = op /\ given' = given /\ op \in Operations
  BY SidesStep
<1>1. CASE OrderNext /\ UNCHANGED stubVars
  <2>1. client = "start" /\ server = "idle" /\ UNCHANGED stubVars
    BY <1>1, GeneratingEffect
  <2>2. EmptyMessage' = EmptyMessage
    BY <1>0, SameSlots
  <2> QED BY <2>1, <2>2 DEF RequestInv, stubVars
<1>2. CASE ServerAlone
  <2>1. UNCHANGED <<orderVars, ci, req>> /\ server # "idle" /\ client' \in {client, "failed"}
    BY <1>2, ServerAloneEffect
  <2>2. client # "start"
    BY <2>1 DEF TypeInv, PhaseInv
  <2> QED BY <1>0, <2>1, <2>2, RequestStays DEF orderVars
<1>3. CASE Reply
  <2>1. UNCHANGED <<orderVars, ci, req>> /\ server # "idle" /\ client' \in {client, "failed", "unmarshal"}
    BY <1>3, ReplyEffect
  <2>2. client # "start"
    BY <2>1 DEF TypeInv, PhaseInv
  <2> QED BY <1>0, <2>1, <2>2, RequestStays DEF orderVars
<1>4. CASE Start
  <2>1. /\ req' = req /\ ops' = ops /\ ci' = ci /\ ci = 1 /\ client = "start" /\ client' = "marshal"
        /\ server = "idle" /\ server' = server
    BY <1>4 DEF Start, TypeInv, PhaseInv, orderVars
  <2>2. req = EmptyMessage /\ Len(req.var) = 0
    BY <1>0, <2>1, EmptyMessageType DEF RequestInv
  <2>3. (Before(ops, ci, "in"))' = 0
    <3>1. (Before(ops, ci, "in"))' = Before(ops, 1, "in")
      BY <1>0, <2>1, BeforeStays DEF Before, Pieces
    <3> QED BY <3>1, BeforeFirst
  <2> QED BY <2>1, <2>2, <2>3 DEF RequestInv
<1>5. CASE Call
  <2>1. /\ req' = req /\ ops' = ops /\ ci > Len(ops) /\ client = "marshal" /\ client' \in {"unmarshal", "waiting"}
    BY <1>5 DEF Call, orderVars
  <2>2. ci \in Nat /\ Len(ops) \in Nat
    BY RepliesFacts DEF TypeInv, StubTypes
  <2>3. /\ \A q : VarSized(q)' = VarSized(q) /\ HasIn(q)' = HasIn(q) /\ Kind(q)' = Kind(q)
        /\ \A q, dir : Carries(q, dir)' = Carries(q, dir)
        /\ \A i, dir : Before(ops, i, dir)' = Before(ops, i, dir)
    BY <1>0, <2>1, SameSlots, BeforeStays
  <2>4. \A q : Requested(q)' = Requested(q)
    BY <1>0, <2>1, <2>3 DEF Requested, OnWire
  <2>5. \A i \in 1 .. Len(ops) : i < ci
    BY <2>1, <2>2
  <2>6. \A i \in 1 .. Len(ops) :
         /\ HasIn(ops[i]) => Requested(ops[i])
         /\ Carries(ops[i], "in") => /\ Before(ops, i, "in") + 1 \in DOMAIN req.var
                                     /\ req.var[Before(ops, i, "in") + 1] = given[ops[i]]
    BY <2>1, <2>5 DEF RequestInv
  <2> QED BY <1>0, <2>1, <2>3, <2>4, <2>6 DEF RequestInv
<1>6. CASE CallFails \/ ClientUnmarshal \/ Finish \/ SkipUnmarshal \/ Return
  <2>1. /\ req' = req /\ ops' = ops /\ server' = server /\ client' \notin {"start", "marshal"}
    BY <1>6 DEF CallFails, ClientUnmarshal, Finish, SkipUnmarshal, Return, orderVars
  <2> QED BY <1>0, <2>1, RequestStays
<1>7. CASE UNCHANGED vars
  <2>1. /\ req' = req /\ ops' = ops /\ server' = server /\ client' = client /\ ci' = ci
    BY <1>7 DEF vars, orderVars, stubVars
  <2>2. CASE client # "start"
    BY <1>0, <2>1, <2>2, RequestStays
  <2>3. CASE client = "start"
    <3>1. server = "idle"
      BY <2>3 DEF TypeInv, PhaseInv
    <3>2. EmptyMessage' = EmptyMessage
      BY <1>0, SameSlots
    <3> QED BY <2>1, <2>3, <3>1, <3>2 DEF RequestInv
  <2> QED BY <2>2, <2>3
<1> QED BY <1>1, <1>2, <1>3, <1>4, <1>5, <1>6, <1>7, RequestMarshal
    DEF Next, OrderNext, ClientNext, ServerNext, ServerAlone

-----------------------------------------------------------------------------
(* What the server has received.                                           *)

Got(p) ==
  /\ ~VarSized(p) /\ HasIn(p) => s[p].val = given[p]
  /\ VarSized(p) => s[p].ptr = ServerBuffer(p)
  /\ VarSized(p) /\ HasIn(p) => /\ s[p].len = given[p].n
                                /\ heap[ServerBuffer(p)] = Holding(given[p])

ServerInv ==
  /\ server = "unmarshal" =>
       /\ \A p \in Items("in") : heap[<<"pool", p>>] = Holding(given[p])
       /\ \A i \in 1 .. Len(ops) : i < si => Got(ops[i])
       /\ read.s = Before(ops, si, "in")
  /\ server = "running" => \A p \in Params : VarSized(p) => s[p].ptr = ServerBuffer(p)

LEMMA ServerStays ==
  ASSUME TypeInv, ServerInv, op' = op, ops' = ops, given' = given, server' = server, stage = "generated",
         UNCHANGED <<s, si>>, read'.s = read.s,
         \A o \in Objects : ~ClientSide(o) => heap'[o] = heap[o]
  PROVE  ServerInv'
<1>1. /\ \A q : VarSized(q)' = VarSized(q) /\ HasIn(q)' = HasIn(q) /\ ServerBuffer(q)' = ServerBuffer(q)
      /\ \A dir : Items(dir)' = Items(dir)
      /\ Params' = Params
      /\ \A i, dir : Before(ops, i, dir)' = Before(ops, i, dir)
      /\ op \in Operations
  BY SameSlots, BeforeStays DEF TypeInv, OrderInv, OrderTypes
<1>2. ASSUME NEW q \in Slots
      PROVE heap'[<<"pool", q>>] = heap[<<"pool", q>>] /\ heap'[ServerBuffer(q)] = heap[ServerBuffer(q)]
  <2>1. <<"pool", q>> \in Objects /\ ServerBuffer(q) \in Objects
    BY ObjectFacts
  <2>2. ~ClientSide(<<"pool", q>>) /\ ~ClientSide(ServerBuffer(q))
    BY DEF ClientSide, ServerBuffer
  <2> QED BY <2>1, <2>2
<1>3. \A i \in 1 .. Len(ops) : ops[i] \in Slots
  BY GeneratedFacts DEF TypeInv
<1>4. \A q \in Slots : Got(q) => Got(q)'
  BY <1>1, <1>2 DEF Got
<1>5. (Before(ops, si, "in"))' = Before(ops, si, "in")
  BY <1>1 DEF Before, Pieces
<1>6. Items("in") \subseteq Slots
  BY DEF Items
<1>7. \A p \in Items("in") : heap[<<"pool", p>>] = Holding(given[p]) =>
                              heap'[<<"pool", p>>] = Holding(given[p])
  BY <1>2, <1>6
<1>8. server' = "unmarshal" =>
       /\ \A p \in Items("in") : heap'[<<"pool", p>>] = Holding(given[p])
       /\ \A i \in 1 .. Len(ops) : i < si => Got(ops[i])'
       /\ read'.s = (Before(ops, si, "in"))'
  BY <1>3, <1>4, <1>5, <1>7 DEF ServerInv
<1> QED BY <1>1, <1>8 DEF ServerInv, Holding, Got

(* The kernel copies what the request names.                               *)
LEMMA ServerCall ==
  ASSUME TypeInv, Supported(op), GivenInv, CallerInv, RequestInv, Call
  PROVE  ServerInv'
<1>1. /\ op \in Operations /\ op' = op /\ ops' = ops /\ given' = given /\ heap \in Heaps /\ DOMAIN heap = Objects
      /\ stage = "generated" /\ client = "marshal" /\ ci > Len(ops) /\ server' = "unmarshal"
      /\ si' = si /\ si = 1 /\ read' = read /\ read.s = 0 /\ ~Taking
  BY HeapDomain DEF Call, orderVars, TypeInv, StubTypes, PhaseInv, OrderInv, OrderTypes, Taking
<1>2. /\ \A dir : Items(dir)' = Items(dir)
      /\ \A i, dir : Before(ops, i, dir)' = Before(ops, i, dir)
  BY <1>1, SameSlots, BeforeStays
<1>3. Len(ops) \in Nat /\ ci \in Nat
  BY RepliesFacts DEF TypeInv, StubTypes
<1>4. ASSUME NEW p \in Items("in")
      PROVE heap'[<<"pool", p>>] = Holding(given[p])
  <2>0. p \in Slots
    BY DEF Items
  <2>1. VarSized(p) /\ HasIn(p) /\ p \in Params /\ ~Carries(p, "in")
    BY <1>1, <2>0, CarriesFacts
  <2>2. Kind(p) # "alloc" /\ ~Claimed(p)
    BY <1>1, <2>0, <2>1, ClaimedFacts DEF HasIn
  <2>3. PICK i \in 1 .. Len(ops) : ops[i] = p
    BY <1>1, <2>1, <2>2, GeneratedFacts DEF TypeInv
  <2>4. i < ci
    BY <1>1, <1>3, <2>3
  <2>5. Requested(p)
    BY <1>1, <2>1, <2>3, <2>4 DEF RequestInv
  <2>6. req.ptr[p] = <<"caller", p>> /\ req.len[p] = given[p].n
    BY <2>1, <2>5 DEF Requested
  <2>7. Content(req.ptr[p]) = given[p] /\ given[p] \in Value
    <3>1. c[p].ptr = <<"caller", p>> /\ Content(c[p].ptr) = given[p]
      BY <1>1, <2>1, <2>2, CallerSees
    <3>2. given[p] \in Value
      BY <2>0 DEF TypeInv, StubTypes
    <3> QED BY <2>6, <3>1, <3>2
  <2>8. Cut(Content(req.ptr[p]), req.len[p]) = given[p]
    BY <1>1, <2>6, <2>7, CutWhole
  <2>9. <<"pool", p>> \in Objects /\ <<"pool", p>>[1] = "pool" /\ <<"pool", p>>[2] = p
    BY <2>0, ObjectFacts
  <2>10. heap'[<<"pool", p>>] = Holding(Cut(Content(req.ptr[p]), req.len[p]))
    BY <1>1, <2>9 DEF Call
  <2> QED BY <2>8, <2>10
<1>5. (Before(ops, si, "in"))' = 0
  <2>1. (Before(ops, si, "in"))' = Before(ops, 1, "in")
    BY <1>1, BeforeStays DEF Before, Pieces
  <2> QED BY <2>1, BeforeFirst
<1>6. \A i \in 1 .. Len(ops) : ~(i < si)
  BY <1>1, <1>3
<1> QED BY <1>1, <1>2, <1>4, <1>5, <1>6 DEF ServerInv, Holding

(* One operation takes from the request what the caller gave for it.       *)
LEMMA ReceiveEffect ==
  ASSUME TypeInv, Supported(op), GivenInv, RequestInv, ServerInv, ServerUnmarshal, NEW p, p = ops[si]
  PROVE  /\ p \in Slots /\ p \in Params /\ si \in 1 .. Len(ops) /\ si' = si + 1
         /\ server = "unmarshal" /\ server' = server
         /\ op \in Operations /\ op' = op /\ ops' = ops /\ given' = given /\ stage = "generated"
         /\ \A q \in Slots : q # p => s'[q] = s[q]
         /\ \A o \in Objects : o # ServerBuffer(p) => heap'[o] = heap[o]
         /\ ~Carries(p, "in") => heap' = heap /\ read'.s = read.s
         /\ Carries(p, "in") => read'.s = read.s + 1
         /\ Got(p)'
<1>1. /\ op \in Operations /\ op' = op /\ heap \in Heaps /\ DOMAIN heap = Objects /\ req \in Message
      /\ Len(ops) \in Nat /\ s \in [Slots -> Variable] /\ read \in [{"c", "s"} -> Nat]
      /\ \A q : Kind(q)' = Kind(q) /\ VarSized(q)' = VarSized(q) /\ HasIn(q)' = HasIn(q)
                /\ ServerBuffer(q)' = ServerBuffer(q)
  <2>1. op' = op
    BY DEF ServerUnmarshal, orderVars
  <2> QED BY <2>1, SameSlots, RepliesFacts, HeapDomain DEF TypeInv, StubTypes
<1>2. /\ si \in 1 .. Len(ops) /\ si' = si + 1 /\ server = "unmarshal" /\ server' = server
      /\ ops' = ops /\ given' = given
  BY <1>1 DEF ServerUnmarshal, TypeInv, StubTypes, orderVars
<1>3. stage = "generated" /\ p \in Params /\ p \in Slots
  BY <1>2, RepliesFacts DEF TypeInv, PhaseInv
<1>4. \/ Kind(p) = "alloc" /\ UNCHANGED <<s, heap, read>>
      \/ ReceiveWord(p) \/ ReceiveThread(p) \/ ReceiveData(p)
  BY DEF ServerUnmarshal
<1>5. \A q \in Slots : s[q] \in Variable
  BY <1>1
<1>6. /\ HasIn(p) => Requested(p) /\ given[p] \in Value /\ ~given[p].wire
      /\ Carries(p, "in") => /\ Before(ops, si, "in") + 1 \in DOMAIN req.var
                             /\ req.var[Before(ops, si, "in") + 1] = given[p]
      /\ read.s = Before(ops, si, "in") /\ read.s \in Nat
  <2>1. read.s \in Nat
    BY <1>1
  <2>2. HasIn(p) => given[p] \in Value /\ ~given[p].wire
    BY <1>3 DEF GivenInv, WellFormed, InSlots
  <2> QED BY <1>2, <2>1, <2>2 DEF RequestInv, ServerInv
<1>7. CASE ~VarSized(p)
  <2>1. ~Carries(p, "in")
    BY <1>7 DEF Carries
  <2>2. heap' = heap /\ read' = read
    BY <1>4, <1>7 DEF ReceiveWord, ReceiveThread, ReceiveData
  <2>3. /\ \A q \in Slots : q # p => s'[q] = s[q]
        /\ HasIn(p) => s'[p].val = given[p]
    <3>1. CASE Kind(p) = "alloc" /\ UNCHANGED <<s, heap, read>>
      BY <3>1 DEF HasIn
    <3>2. CASE ReceiveWord(p)
      <4> DEFINE v == IF HasIn(p) THEN req.word[p] ELSE Junk
      <4>1. s' = [s EXCEPT ![p].val = v] /\ Kind(p) # "thread"
        BY <3>2 DEF ReceiveWord
      <4>2. HasIn(p) => v = given[p]
        BY <1>6, <1>7, <4>1 DEF Requested, OnWire
      <4> HIDE DEF v
      <4> QED BY <1>1, <1>3, <1>5, <4>1, <4>2 DEF Variable
    <3>3. CASE ReceiveThread(p)
      <4> DEFINE v == IF HasIn(p) THEN Unwire(req.word[p]) ELSE Junk
      <4>1. s' = [s EXCEPT ![p].val = v] /\ Kind(p) = "thread"
        BY <3>3 DEF ReceiveThread
      <4>2. HasIn(p) => req.word[p] = [given[p] EXCEPT !.wire = TRUE]
        BY <1>6, <1>7, <4>1 DEF Requested, OnWire
      <4>3. HasIn(p) => Unwire([given[p] EXCEPT !.wire = TRUE]) = given[p]
        BY <1>1, <1>6, WireType
      <4>4. HasIn(p) => v = given[p]
        BY <4>2, <4>3
      <4> HIDE DEF v
      <4> QED BY <1>1, <1>3, <1>5, <4>1, <4>4 DEF Variable
    <3> QED BY <1>4, <1>7, <3>1, <3>2, <3>3 DEF ReceiveData
  <2>4. Got(p)'
    BY <1>1, <1>2, <1>7, <2>3 DEF Got
  <2> QED BY <1>1, <1>2, <1>3, <2>1, <2>2, <2>3, <2>4
<1>8. CASE VarSized(p)
  <2>1. ReceiveData(p)
    BY <1>4, <1>8 DEF ReceiveWord, ReceiveThread, VarSized
  <2> DEFINE l == IF HasIn(p) THEN req.len[p] ELSE s[p].len
             b == ServerBuffer(p)
  <2>2. s' = [s EXCEPT ![p] = [s[p] EXCEPT !.ptr = b, !.len = l]]
    BY <2>1, <1>1, <1>3, <1>5 DEF ReceiveData, Variable
  <2>3. b \in Objects
    BY <1>3, ObjectFacts
  <2>4. HasIn(p) => l = given[p].n
    BY <1>6, <1>8 DEF Requested
  <2>5. CASE Carries(p, "in")
    <3>1. /\ heap' = [heap EXCEPT ![b] = Holding(NextPiece(req, read.s))]
          /\ read' = [read EXCEPT !.s = @ + 1]
      BY <2>1, <2>5 DEF ReceiveData, Carries
    <3>2. NextPiece(req, read.s) = given[p]
      <4>1. req.var \in Seq(Value)
        BY <1>1 DEF Message
      <4>2. read.s + 1 \in 1 .. Len(req.var) /\ req.var[read.s + 1] = given[p]
        BY <1>6, <2>5, <4>1
      <4>3. read.s < Len(req.var)
        BY <1>6, <4>1, <4>2
      <4> QED BY <4>2, <4>3 DEF NextPiece
    <3> DEFINE h == Holding(given[p])
    <3>3. heap' = [heap EXCEPT ![b] = h]
      BY <3>1, <3>2
    <3> HIDE DEF b, l, h
    <3>4. heap'[b] = h /\ \A o \in Objects : o # b => heap'[o] = heap[o]
      BY <1>1, <2>3, <3>3
    <3>5. read'.s = read.s + 1
      BY <1>1, <3>1
    <3>6. s'[p].ptr = b /\ s'[p].len = l /\ \A q \in Slots : q # p => s'[q] = s[q]
      BY <1>1, <1>3, <1>5, <2>2 DEF Variable
    <3>7. Got(p)'
      BY <1>1, <1>2, <1>8, <2>4, <3>4, <3>6 DEF Got, b, h, Holding
    <3> QED BY <1>1, <1>2, <1>3, <2>5, <3>4, <3>5, <3>6, <3>7 DEF b
  <2>6. CASE ~Carries(p, "in")
    <3>1. heap' = heap /\ read' = read
      BY <1>8, <2>1, <2>6 DEF ReceiveData, Carries
    <3>2. HasIn(p) => heap[b] = Holding(given[p])
      <4>1. ASSUME HasIn(p) PROVE p \in Items("in") /\ b = <<"pool", p>>
        BY <1>1, <1>3, <1>8, <2>6, <4>1, CarriesFacts DEF Carries, ServerBuffer
      <4> QED BY <1>2, <4>1 DEF ServerInv
    <3> HIDE DEF b, l
    <3>3. s'[p].ptr = b /\ s'[p].len = l /\ \A q \in Slots : q # p => s'[q] = s[q]
      BY <1>1, <1>3, <1>5, <2>2 DEF Variable
    <3>4. Got(p)'
      BY <1>1, <1>2, <1>8, <2>4, <3>1, <3>2, <3>3 DEF Got, b, Holding
    <3> QED BY <1>1, <1>2, <1>3, <2>6, <3>1, <3>3, <3>4
  <2> QED BY <2>5, <2>6
<1> QED BY <1>7, <1>8

LEMMA ServerReceive ==
  ASSUME TypeInv, Supported(op), GivenInv, RequestInv, ServerInv, ServerUnmarshal
  PROVE  ServerInv'
<1>1. PICK p : p = ops[si]
  OBVIOUS
<1>2. /\ p \in Slots /\ p \in Params /\ si \in 1 .. Len(ops) /\ si' = si + 1
      /\ server = "unmarshal" /\ server' = server
      /\ op \in Operations /\ op' = op /\ ops' = ops /\ given' = given /\ stage = "generated"
      /\ \A q \in Slots : q # p => s'[q] = s[q]
      /\ \A o \in Objects : o # ServerBuffer(p) => heap'[o] = heap[o]
      /\ ~Carries(p, "in") => heap' = heap /\ read'.s = read.s
      /\ Carries(p, "in") => read'.s = read.s + 1
      /\ Got(p)'
  BY <1>1, ReceiveEffect
<1>3. /\ \A q : VarSized(q)' = VarSized(q) /\ HasIn(q)' = HasIn(q) /\ ServerBuffer(q)' = ServerBuffer(q)
      /\ \A dir : Items(dir)' = Items(dir)
      /\ \A i, dir : Before(ops, i, dir)' = Before(ops, i, dir)
  BY <1>2, SameSlots, BeforeStays
<1>4. /\ \A i, j \in 1 .. Len(ops) : ops[i] = ops[j] => i = j
      /\ \A i \in 1 .. Len(ops) : ops[i] \in Slots
      /\ DOMAIN ops = 1 .. Len(ops) /\ Len(ops) \in Nat
  BY <1>2, GeneratedFacts DEF TypeInv
<1>5. ASSUME NEW q \in Items("in")
      PROVE heap'[<<"pool", q>>] = Holding(given[q])
  <2>1. q \in Slots /\ <<"pool", q>> \in Objects
    BY ObjectFacts DEF Items
  <2>2. heap[<<"pool", q>>] = Holding(given[q])
    BY <1>2 DEF ServerInv
  <2>3. CASE Carries(p, "in")
    <3>1. ~Carries(q, "in")
      BY <1>2, <2>1, CarriesFacts
    <3>2. <<"pool", q>> # ServerBuffer(p)
      BY <2>3, <3>1 DEF ServerBuffer
    <3> QED BY <1>2, <2>1, <2>2, <3>2
  <2>4. CASE ~Carries(p, "in")
    BY <1>2, <2>2, <2>4
  <2> QED BY <2>3, <2>4
<1>6. ASSUME NEW q \in Slots, q # p, Got(q)
      PROVE Got(q)'
  <2>1. ServerBuffer(q) \in Objects /\ ServerBuffer(q) # ServerBuffer(p)
    BY <1>6, ObjectFacts DEF ServerBuffer
  <2>2. heap'[ServerBuffer(q)] = heap[ServerBuffer(q)] /\ s'[q] = s[q]
    BY <1>2, <1>6, <2>1
  <2> QED BY <1>2, <1>3, <1>6, <2>2 DEF Got, Holding
<1>7. ASSUME NEW i \in 1 .. Len(ops), i < si + 1
      PROVE Got(ops[i])'
  <2>1. CASE i = si
    BY <1>1, <1>2, <2>1 DEF Got
  <2>2. CASE i # si
    <3>1. i < si
      BY <1>2, <1>7, <2>2
    <3>2. PICK q : q = ops[i]
      OBVIOUS
    <3>3. q \in Slots /\ q # p /\ Got(q)
      BY <1>1, <1>2, <1>4, <2>2, <3>1, <3>2 DEF ServerInv
    <3>4. Got(q)'
      BY <1>6, <3>3
    <3> QED BY <1>2, <3>2, <3>4 DEF Got
  <2> QED BY <2>1, <2>2
<1>8. read'.s = (Before(ops, si, "in"))'
  <2>1. (Before(ops, si, "in"))' = Before(ops, si + 1, "in")
    <3>1. si' = si + 1 /\ ops' = ops /\ \A q : Carries(q, "in")' = Carries(q, "in")
      BY <1>2, BeforeStays
    <3> QED BY <3>1 DEF Before, Pieces
  <2>2. Before(ops, si + 1, "in") = IF Carries(p, "in") THEN Before(ops, si, "in") + 1 ELSE Before(ops, si, "in")
    <3>1. si \in Nat /\ si >= 1 /\ si \in DOMAIN ops /\ ops[si] = p
      BY <1>1, <1>2, <1>4
    <3> QED BY <3>1, BeforeFacts
  <2>3. read.s = Before(ops, si, "in")
    BY <1>2 DEF ServerInv
  <2> QED BY <1>2, <2>1, <2>2, <2>3
<1> QED BY <1>2, <1>3, <1>5, <1>7, <1>8 DEF ServerInv, Holding

(* The function is invoked with what the caller gave.                      *)
LEMMA InvokeTakes ==
  ASSUME TypeInv, Supported(op), GivenInv, ServerInv, server = "unmarshal", si > Len(ops)
  PROVE  /\ \A p \in InSlots : Received(p) = given[p]
         /\ \A p \in Params : VarSized(p) => s[p].ptr = ServerBuffer(p)
<1>1. op \in Operations /\ OrderInv /\ stage = "generated" /\ si \in Nat /\ heap \in Heaps
  BY DEF TypeInv, PhaseInv, StubTypes, OrderInv, OrderTypes
<1>2. /\ \A p \in Params : Claimed(p) \/ \E i \in 1 .. Len(ops) : ops[i] = p
      /\ DOMAIN ops = 1 .. Len(ops) /\ Len(ops) \in Nat
  BY <1>1, GeneratedFacts
<1>3. ASSUME NEW p \in Params, ~Claimed(p)
      PROVE Got(p)
  <2>1. PICK i \in 1 .. Len(ops) : ops[i] = p
    BY <1>2, <1>3
  <2>2. i < si
    BY <1>1, <1>2, <2>1
  <2> QED BY <2>1, <2>2 DEF ServerInv
<1>4. \A p \in Slots : VarSized(p) => ~Claimed(p)
  BY <1>1, ClaimedFacts
<1>5. \A p \in Params : p \in Slots
  BY <1>1, SlotFacts
<1>6. ASSUME NEW p \in InSlots
      PROVE Received(p) = given[p]
  <2>1. p \in Slots /\ HasIn(p)
    BY DEF InSlots
  <2>2. p \in Params /\ given[p] \in Value
    BY <1>1, <2>1, KindFacts DEF GivenInv, WellFormed, InSlots
  <2>3. CASE Claimed(p)
    <3> DEFINE a == ArrayOf(p)
    <3>1. a \in Params /\ a \in Slots /\ ~Claimed(a) /\ Kind(a) = "array" /\ HasIn(a)
      BY <1>1, <2>1, <2>3, ClaimedFacts
    <3>2. Got(a)
      BY <1>3, <3>1
    <3>3. s[a].len = given[a].n
      BY <3>1, <3>2 DEF Got, VarSized
    <3>4. given[p] = Length(given[a].n)
      BY <2>3 DEF GivenInv, WellFormed
    <3> QED BY <2>3, <3>3, <3>4 DEF Received
  <2>4. CASE ~Claimed(p) /\ ~VarSized(p)
    <3>1. Got(p)
      BY <1>3, <2>2, <2>4
    <3> QED BY <2>1, <2>4, <3>1 DEF Received, Got
  <2>5. CASE VarSized(p)
    <3>1. ~Claimed(p) /\ Got(p)
      BY <1>3, <1>4, <2>1, <2>2, <2>5
    <3>2. s[p].ptr = ServerBuffer(p) /\ s[p].len = given[p].n /\ heap[s[p].ptr] = Holding(given[p])
      BY <2>1, <2>5, <3>1 DEF Got
    <3>3. Content(s[p].ptr) = given[p]
      <4>1. s[p].ptr \in Objects
        BY <2>1, <3>2, ObjectFacts
      <4> QED BY <1>1, <3>2, <4>1, ContentType
    <3>4. Kind(p) = "array" => ServerLength(p) = given[p].n
      <4>1. Kind(p) = "array" /\ LengthOf(p) = {} => given[p].n = MaxLength
        BY DEF GivenInv, WellFormed
      <4> QED BY <3>2, <4>1 DEF ServerLength
    <3>5. Cut(given[p], given[p].n) = given[p]
      BY <1>1, <2>2, CutWhole
    <3> QED BY <2>5, <3>1, <3>2, <3>3, <3>4, <3>5 DEF Received, VarSized
  <2> QED BY <2>3, <2>4, <2>5
<1>7. ASSUME NEW p \in Params, VarSized(p) PROVE s[p].ptr = ServerBuffer(p)
  BY <1>3, <1>4, <1>5, <1>7 DEF Got
<1> QED BY <1>6, <1>7

LEMMA ServerStep ==
  ASSUME TypeInv, Supported(op), SidesInv, GivenInv, CallerInv, RequestInv, ServerInv, [Next]_vars
  PROVE  ServerInv'
<1>0. op' = op /\ given' = given /\ op \in Operations
  BY SidesStep
<1>1. CASE OrderNext /\ UNCHANGED stubVars
  <2>1. server = "idle" /\ UNCHANGED stubVars
    BY <1>1, GeneratingEffect
  <2> QED BY <2>1 DEF ServerInv, stubVars
<1>2. CASE ServerUnmarshal
  BY <1>2, ServerReceive
<1>3. CASE Invoke
  <2>1. server = "unmarshal" /\ si > Len(ops) /\ server' = "running" /\ s' = s
    BY <1>3 DEF Invoke
  <2>2. \A p \in Params : VarSized(p) => s[p].ptr = ServerBuffer(p)
    BY <2>1, InvokeTakes
  <2>3. Params' = Params /\ \A q : VarSized(q)' = VarSized(q) /\ ServerBuffer(q)' = ServerBuffer(q)
    BY <1>0, SameSlots
  <2> QED BY <2>1, <2>2, <2>3 DEF ServerInv
<1>4. CASE Answer \/ Raise \/ Defer \/ AnswerLater \/ ServerMarshal \/ Reply
  <2>1. server' \notin {"unmarshal", "running"}
    BY <1>4 DEF Answer, Raise, Defer, AnswerLater, ServerMarshal, Reply
  <2> QED BY <2>1 DEF ServerInv
<1>5. CASE Call
  BY <1>5, ServerCall
<1>6. CASE ClientNext /\ ~Call
  <2>1. /\ UNCHANGED <<orderVars, si, s>> /\ read'.s = read.s /\ server' = server
        /\ \A o \in Objects : ~ClientSide(o) => heap'[o] = heap[o]
    BY <1>6, ClientEffect
  <2>2. stage = "generated"
    BY <1>6 DEF ClientNext, Start, ClientMarshal, CallFails, ClientUnmarshal, Finish, SkipUnmarshal, Return,
       TypeInv, PhaseInv
  <2> QED BY <1>0, <2>1, <2>2, ServerStays DEF orderVars
<1>7. CASE UNCHANGED vars
  <2>1. /\ UNCHANGED <<orderVars, si, s>> /\ read' = read /\ server' = server /\ heap' = heap
    BY <1>7 DEF vars, stubVars
  <2>2. CASE stage = "generated"
    BY <1>0, <2>1, <2>2, ServerStays DEF orderVars
  <2>3. CASE stage # "generated"
    <3>1. server = "idle"
      BY <2>3 DEF TypeInv, PhaseInv
    <3> QED BY <2>1, <3>1 DEF ServerInv
  <2> QED BY <2>2, <2>3
<1> QED BY <1>1, <1>2, <1>3, <1>4, <1>5, <1>6, <1>7 DEF Next, OrderNext, ServerNext

-----------------------------------------------------------------------------
(* What the function left.                                                 *)

LeftIn(p) ==
  /\ ~VarSized(p) => s[p].val = left[p]
  /\ VarSized(p) =>
       /\ s[p].len = left[p].n \/ (Kind(p) = "array" /\ LengthOf(p) = {})
       /\ s[p].ptr \in {<<"own", p>>, <<"pool", p>>}
       /\ p = Ret => s[p].ptr = <<"own", p>>
       /\ \/ heap[s[p].ptr] = Holding(left[p])
          \/ p = Ret /\ (server = "answered" \/ si > Len(Replies))

LeftInv ==
  server \in {"marshal", "answered"} =>
    /\ DOMAIN left = OutSlots /\ WellFormed(left, OutSlots)
    /\ \A p \in OutSlots : LeftIn(p)

LEMMA LeavesEffect ==
  ASSUME TypeInv, Supported(op), SidesInv, NEW n \in Lengths, NEW own \in SUBSET Replaceable, Leaves(own, n),
         MustAllocate \subseteq own,
         \A p \in Params : HasOut(p) /\ VarSized(p) /\ p \notin own => s[p].ptr = ServerBuffer(p),
         op' = op
  PROVE  DOMAIN left' = OutSlots /\ WellFormed(left, OutSlots)' /\ \A p \in OutSlots : LeftIn(p)'
<1> DEFINE Buffer(p) == IF p \in own THEN <<"own", p>> ELSE s[p].ptr
           Written == {p \in OutSlots : VarSized(p)}
<1>1. op \in Operations /\ DOMAIN heap = Objects /\ s \in [Slots -> Variable]
  BY HeapDomain DEF TypeInv, StubTypes, OrderInv, OrderTypes
<1>2. /\ left' = [p \in OutSlots |-> Whole(p, "out", n[p])]
      /\ s' = [p \in Slots |->
               IF p \notin OutSlots THEN s[p]
               ELSE IF p \in Written THEN [s[p] EXCEPT !.ptr = Buffer(p), !.len = n[p]]
               ELSE [s[p] EXCEPT !.val = Whole(p, "out", n[p])]]
      /\ heap' = [o \in Objects |->
               IF o[2] \in Written /\ o = Buffer(o[2])
               THEN Holding(Whole(o[2], "out", n[o[2]])) ELSE heap[o]]
  BY <1>1 DEF Leaves
<1>3. /\ Slots' = Slots /\ OutSlots' = OutSlots /\ Value' = Value /\ Ret' = Ret
      /\ \A q : Kind(q)' = Kind(q) /\ VarSized(q)' = VarSized(q) /\ Claimed(q)' = Claimed(q)
                /\ ArrayOf(q)' = ArrayOf(q) /\ LengthOf(q)' = LengthOf(q)
  BY SameSlots
<1>4. "out" \in Tags /\ OutSlots \subseteq Slots
  BY DEF Tags, OutSlots
<1>5. ASSUME NEW p \in OutSlots
      PROVE /\ left'[p] = Whole(p, "out", n[p]) /\ left'[p] \in Value /\ ~left'[p].wire
            /\ Claimed(p) => left'[p] = Length(n[p])
            /\ VarSized(p) /\ ~(Kind(p) = "array" /\ LengthOf(p) = {}) => left'[p].n = n[p]
            /\ Kind(p) = "array" /\ LengthOf(p) = {} => left'[p].n = MaxLength
  <2>1. p \in Slots /\ n[p] \in 1 .. MaxLength
    BY <1>1, <1>4, LengthsType
  <2>2. left'[p] = Whole(p, "out", n[p])
    BY <1>2
  <2>3. VarSized(p) => ~Claimed(p)
    BY <1>1, <2>1, ClaimedFacts
  <2>4. Kind(p) = "array" => VarSized(p)
    BY DEF VarSized
  <2> QED BY <1>1, <1>4, <2>1, <2>2, <2>3, <2>4, WholeType
<1>6. ASSUME NEW p \in OutSlots, Claimed(p)
      PROVE ArrayOf(p) \in OutSlots /\ left'[p] = Length(left'[ArrayOf(p)].n)
  <2> DEFINE a == ArrayOf(p)
  <2>1. a \in Params /\ a \in Slots /\ LengthOf(a) = {p} /\ Kind(a) = "array" /\ HasOut(a)
    BY <1>1, <1>4, <1>6, ClaimedFacts DEF OutSlots
  <2>2. a \in OutSlots
    BY <2>1 DEF OutSlots
  <2>3. left'[a].n = n[a]
    BY <1>5, <2>1, <2>2 DEF VarSized
  <2>4. n[p] = n[a]
    BY <1>4, <1>6 DEF Lengths
  <2> QED BY <1>5, <1>6, <2>2, <2>3, <2>4
<1>7. WellFormed(left, OutSlots)'
  BY <1>3, <1>5, <1>6 DEF WellFormed, Length, Val
<1>8. ASSUME NEW p \in OutSlots, ~VarSized(p)
      PROVE s'[p].val = left'[p]
  <2>1. p \in Slots /\ s[p] \in Variable /\ p \notin Written
    BY <1>1, <1>4, <1>8
  <2>2. s'[p] = [s[p] EXCEPT !.val = Whole(p, "out", n[p])]
    BY <1>2, <2>1
  <2> HIDE DEF Buffer, Written
  <2> QED BY <1>5, <2>1, <2>2 DEF Variable
<1>9. ASSUME NEW p \in OutSlots, VarSized(p)
      PROVE s'[p].ptr = Buffer(p) /\ s'[p].len = n[p]
  <2>1. p \in Slots /\ s[p] \in Variable /\ p \in Written
    BY <1>1, <1>4, <1>9
  <2>2. s'[p] = [s[p] EXCEPT !.ptr = Buffer(p), !.len = n[p]]
    BY <1>2, <2>1
  <2> HIDE DEF Buffer, Written
  <2> QED BY <2>1, <2>2 DEF Variable
<1>10. ASSUME NEW p \in OutSlots, VarSized(p)
       PROVE Buffer(p) \in {<<"own", p>>, <<"pool", p>>} /\ (p = Ret => Buffer(p) = <<"own", p>>)
  <2>1. CASE p = Ret
    <3>1. op.ret = "string"
      <4>1. Kind(p) = op.ret
        BY <2>1 DEF Kind
      <4>2. op.ret \in {"void", "word", "string"}
        BY <1>1, SlotFacts
      <4> QED BY <1>10, <4>1, <4>2 DEF VarSized
    <3>2. p \in own
      BY <1>10, <2>1, <3>1 DEF MustAllocate
    <3> QED BY <3>2
  <2>2. CASE p # Ret /\ p \notin own
    <3>1. p \in Params
      BY <1>1, <1>4, <2>2, SlotFacts
    <3>2. s[p].ptr = ServerBuffer(p)
      BY <1>10, <2>2, <3>1 DEF OutSlots
    <3>3. ServerBuffer(p) = <<"pool", p>>
      BY <1>10 DEF OutSlots, ServerBuffer
    <3> QED BY <2>2, <3>2, <3>3
  <2>3. CASE p \in own /\ p # Ret
    BY <2>3
  <2> QED BY <2>1, <2>2, <2>3
<1>11. ASSUME NEW p \in OutSlots, VarSized(p)
       PROVE heap'[s'[p].ptr] = Holding(left'[p])
  <2> DEFINE o == Buffer(p)
  <2>0. <<"own", p>> \in Objects /\ <<"pool", p>> \in Objects /\ p \in Written
    BY <1>4, <1>11, ObjectFacts
  <2>10. o \in {<<"own", p>>, <<"pool", p>>}
    BY <1>10, <1>11
  <2>1. o \in Objects /\ o[2] = p /\ p \in Written
    <3> HIDE DEF o, Written, Buffer
    <3> QED BY <2>0, <2>10
  <2>2. Buffer(o[2]) = o
    BY <2>1
  <2>3. heap'[o] = Holding(Whole(o[2], "out", n[o[2]]))
    <3> HIDE DEF o, Written, Buffer
    <3> QED BY <1>2, <2>1, <2>2
  <2>4. heap'[o] = Holding(left'[p])
    BY <1>5, <2>1, <2>3
  <2> QED BY <1>9, <1>11, <2>4
<1>12. ASSUME NEW p \in OutSlots
       PROVE LeftIn(p)'
  <2> HIDE DEF Buffer, Written
  <2>1. VarSized(p) => s'[p].len = left'[p].n \/ (Kind(p) = "array" /\ LengthOf(p) = {})
    BY <1>5, <1>9
  <2>2. VarSized(p) => heap'[s'[p].ptr] = Holding(left'[p])
    BY <1>11
  <2>3. VarSized(p) => /\ s'[p].ptr \in {<<"own", p>>, <<"pool", p>>}
                       /\ p = Ret => s'[p].ptr = <<"own", p>>
    BY <1>9, <1>10
  <2> QED BY <1>3, <1>8, <2>1, <2>2, <2>3 DEF LeftIn, Holding
<1>13. DOMAIN left' = OutSlots
  BY <1>2
<1> QED BY <1>7, <1>12, <1>13

LEMMA LeftAnswer ==
  ASSUME TypeInv, Supported(op), SidesInv, ServerInv, Answer \/ AnswerLater
  PROVE  LeftInv'
<1>1. op' = op /\ op \in Operations
  BY DEF Answer, AnswerLater, orderVars, TypeInv, OrderInv, OrderTypes
<1>2. OutSlots' = OutSlots
  BY <1>1, SameSlots
<1>3. CASE Answer
  <2>1. PICK n \in Lengths, own \in SUBSET Replaceable : MustAllocate \subseteq own /\ Leaves(own, n)
    BY <1>3 DEF Answer
  <2>2. \A p \in Params : HasOut(p) /\ VarSized(p) /\ p \notin own => s[p].ptr = ServerBuffer(p)
    BY <1>3 DEF Answer, ServerInv
  <2>3. DOMAIN left' = OutSlots /\ WellFormed(left, OutSlots)' /\ \A p \in OutSlots : LeftIn(p)'
    BY <1>1, <2>1, <2>2, LeavesEffect
  <2> QED BY <1>2, <2>3 DEF LeftInv
<1>4. CASE AnswerLater
  <2>1. PICK n \in Lengths : Leaves(Replaceable, n)
    BY <1>4 DEF AnswerLater
  <2>2. MustAllocate \subseteq Replaceable
    <3>1. ASSUME NEW p \in MustAllocate PROVE VarSized(p) /\ p \in OutSlots
      BY <3>1 DEF MustAllocate, VarSized, Kind
    <3> QED BY <3>1 DEF Replaceable
  <2>3. Replaceable \in SUBSET Replaceable
    OBVIOUS
  <2>4. \A p \in Params : HasOut(p) /\ VarSized(p) => p \in Replaceable
    BY <1>1, SlotFacts DEF Replaceable, OutSlots
  <2>5. DOMAIN left' = OutSlots /\ WellFormed(left, OutSlots)' /\ \A p \in OutSlots : LeftIn(p)'
    BY <1>1, <2>1, <2>2, <2>3, <2>4, LeavesEffect
  <2> QED BY <1>2, <2>5 DEF LeftInv
<1> QED BY <1>3, <1>4

-----------------------------------------------------------------------------
(* The reply.                                                              *)

Replied(p) ==
  /\ ~VarSized(p) => rep.word[p] = OnWire(p, left[p])
  /\ VarSized(p) => /\ rep.len[p] = left[p].n
                    /\ ~Carries(p, "out") => rep.ptr[p] = s[p].ptr

ReplyInv ==
  /\ \A i \in 1 .. Len(Replies) :
       (server = "answered" /\ ~op.oneway) \/ (server = "marshal" /\ i < si) =>
         /\ HasOut(Replies[i]) => Replied(Replies[i])
         /\ Carries(Replies[i], "out") =>
              /\ Before(Replies, i, "out") + 1 \in DOMAIN rep.var
              /\ rep.var[Before(Replies, i, "out") + 1] = left[Replies[i]]
  /\ server = "marshal" => Len(rep.var) = Before(Replies, si, "out")

LEMMA RepliesOnce ==
  ASSUME OrderInv, stage = "generated"
  PROVE  /\ \A i, j \in 1 .. Len(Replies) : Replies[i] = Replies[j] => i = j
         /\ \A i \in 1 .. Len(Replies) : Replies[i] \in Slots /\ (Replies[i] = Ret <=> i = Len(ops) + 1)
         /\ DOMAIN Replies = 1 .. Len(Replies) /\ Len(Replies) \in Nat
         /\ op.ret # "void" => Len(ops) + 1 \in 1 .. Len(Replies) /\ Len(Replies) = Len(ops) + 1
         /\ \A p \in Slots : ~Claimed(p) => \E i \in 1 .. Len(Replies) : Replies[i] = p
<1>1. /\ op \in Operations /\ Len(ops) \in Nat /\ Replies \in Seq(Slots)
      /\ Len(Replies) = IF op.ret = "void" THEN Len(ops) ELSE Len(ops) + 1
      /\ \A i \in 1 .. Len(ops) : Replies[i] = ops[i] /\ ops[i] \in Params
      /\ op.ret # "void" => Replies[Len(ops) + 1] = Ret
  BY RepliesFacts
<1>2. Len(Replies) \in Nat /\ DOMAIN Replies = 1 .. Len(Replies)
  BY <1>1
<1>3. /\ \A i, j \in 1 .. Len(ops) : ops[i] = ops[j] => i = j
      /\ \A p \in Params : Claimed(p) \/ \E i \in 1 .. Len(ops) : ops[i] = p
  BY GeneratedFacts
<1>4. Ret \notin Params /\ (\A p \in Slots : p \in Params \/ p = Ret) /\ (Ret \in Slots <=> op.ret # "void")
  BY <1>1, SlotFacts
<1>5. ASSUME NEW i \in 1 .. Len(Replies)
      PROVE Replies[i] \in Slots /\ (Replies[i] = Ret <=> i = Len(ops) + 1)
            /\ (i \in 1 .. Len(ops) \/ (i = Len(ops) + 1 /\ op.ret # "void"))
  <2>1. i \in 1 .. Len(ops) \/ (i = Len(ops) + 1 /\ op.ret # "void")
    BY <1>1
  <2>2. Replies[i] \in Slots
    BY <1>1
  <2> QED BY <1>1, <1>4, <2>1, <2>2
<1>6. ASSUME NEW i \in 1 .. Len(Replies), NEW j \in 1 .. Len(Replies), Replies[i] = Replies[j]
      PROVE i = j
  <2>1. CASE Replies[i] = Ret
    BY <1>5, <1>6, <2>1
  <2>2. CASE Replies[i] # Ret
    <3>1. i \in 1 .. Len(ops) /\ j \in 1 .. Len(ops)
      BY <1>5, <1>6, <2>2
    <3> QED BY <1>1, <1>3, <1>6, <3>1
  <2> QED BY <2>1, <2>2
<1>7. ASSUME NEW p \in Slots, ~Claimed(p)
      PROVE \E i \in 1 .. Len(Replies) : Replies[i] = p
  <2>1. CASE p = Ret
    <3>1. Len(ops) + 1 \in 1 .. Len(Replies) /\ Replies[Len(ops) + 1] = p
      BY <1>1, <1>4, <2>1
    <3> QED BY <3>1
  <2>2. CASE p # Ret
    <3>1. PICK i \in 1 .. Len(ops) : ops[i] = p
      BY <1>3, <1>4, <1>7, <2>2
    <3>2. i \in 1 .. Len(Replies) /\ Replies[i] = p
      BY <1>1, <3>1
    <3> QED BY <3>2
  <2> QED BY <2>1, <2>2
<1> QED BY <1>1, <1>2, <1>5, <1>6, <1>7

LEMMA AnswerEffect ==
  ASSUME TypeInv, Supported(op), SidesInv, LeftInv, ServerMarshal, NEW p, p = Replies[si]
  PROVE  /\ p \in Slots /\ si \in 1 .. Len(Replies) /\ si' = si + 1 /\ server = "marshal" /\ server' = server
         /\ op \in Operations /\ stage = "generated" /\ OrderInv
         /\ op' = op /\ ops' = ops /\ Replies' = Replies /\ s' = s /\ left' = left /\ UNCHANGED <<c, client, ok>>
         /\ \A q \in Slots : q # p => /\ rep'.word[q] = rep.word[q] /\ rep'.len[q] = rep.len[q]
                                      /\ rep'.ptr[q] = rep.ptr[q]
         /\ HasOut(p) => Replied(p)'
         /\ rep'.var = IF Carries(p, "out") THEN Append(rep.var, left[p]) ELSE rep.var
         /\ misused' = misused
         /\ \A o \in Objects : o # <<"own", Ret>> => heap'[o] = heap[o]
         /\ ~(p = Ret /\ VarSized(p)) => heap' = heap
         /\ p = Ret /\ VarSized(p) => ~heap'[<<"own", Ret>>].live
<1>1. /\ op \in Operations /\ op' = op /\ ops' = ops /\ Replies' = Replies /\ heap \in Heaps /\ rep \in Message
      /\ OrderInv /\ DOMAIN heap = Objects
      /\ \A q : Kind(q)' = Kind(q) /\ VarSized(q)' = VarSized(q)
      /\ \A q, dir : Carries(q, dir)' = Carries(q, dir)
  <2>1. UNCHANGED orderVars
    BY DEF ServerMarshal
  <2>2. op' = op /\ ops' = ops /\ Replies' = Replies
    BY <2>1, CodeStays
  <2> QED BY <2>2, SameSlots, RepliesFacts, HeapDomain DEF TypeInv, StubTypes, Carries
<1>2. /\ si' = si + 1 /\ server = "marshal" /\ server' = server /\ s' = s /\ left' = left /\ UNCHANGED <<c, client, ok>>
  BY DEF ServerMarshal
<1>3. si \in 1 .. Len(Replies) /\ Len(Replies) \in Nat /\ Replies \in Seq(Slots) /\ stage = "generated"
  <2>1. Len(Replies) \in Nat /\ Replies \in Seq(Slots)
    BY RepliesFacts DEF TypeInv
  <2>2. stage = "generated"
    BY <1>2 DEF TypeInv, PhaseInv
  <2> QED BY <1>1, <2>1, <2>2 DEF ServerMarshal, TypeInv, StubTypes
<1>4. p \in Slots
  BY <1>3
<1>5. \/ ~HasOut(p) /\ UNCHANGED <<rep, heap, misused>>
      \/ HasOut(p) /\ (\/ AnswerWord(p) \/ AnswerThread(p) \/ AnswerMap(p)
                       \/ AnswerString(p) \/ AnswerArray(p) \/ AnswerSequence(p))
  BY DEF ServerMarshal
<1>6. CASE ~HasOut(p)
  <2>1. ~Carries(p, "out") /\ p # Ret
    BY <1>1, <1>4, <1>6, CarriesFacts DEF HasOut
  <2> QED BY <1>1, <1>2, <1>3, <1>4, <1>5, <1>6, <2>1
<1>7. CASE HasOut(p)
  <2>1. p \in OutSlots /\ left[p] \in Value /\ ~left[p].wire /\ LeftIn(p)
    <3>1. p \in OutSlots
      BY <1>4, <1>7 DEF OutSlots
    <3> QED BY <1>2, <3>1 DEF LeftInv, WellFormed
  <2>2. CASE ~VarSized(p)
    <3>1. s[p].val = left[p]
      BY <2>1, <2>2 DEF LeftIn
    <3>2. Wire(left[p]) = [left[p] EXCEPT !.wire = TRUE] /\ Wire(left[p]) \in Value
      BY <1>1, <2>1, WireType
    <3>3. AnswerWord(p) \/ AnswerThread(p) \/ AnswerMap(p)
      BY <1>5, <1>7, <2>2 DEF AnswerString, AnswerArray, AnswerSequence, VarSized
    <3>4. rep' = AddWord(rep, p, OnWire(p, left[p])) /\ misused' = misused /\ heap' = heap
      <4>1. CASE AnswerThread(p)
        <5>1. OnWire(p, left[p]) = Wire(s[p].val)
          BY <3>1, <3>2, <4>1 DEF AnswerThread, OnWire
        <5> QED BY <4>1, <5>1 DEF AnswerThread
      <4>2. CASE AnswerWord(p)
        <5>1. OnWire(p, left[p]) = s[p].val
          BY <3>1, <4>2 DEF AnswerWord, OnWire
        <5> QED BY <4>2, <5>1 DEF AnswerWord
      <4>3. CASE AnswerMap(p)
        <5>1. OnWire(p, left[p]) = s[p].val
          BY <3>1, <4>3 DEF AnswerMap, OnWire
        <5>2. ~HasIn(p)
          <6>1. Kind(p) = "map"
            BY <4>3 DEF AnswerMap
          <6>2. p \in Params \/ p = Ret
            BY <1>1, <1>4, SlotFacts
          <6>3. p = Ret => ~HasIn(p)
            BY DEF HasIn
          <6> QED BY <1>1, <1>7, <6>1, <6>2, <6>3, SupportedKinds
        <5>3. MapToSend(p) = {s[p].val}
          BY <5>2 DEF MapToSend
        <5> QED BY <4>3, <5>1, <5>3 DEF AnswerMap
      <4> QED BY <3>3, <4>1, <4>2, <4>3
    <3>5. OnWire(p, left[p]) \in Value
      BY <2>1, <3>2 DEF OnWire
    <3>6. /\ rep'.word[p] = OnWire(p, left[p])
          /\ \A q \in Slots : q # p => /\ rep'.word[q] = rep.word[q] /\ rep'.len[q] = rep.len[q]
                                       /\ rep'.ptr[q] = rep.ptr[q]
          /\ rep'.var = rep.var
      BY <1>1, <1>4, <3>4, <3>5, AddWordType
    <3>7. ~Carries(p, "out")
      BY <2>2 DEF Carries
    <3>8. Replied(p)'
      BY <1>1, <1>2, <2>2, <3>6 DEF Replied, OnWire
    <3> QED BY <1>1, <1>2, <1>3, <1>4, <2>2, <3>4, <3>6, <3>7, <3>8
  <2>3. CASE VarSized(p)
    <3> DEFINE n == left[p].n
               o == s[p].ptr
    <3>1. AnswerString(p) \/ AnswerArray(p) \/ AnswerSequence(p)
      BY <1>5, <1>7, <2>3 DEF AnswerWord, AnswerThread, AnswerMap, VarSized
    <3>2. ~(p = Ret /\ (server = "answered" \/ si > Len(Replies)))
      BY <1>2, <1>3
    <3>3. heap[o] = Holding(left[p]) /\ o \in {<<"own", p>>, <<"pool", p>>}
          /\ (p = Ret => o = <<"own", p>>) /\ (s[p].len = n \/ (Kind(p) = "array" /\ LengthOf(p) = {}))
      BY <2>1, <2>3, <3>2 DEF LeftIn
    <3>4. o \in Objects /\ o \in Pointers
      BY <1>4, <3>3, ObjectFacts
    <3>5. Content(o) = left[p] /\ Live(o) /\ Dead({o}) = {}
      BY <1>1, <3>3, <3>4, ContentType DEF Dead
    <3>6. n \in 0 .. MaxLength /\ Cut(Content(o), n) = left[p]
      BY <1>1, <2>1, <3>5, CutWhole
    <3>7. Kind(p) = "array" => ServerLength(p) = n
      <4>1. Kind(p) = "array" /\ LengthOf(p) = {} => n = MaxLength
        BY <1>2, <2>1 DEF LeftInv, WellFormed
      <4> QED BY <3>3, <4>1 DEF ServerLength
    <3>8. AnswerData(p, n)
      <4>1. CASE AnswerString(p)
        BY <3>5, <4>1 DEF AnswerString, StrLen
      <4>2. CASE AnswerArray(p)
        BY <3>7, <4>2 DEF AnswerArray
      <4>3. CASE AnswerSequence(p)
        <5>1. s[p].len = n
          BY <3>3, <4>3 DEF AnswerSequence
        <5> QED BY <4>3, <5>1 DEF AnswerSequence
      <4> QED BY <3>1, <4>1, <4>2, <4>3
    <3>9. rep' = AddData(rep, p, "out", o, n) /\ misused' = misused
      BY <3>5, <3>8 DEF AnswerData
    <3> HIDE DEF n
    <3>10. /\ \A q \in Slots : q # p => /\ rep'.len[q] = rep.len[q] /\ rep'.ptr[q] = rep.ptr[q]
           /\ rep'.word = rep.word /\ rep'.len[p] = n
           /\ <<p, "out">> \notin op.inline => rep'.ptr[p] = o /\ rep'.var = rep.var
           /\ <<p, "out">> \in op.inline => rep'.var = Append(rep.var, left[p])
      <4> HIDE DEF o
      <4> QED BY <1>1, <1>4, <3>4, <3>6, <3>9, AddDataType
    <3>11. Replied(p)'
      BY <1>1, <1>2, <2>3, <3>10 DEF Replied, Carries, n
    <3>12. rep'.var = IF Carries(p, "out") THEN Append(rep.var, left[p]) ELSE rep.var
      BY <2>3, <3>10 DEF Carries
    <3>13. /\ p # Ret => heap' = heap
           /\ p = Ret => heap' = [heap EXCEPT ![o].live = FALSE] /\ o = <<"own", Ret>>
      <4>1. p = Ret => Kind(p) = "string"
        BY <1>1, <1>4, <2>3, CarriesFacts
      <4>2. p = Ret => AnswerString(p)
        BY <3>1, <4>1 DEF AnswerArray, AnswerSequence
      <4>3. p = Ret => heap' = [heap EXCEPT ![o].live = FALSE] /\ o = <<"own", Ret>>
        BY <3>3, <4>2 DEF AnswerString
      <4>4. p # Ret => heap' = heap
        BY <3>1 DEF AnswerString, AnswerArray, AnswerSequence
      <4> QED BY <4>3, <4>4
    <3>14. /\ \A b \in Objects : b # <<"own", Ret>> => heap'[b] = heap[b]
           /\ p = Ret => ~heap'[<<"own", Ret>>].live
      <4>1. \A b \in Objects : heap[b] \in [live : BOOLEAN, val : Value]
        BY HeapDomain
      <4> HIDE DEF o
      <4> QED BY <1>1, <3>4, <3>13, <4>1
    <3> QED BY <1>1, <1>2, <1>3, <1>4, <2>3, <3>9, <3>10, <3>11, <3>12, <3>13, <3>14
  <2> QED BY <2>2, <2>3
<1> QED BY <1>6, <1>7

LEMMA LeftStays ==
  ASSUME TypeInv, LeftInv, op' = op, ops' = ops, s' = s, left' = left,
         server' \in {"marshal", "answered"} => server \in {"marshal", "answered"},
         server = "answered" \/ si > Len(Replies) => server' = "answered" \/ si' > Len(Replies),
         \A p \in OutSlots : VarSized(p) => \/ heap'[s[p].ptr] = heap[s[p].ptr]
                                            \/ p = Ret /\ (server' = "answered" \/ si' > Len(Replies))
  PROVE  LeftInv'
<1>1. /\ OutSlots' = OutSlots /\ Value' = Value /\ Ret' = Ret
      /\ \A q : Kind(q)' = Kind(q) /\ VarSized(q)' = VarSized(q) /\ Claimed(q)' = Claimed(q)
                /\ ArrayOf(q)' = ArrayOf(q) /\ LengthOf(q)' = LengthOf(q)
  BY SameSlots
<1>2. Replies' = Replies
  BY <1>1 DEF Replies
<1> SUFFICES ASSUME server' \in {"marshal", "answered"}
             PROVE  (DOMAIN left = OutSlots /\ WellFormed(left, OutSlots) /\ \A p \in OutSlots : LeftIn(p))'
  BY DEF LeftInv
<1>3. DOMAIN left = OutSlots /\ WellFormed(left, OutSlots) /\ \A p \in OutSlots : LeftIn(p)
  BY DEF LeftInv
<1>4. WellFormed(left, OutSlots)'
  BY <1>1, <1>3 DEF WellFormed, Length, Val
<1>5. ASSUME NEW p \in OutSlots
      PROVE LeftIn(p)'
  <2>1. ~VarSized(p) => s'[p].val = left'[p]
    BY <1>3 DEF LeftIn
  <2>2. VarSized(p) =>
          /\ s'[p].len = left'[p].n \/ (Kind(p) = "array" /\ LengthOf(p) = {})
          /\ s'[p].ptr \in {<<"own", p>>, <<"pool", p>>}
          /\ p = Ret => s'[p].ptr = <<"own", p>>
    BY <1>3 DEF LeftIn
  <2>3. VarSized(p) => \/ heap'[s'[p].ptr] = Holding(left'[p])
                       \/ p = Ret /\ (server' = "answered" \/ si' > Len(Replies))
    BY <1>3 DEF LeftIn
  <2> QED BY <1>1, <1>2, <2>1, <2>2, <2>3 DEF LeftIn, Holding
<1> QED BY <1>1, <1>3, <1>4, <1>5

LEMMA LeftStep ==
  ASSUME TypeInv, Supported(op), SidesInv, ServerInv, LeftInv, [Next]_vars
  PROVE  LeftInv'
<1>0. op' = op /\ op \in Operations /\ OrderInv
  BY SidesStep DEF TypeInv
<1>1. CASE OrderNext /\ UNCHANGED stubVars
  <2>1. server = "idle" /\ server' = server
    BY <1>1, GeneratingEffect DEF stubVars
  <2> QED BY <2>1 DEF LeftInv
<1>2. CASE ServerUnmarshal \/ Invoke \/ Raise \/ Defer
  <2>1. server' \notin {"marshal", "answered"}
    BY <1>2 DEF ServerUnmarshal, Invoke, Raise, Defer
  <2> QED BY <2>1 DEF LeftInv
<1>3. CASE Call
  <2>1. server' = "unmarshal"
    BY <1>3 DEF Call
  <2> QED BY <2>1 DEF LeftInv
<1>4. ASSUME server \in {"marshal", "answered"}, NEW p \in OutSlots, VarSized(p)
      PROVE s[p].ptr \in Objects /\ ~ClientSide(s[p].ptr)
  <2>1. s[p].ptr \in {<<"own", p>>, <<"pool", p>>} /\ p \in Slots
    BY <1>4 DEF LeftInv, LeftIn, OutSlots
  <2>2. /\ <<"own", p>> \in Objects /\ <<"pool", p>> \in Objects
        /\ ~ClientSide(<<"own", p>>) /\ ~ClientSide(<<"pool", p>>)
    BY <2>1, ObjectFacts DEF ClientSide
  <2> QED BY <2>1, <2>2
<1>5. CASE (ClientNext /\ ~Call) \/ Reply
  <2>1. /\ UNCHANGED <<orderVars, si, s, left>>
        /\ server' = server \/ (server = "marshal" /\ server' = "answered")
        /\ \A o \in Objects : ~ClientSide(o) => heap'[o] = heap[o]
    BY <1>5, ClientEffect, ReplyEffect
  <2>2. CASE server \in {"marshal", "answered"}
    <3>1. \A p \in OutSlots : VarSized(p) => heap'[s[p].ptr] = heap[s[p].ptr]
      BY <1>4, <2>1, <2>2
    <3> QED BY <1>0, <2>1, <2>2, <3>1, LeftStays DEF orderVars
  <2>3. CASE server \notin {"marshal", "answered"}
    BY <2>1, <2>3 DEF LeftInv
  <2> QED BY <2>2, <2>3
<1>6. CASE ServerMarshal
  <2>1. PICK p : p = Replies[si]
    OBVIOUS
  <2>2. /\ p \in Slots /\ si \in 1 .. Len(Replies) /\ si' = si + 1 /\ server = "marshal" /\ server' = server
        /\ stage = "generated" /\ op' = op /\ ops' = ops /\ s' = s /\ left' = left
        /\ \A o \in Objects : o # <<"own", Ret>> => heap'[o] = heap[o]
        /\ ~(p = Ret /\ VarSized(p)) => heap' = heap
    BY <1>6, <2>1, AnswerEffect
  <2>3. /\ p = Ret => si = Len(ops) + 1 /\ Len(Replies) = Len(ops) + 1
        /\ Len(Replies) \in Nat /\ Len(ops) \in Nat
    <3>1. p = Ret => op.ret # "void"
      BY <1>0, <2>2, SlotFacts
    <3> QED BY <1>0, <2>1, <2>2, <3>1, RepliesOnce, RepliesFacts
  <2>4. ASSUME NEW q \in OutSlots, VarSized(q)
        PROVE \/ heap'[s[q].ptr] = heap[s[q].ptr]
              \/ q = Ret /\ (server' = "answered" \/ si' > Len(Replies))
    <3>1. CASE p = Ret
      <4>1. si' > Len(Replies)
        BY <2>2, <2>3, <3>1
      <4>2. CASE q # Ret
        <5>1. s[q].ptr # <<"own", Ret>> /\ s[q].ptr \in Objects
          BY <1>4, <2>2, <2>4, <4>2 DEF LeftInv, LeftIn
        <5> QED BY <2>2, <5>1
      <4> QED BY <4>1, <4>2
    <3>2. CASE p # Ret
      BY <2>2, <3>2
    <3> QED BY <3>1, <3>2
  <2>5. server = "answered" \/ si > Len(Replies) => server' = "answered" \/ si' > Len(Replies)
    BY <2>2, <2>3
  <2> QED BY <2>2, <2>4, <2>5, LeftStays
<1>7. CASE UNCHANGED vars
  <2>1. UNCHANGED <<op, ops, s, left, heap, server, si>>
    BY <1>7 DEF vars, orderVars, stubVars
  <2> QED BY <2>1, LeftStays
<1> QED BY <1>1, <1>2, <1>3, <1>5, <1>6, <1>7, LeftAnswer DEF Next, OrderNext, ServerNext

LEMMA ReplyStays ==
  ASSUME TypeInv, ReplyInv, op' = op, ops' = ops, s' = s, left' = left, rep' = rep,
         server' = "marshal" => server = "marshal" /\ si' = si,
         server' = "answered" => server = "answered" \/ (server = "marshal" /\ si > Len(Replies))
  PROVE  ReplyInv'
<1>1. /\ \A q : Kind(q)' = Kind(q) /\ VarSized(q)' = VarSized(q) /\ HasOut(q)' = HasOut(q)
      /\ \A q, dir : Carries(q, dir)' = Carries(q, dir)
      /\ \A i, dir : Before(Replies, i, dir)' = Before(Replies, i, dir)
  BY SameSlots, BeforeStays
<1>2. Replies' = Replies
  BY SameSlots DEF Replies
<1>3. \A q : Replied(q)' = Replied(q)
  BY <1>1 DEF Replied, OnWire
<1>4. Len(Replies) \in Nat /\ si \in Nat
  BY RepliesFacts DEF TypeInv, StubTypes
<1>5. ASSUME NEW i \in 1 .. Len(Replies), (server' = "answered" /\ ~op.oneway) \/ (server' = "marshal" /\ i < si')
      PROVE (server = "answered" /\ ~op.oneway) \/ (server = "marshal" /\ i < si)
  BY <1>4, <1>5
<1>6. ASSUME server' = "marshal" PROVE Len(rep'.var) = (Before(Replies, si, "out"))'
  <2>1. si' = si /\ server = "marshal"
    BY <1>6
  <2>2. (Before(Replies, si, "out"))' = Before(Replies, si, "out")
    BY <1>1, <1>2, <2>1 DEF Before, Pieces
  <2> QED BY <2>1, <2>2 DEF ReplyInv
<1> QED BY <1>1, <1>2, <1>3, <1>5, <1>6 DEF ReplyInv

LEMMA ReplyMarshal ==
  ASSUME TypeInv, Supported(op), SidesInv, LeftInv, ReplyInv, ServerMarshal
  PROVE  ReplyInv'
<1>1. PICK p : p = Replies[si]
  OBVIOUS
<1>2. /\ p \in Slots /\ si \in 1 .. Len(Replies) /\ si' = si + 1 /\ server = "marshal" /\ server' = server
      /\ op \in Operations /\ stage = "generated" /\ OrderInv
      /\ op' = op /\ ops' = ops /\ Replies' = Replies /\ s' = s /\ left' = left
      /\ \A q \in Slots : q # p => /\ rep'.word[q] = rep.word[q] /\ rep'.len[q] = rep.len[q]
                                   /\ rep'.ptr[q] = rep.ptr[q]
      /\ HasOut(p) => Replied(p)'
      /\ rep'.var = IF Carries(p, "out") THEN Append(rep.var, left[p]) ELSE rep.var
  BY <1>1, AnswerEffect
<1>3. rep \in Message
  BY DEF TypeInv, StubTypes
<1>4. /\ \A q : VarSized(q)' = VarSized(q) /\ HasOut(q)' = HasOut(q) /\ Kind(q)' = Kind(q)
      /\ \A q, dir : Carries(q, dir)' = Carries(q, dir)
      /\ \A i, dir : Before(Replies, i, dir)' = Before(Replies, i, dir)
  BY <1>2, SameSlots, BeforeStays
<1>5. /\ \A i, j \in 1 .. Len(Replies) : Replies[i] = Replies[j] => i = j
      /\ \A i \in 1 .. Len(Replies) : Replies[i] \in Slots
      /\ DOMAIN Replies = 1 .. Len(Replies) /\ Len(Replies) \in Nat
  BY <1>2, RepliesOnce
<1>6. rep.var \in Seq(Value) /\ (Carries(p, "out") => left[p] \in Value)
  <2>1. Carries(p, "out") => p \in OutSlots
    BY <1>2, CarriesFacts DEF OutSlots
  <2> QED BY <1>2, <1>3, <2>1 DEF Message, LeftInv, WellFormed
<1>7. Len(rep.var) = Before(Replies, si, "out") /\ Len(rep.var) \in Nat /\ DOMAIN rep.var = 1 .. Len(rep.var)
  BY <1>2, <1>6 DEF ReplyInv
<1>8. Before(Replies, si + 1, "out") = IF Carries(p, "out") THEN Before(Replies, si, "out") + 1
                                       ELSE Before(Replies, si, "out")
  BY <1>1, <1>2, <1>5, BeforeFacts
<1>9. /\ Len(rep'.var) = Before(Replies, si + 1, "out")
      /\ \A k \in DOMAIN rep.var : k \in DOMAIN rep'.var /\ rep'.var[k] = rep.var[k]
      /\ Carries(p, "out") => Before(Replies, si, "out") + 1 \in DOMAIN rep'.var
                              /\ rep'.var[Before(Replies, si, "out") + 1] = left[p]
  <2>1. CASE Carries(p, "out")
    <3>1. rep'.var = Append(rep.var, left[p])
      BY <1>2, <2>1
    <3> QED BY <1>6, <1>7, <1>8, <2>1, <3>1
  <2>2. CASE ~Carries(p, "out")
    <3>1. rep'.var = rep.var
      BY <1>2, <2>2
    <3> QED BY <1>7, <1>8, <2>2, <3>1
  <2> QED BY <2>1, <2>2
<1>10. ASSUME NEW i \in 1 .. Len(Replies), i < si + 1
       PROVE  /\ HasOut(Replies[i]) => Replied(Replies[i])'
              /\ Carries(Replies[i], "out") =>
                    /\ Before(Replies, i, "out") + 1 \in DOMAIN rep'.var
                    /\ rep'.var[Before(Replies, i, "out") + 1] = left[Replies[i]]
  <2>1. CASE i = si
    BY <1>1, <1>2, <1>9, <2>1 DEF Replied, OnWire
  <2>2. CASE i # si
    <3>1. i < si
      BY <1>2, <1>10, <2>2
    <3>2. /\ HasOut(Replies[i]) => Replied(Replies[i])
          /\ Carries(Replies[i], "out") => /\ Before(Replies, i, "out") + 1 \in DOMAIN rep.var
                                      /\ rep.var[Before(Replies, i, "out") + 1] = left[Replies[i]]
      BY <1>2, <3>1 DEF ReplyInv
    <3>3. Replies[i] \in Slots /\ Replies[i] # p
      BY <1>1, <1>2, <1>5, <2>2
    <3>4. HasOut(Replies[i]) => Replied(Replies[i])'
      BY <1>2, <1>4, <3>2, <3>3 DEF Replied, OnWire
    <3> QED BY <1>9, <3>2, <3>4
  <2> QED BY <2>1, <2>2
<1>11. \A i \in 1 .. Len(Replies') :
          (server' = "answered" /\ ~op'.oneway) \/ (server' = "marshal" /\ i < si') =>
            /\ HasOut(Replies[i])' => Replied(Replies[i])'
            /\ Carries(Replies[i], "out")' => /\ (Before(Replies, i, "out") + 1)' \in DOMAIN rep'.var
                                         /\ rep'.var[(Before(Replies, i, "out") + 1)'] = left'[Replies'[i]]
  BY <1>2, <1>4, <1>10
<1>12. (Before(Replies, si, "out"))' = Before(Replies, si + 1, "out")
  BY <1>2, <1>4 DEF Before, Pieces
<1> QED BY <1>2, <1>9, <1>11, <1>12 DEF ReplyInv

LEMMA ReplyStep ==
  ASSUME TypeInv, Supported(op), SidesInv, LeftInv, ReplyInv, [Next]_vars
  PROVE  ReplyInv'
<1>0. op' = op /\ op \in Operations /\ OrderInv /\ Len(Replies) \in Nat
  BY SidesStep, RepliesFacts DEF TypeInv
<1>1. CASE OrderNext /\ UNCHANGED stubVars
  <2>1. server' = "idle"
    BY <1>1, GeneratingEffect DEF stubVars
  <2> QED BY <2>1 DEF ReplyInv
<1>2. CASE ServerUnmarshal \/ Invoke \/ Raise \/ Defer
  <2>1. server' \notin {"marshal", "answered"}
    BY <1>2 DEF ServerUnmarshal, Invoke, Raise, Defer
  <2> QED BY <2>1 DEF ReplyInv
<1>3. CASE Call
  <2>1. server' = "unmarshal"
    BY <1>3 DEF Call
  <2> QED BY <2>1 DEF ReplyInv
<1>4. CASE Answer \/ AnswerLater
  <2>1. /\ op' = op /\ ops' = ops /\ rep' = rep /\ si' = si /\ si = 1 /\ rep = EmptyMessage
        /\ server' = "marshal" \/ (server' = "answered" /\ op.oneway)
    BY <1>4 DEF Answer, AnswerLater, orderVars, TypeInv, PhaseInv
  <2>2. Replies' = Replies
    BY <2>1, SameSlots DEF Replies
  <2>3. Len(rep'.var) = 0
    BY <1>0, <2>1, EmptyMessageType
  <2>4. (Before(Replies, si, "out"))' = 0
    <3>1. (Before(Replies, si, "out"))' = Before(Replies, 1, "out")
      BY <2>1, <2>2, BeforeStays DEF Before, Pieces
    <3> QED BY <3>1, BeforeFirst
  <2>5. \A i \in 1 .. Len(Replies') : ~(i < si')
    BY <1>0, <2>1, <2>2
  <2> QED BY <2>1, <2>3, <2>4, <2>5 DEF ReplyInv
<1>5. CASE Reply
  <2>1. UNCHANGED <<orderVars, s, rep, left>> /\ server = "marshal" /\ si > Len(Replies) /\ server' = "answered"
    BY <1>5 DEF Reply
  <2> QED BY <1>0, <2>1, ReplyStays DEF orderVars
<1>6. CASE ClientNext /\ ~Call
  <2>1. UNCHANGED <<orderVars, si, s, rep, left, server>>
    BY <1>6, ClientEffect
  <2> QED BY <1>0, <2>1, ReplyStays DEF orderVars
<1>7. CASE UNCHANGED vars
  <2>1. UNCHANGED <<op, ops, s, left, rep, server, si>>
    BY <1>7 DEF vars, orderVars, stubVars
  <2> QED BY <2>1, ReplyStays
<1> QED BY <1>1, <1>2, <1>3, <1>4, <1>5, <1>6, <1>7, ReplyMarshal DEF Next, OrderNext, ServerNext

-----------------------------------------------------------------------------
(* What has arrived at the client.                                         *)

ArrivedInv ==
  /\ client \in {"marshal", "waiting", "unmarshal"} => \A o \in Frames : heap[o].live
  /\ Taking /\ ~op.oneway =>
       \A p \in Items("out") :
         /\ Target(p) => heap[<<"caller", p>>] = Holding(left[p])
         /\ ~Target(p) /\ client = "unmarshal" => heap[<<"frame", p>>] = Holding(left[p])

LEMMA ArrivedStays ==
  ASSUME ArrivedInv, op' = op,
         Taking' /\ ~op.oneway => Taking /\ left' = left /\ (client' = "unmarshal" => client = "unmarshal"),
         client' \in {"marshal", "waiting", "unmarshal"} =>
            /\ client \in {"marshal", "waiting", "unmarshal"}
            /\ \A o \in Frames : heap'[o] = heap[o],
         Taking' => \A p \in Items("out") : Target(p) => heap'[<<"caller", p>>] = heap[<<"caller", p>>]
  PROVE  ArrivedInv'
<1>1. Frames' = Frames /\ (\A dir : Items(dir)' = Items(dir)) /\ (\A p : Target(p)' = Target(p))
  BY SameSlots
<1>2. client' \in {"marshal", "waiting", "unmarshal"} => \A o \in Frames : heap'[o].live
  BY DEF ArrivedInv
<1>3. ASSUME Taking', ~op.oneway, NEW p \in Items("out")
      PROVE /\ Target(p) => heap'[<<"caller", p>>] = Holding(left'[p])
            /\ ~Target(p) /\ client' = "unmarshal" => heap'[<<"frame", p>>] = Holding(left'[p])
  <2>1. ~Target(p) => <<"frame", p>> \in Frames
    BY DEF Frames
  <2> QED BY <1>3, <2>1 DEF ArrivedInv
<1> QED BY <1>1, <1>2, <1>3 DEF ArrivedInv, Holding

(* A string item of the reply names what the function left for it, and, as *)
(* long as the client waits, memory of the client that it fits in.         *)
LEMMA ReplyItem ==
  ASSUME TypeInv, Supported(op), LeftInv, ReplyInv, server = "marshal", si > Len(Replies), NEW p \in Items("out")
  PROVE  /\ rep.ptr[p] \in Objects /\ Live(rep.ptr[p]) /\ rep.len[p] = left[p].n
         /\ Cut(Content(rep.ptr[p]), rep.len[p]) = left[p]
<1>1. op \in Operations /\ OrderInv /\ heap \in Heaps /\ stage = "generated" /\ si \in Nat
  BY DEF TypeInv, StubTypes, OrderInv, OrderTypes, PhaseInv
<1>2. p \in Slots
  BY DEF Items
<1>3. VarSized(p) /\ HasOut(p) /\ p \in Params /\ ~Carries(p, "out") /\ p # Ret
  BY <1>1, <1>2, CarriesFacts, SlotFacts
<1>4. ~Claimed(p) /\ p \in OutSlots
  BY <1>1, <1>2, <1>3, ClaimedFacts DEF OutSlots
<1>5. PICK i \in 1 .. Len(Replies) : Replies[i] = p
  BY <1>1, <1>2, <1>4, RepliesOnce
<1>6. i < si
  <2>1. Len(Replies) \in Nat
    BY <1>1, RepliesOnce
  <2> QED BY <1>1, <1>5, <2>1
<1>7. Replied(p)
  BY <1>3, <1>5, <1>6 DEF ReplyInv
<1>8. rep.ptr[p] = s[p].ptr /\ rep.len[p] = left[p].n
  BY <1>3, <1>7 DEF Replied
<1>9. /\ s[p].ptr \in {<<"own", p>>, <<"pool", p>>} /\ heap[s[p].ptr] = Holding(left[p])
      /\ left[p] \in Value
  BY <1>3, <1>4 DEF LeftInv, LeftIn, WellFormed
<1>10. s[p].ptr \in Objects
  BY <1>2, <1>9, ObjectFacts
<1>11. Content(s[p].ptr) = left[p] /\ Live(s[p].ptr)
  BY <1>1, <1>9, <1>10, ContentType
<1> QED BY <1>1, <1>8, <1>9, <1>10, <1>11, CutWhole

LEMMA LandingPlace ==
  ASSUME TypeInv, Supported(op), CallerInv, ArrivedInv, client = "waiting", NEW p \in Items("out")
  PROVE  /\ Landing(p) = IF Target(p) THEN <<"caller", p>> ELSE <<"frame", p>>
         /\ Landing(p) \in Objects /\ Landing(p)[2] = p /\ heap[Landing(p)].live /\ Live(Landing(p))
<1>1. op \in Operations /\ DOMAIN heap = Objects
  BY HeapDomain DEF TypeInv, OrderInv, OrderTypes
<1>2. p \in Slots
  BY DEF Items
<1>3. VarSized(p) /\ p \in Params
  BY <1>1, <1>2, CarriesFacts
<1>4. <<"caller", p>> \in Objects /\ <<"frame", p>> \in Objects
  BY <1>2, ObjectFacts
<1>5. CASE Target(p)
  <2>1. Brings(p)
    BY <1>3, <1>5 DEF Target, Brings
  <2>2. ~Taking
    BY DEF Taking, TypeInv, PhaseInv
  <2>3. CallerKept(p)
    BY <1>3, <2>2 DEF CallerInv
  <2>4. c[p].ptr = <<"caller", p>> /\ heap[<<"caller", p>>].live
    BY <1>3, <2>1, <2>3 DEF CallerKept
  <2> QED BY <1>1, <1>4, <1>5, <2>4 DEF Landing, Live
<1>6. CASE ~Target(p)
  <2>1. <<"frame", p>> \in Frames
    BY <1>6 DEF Frames
  <2>2. heap[<<"frame", p>>].live
    BY <2>1 DEF ArrivedInv
  <2> QED BY <1>1, <1>4, <1>6, <2>2 DEF Landing, Live
<1> QED BY <1>5, <1>6

LEMMA ArrivedReply ==
  ASSUME TypeInv, Supported(op), SidesInv, CallerInv, LeftInv, ReplyInv, ArrivedInv, Reply
  PROVE  ArrivedInv'
<1>1. /\ UNCHANGED <<orderVars, ci, si, c, s, req, rep, read, deferred, ok, given, taken, left>>
      /\ server = "marshal" /\ op \in Operations /\ op' = op
      /\ \/ client' = client /\ heap' = heap
         \/ client = "waiting" /\ client' = "failed" /\ heap' = heap
         \/ /\ client = "waiting" /\ client' = "unmarshal"
            /\ heap' = [o \in Objects |->
                             IF o[2] \in Items("out") /\ o = Landing(o[2])
                             THEN [heap[o] EXCEPT !.val = Cut(Content(rep.ptr[o[2]]), rep.len[o[2]])]
                             ELSE heap[o]]
  BY ReplyEffect, CodeStays
<1>2. si > Len(Replies)
  BY DEF Reply
<1>3. CASE heap' = heap /\ (client' = client \/ client' = "failed")
  <2>1. Taking' => Taking
    BY <1>1, <1>3 DEF Taking
  <2> QED BY <1>1, <1>3, <2>1, ArrivedStays
<1>4. CASE /\ client = "waiting" /\ client' = "unmarshal"
           /\ heap' = [o \in Objects |->
                             IF o[2] \in Items("out") /\ o = Landing(o[2])
                             THEN [heap[o] EXCEPT !.val = Cut(Content(rep.ptr[o[2]]), rep.len[o[2]])]
                             ELSE heap[o]]
  <2>1. /\ Frames' = Frames /\ (\A dir : Items(dir)' = Items(dir)) /\ (\A p : Target(p)' = Target(p))
    BY <1>1, SameSlots
  <2>2. ASSUME NEW p \in Items("out")
        PROVE heap'[Landing(p)] = Holding(left[p])
    <3> DEFINE o == Landing(p)
               v == Cut(Content(rep.ptr[p]), rep.len[p])
    <3>1. o \in Objects /\ o[2] = p /\ heap[o].live
      BY <1>4, LandingPlace
    <3>2. v = left[p]
      BY <1>1, <1>2, ReplyItem
    <3>3. heap'[o] = [heap[o] EXCEPT !.val = v]
      BY <1>4, <3>1
    <3>4. heap[o] \in [live : BOOLEAN, val : Value]
      BY <3>1, HeapDomain
    <3> HIDE DEF o, v
    <3>5. heap'[o] = Holding(v)
      BY <3>1, <3>3, <3>4 DEF Holding
    <3> QED BY <3>2, <3>5 DEF o
  <2>3. ASSUME NEW o \in Frames
        PROVE heap'[o].live
    <3>1. o \in Objects /\ heap[o].live
      BY <1>4, ObjectFacts DEF Frames, Items, ArrivedInv
    <3> DEFINE v == Cut(Content(rep.ptr[o[2]]), rep.len[o[2]])
    <3>2. heap'[o] = heap[o] \/ heap'[o] = [heap[o] EXCEPT !.val = v]
      BY <1>4, <3>1
    <3>3. heap[o] \in [live : BOOLEAN, val : Value]
      BY <3>1, HeapDomain
    <3> HIDE DEF v
    <3> QED BY <3>1, <3>2, <3>3
  <2>4. ASSUME NEW p \in Items("out")
        PROVE /\ Target(p) => heap'[<<"caller", p>>] = Holding(left'[p])
              /\ ~Target(p) => heap'[<<"frame", p>>] = Holding(left'[p])
    BY <1>1, <1>4, <2>2, LandingPlace
  <2> QED BY <2>1, <2>3, <2>4 DEF ArrivedInv, Holding
<1> QED BY <1>1, <1>3, <1>4

(* What arrived in the caller's own buffer stays there.                    *)
LEMMA TargetStays ==
  ASSUME TypeInv, Supported(op), SidesInv, NEW p \in Slots, Takes(p), HasOut(p), Target(p)
  PROVE  \A o \in Objects : heap'[o] = heap[o]
<1>1. op \in Operations /\ DOMAIN heap = Objects
  BY HeapDomain DEF TypeInv, OrderInv, OrderTypes
<1>2. Kind(p) \in {"array", "sequence"} /\ ~UseMalloc(p)
  BY DEF Target
<1>3. p # Ret /\ p \in Params
  BY <1>1, <1>2, SlotFacts DEF UseMalloc
<1>4. Kind(p) = "array" => ~HasIn(p)
  BY <1>1, <1>2, <1>3, SupportedKinds
<1>5. TakeArray(p) \/ TakeSequence(p)
  BY <1>2 DEF Takes, TakeWord, TakeThread, TakeMap, TakeString
<1>6. TakeData(p, c[p].ptr, FALSE, FALSE)
  <2>1. CASE TakeArray(p)
    <3>1. ~HasIn(p)
      BY <1>4, <2>1 DEF TakeArray
    <3>2. TakeData(p, IF UseMalloc(p) THEN New(p) ELSE c[p].ptr, HasIn(p), UseMalloc(p))
      BY <2>1 DEF TakeArray
    <3>3. HasIn(p) = FALSE /\ UseMalloc(p) = FALSE
      BY <1>2, <3>1 DEF HasIn, UseMalloc
    <3> QED BY <3>2, <3>3
  <2>2. CASE TakeSequence(p)
    BY <1>2, <2>2 DEF TakeSequence
  <2> QED BY <1>5, <2>1, <2>2
<1> QED BY <1>1, <1>6 DEF TakeData

LEMMA ArrivedTakes ==
  ASSUME TypeInv, Supported(op), SidesInv, NEW p \in Slots, Takes(p), HasOut(p)
  PROVE  /\ \A o \in Frames : heap'[o] = heap[o]
         /\ \A q \in Items("out") : Target(q) => heap'[<<"caller", q>>] = heap[<<"caller", q>>]
<1>1. /\ c[p].ptr \in {None, <<"caller", p>>, <<"alloc", p>>}
      /\ \A o \in Objects : o # c[p].ptr /\ o # <<"alloc", p>> => heap'[o] = heap[o]
  BY TakeEffect DEF SidesInv
<1>2. ASSUME NEW q \in Slots PROVE heap'[<<"frame", q>>] = heap[<<"frame", q>>]
  <2>1. <<"frame", q>> \in Objects
    BY ObjectFacts
  <2> QED BY <1>1, <2>1 DEF None
<1>3. \A o \in Frames : heap'[o] = heap[o]
  BY <1>2 DEF Frames, Items
<1>4. ASSUME NEW q \in Items("out"), Target(q) PROVE heap'[<<"caller", q>>] = heap[<<"caller", q>>]
  <2>1. q \in Slots /\ <<"caller", q>> \in Objects
    BY ObjectFacts DEF Items
  <2>2. CASE q = p
    BY <1>4, <2>1, <2>2, TargetStays
  <2>3. CASE q # p
    BY <1>1, <2>1, <2>3 DEF None
  <2> QED BY <2>2, <2>3
<1> QED BY <1>3, <1>4

LEMMA ArrivedStep ==
  ASSUME TypeInv, Supported(op), SidesInv, CallerInv, LeftInv, ReplyInv, ArrivedInv, [Next]_vars
  PROVE  ArrivedInv'
<1>0. op' = op /\ op \in Operations /\ DOMAIN heap = Objects
  BY SidesStep, HeapDomain
<1>1. CASE OrderNext /\ UNCHANGED stubVars
  <2>1. ~Taking' /\ client' = "start"
    BY <1>1, GeneratingEffect DEF stubVars, Taking
  <2> QED BY <1>0, <2>1, ArrivedStays
<1>a. (\A o \in Frames : o \in Objects /\ ClientSide(o))
      /\ \A p \in Items("out") : <<"caller", p>> \in Objects /\ ClientSide(<<"caller", p>>) /\ <<"caller", p>> \notin Frames
  <2>1. ASSUME NEW p \in Items("out")
        PROVE /\ <<"frame", p>> \in Objects /\ ClientSide(<<"frame", p>>)
              /\ <<"caller", p>> \in Objects /\ ClientSide(<<"caller", p>>) /\ <<"caller", p>> \notin Frames
    <3>1. p \in Slots
      BY DEF Items
    <3>2. <<"frame", p>> \in Objects /\ <<"caller", p>> \in Objects
      BY <3>1, ObjectFacts
    <3>3. <<"caller", p>> \notin Frames
      BY DEF Frames
    <3> QED BY <3>2, <3>3 DEF ClientSide
  <2>2. ASSUME NEW o \in Frames PROVE \E p \in Items("out") : o = <<"frame", p>>
    BY DEF Frames
  <2> QED BY <2>1, <2>2
<1>2. CASE ServerAlone
  <2>1. /\ server # "answered" /\ UNCHANGED ok
        /\ client' = client \/ (client = "waiting" /\ client' = "failed")
        /\ \A o \in Objects : ClientSide(o) => heap'[o] = heap[o]
    BY <1>2, ServerAloneEffect
  <2>2. ~(Taking' /\ ~op.oneway)
    BY <2>1 DEF Taking, TypeInv, PhaseInv
  <2> QED BY <1>0, <1>a, <2>1, <2>2, ArrivedStays
<1>3. CASE Start
  <2>1. /\ client' = "marshal" /\ ~Taking'
        /\ heap' = [o \in Objects |-> IF o \in Frames THEN Holding(Junk) ELSE heap[o]]
    BY <1>0, <1>3 DEF Start, Taking, TypeInv, PhaseInv
  <2>2. \A o \in Frames : heap'[o].live
    BY <1>a, <2>1 DEF Holding
  <2>3. Frames' = Frames
    BY <1>0, SameSlots
  <2> QED BY <2>1, <2>2, <2>3 DEF ArrivedInv
<1>4. CASE Call
  <2>1. /\ client = "marshal" /\ client' \in {"waiting", "unmarshal"} /\ (client' = "unmarshal" => op.oneway)
        /\ ok' = ok /\ ~ok /\ \A o \in Objects : o[1] # "pool" => heap'[o] = heap[o]
    BY <1>0, <1>4 DEF Call, TypeInv, PhaseInv
  <2>2. ~(Taking' /\ ~op.oneway)
    BY <2>1 DEF Taking
  <2>3. (\A o \in Frames : heap'[o] = heap[o]) /\ \A p \in Items("out") : heap'[<<"caller", p>>] = heap[<<"caller", p>>]
    BY <1>a, <2>1 DEF Frames
  <2> QED BY <1>0, <2>1, <2>2, <2>3, ArrivedStays
<1>5. CASE CallFails \/ SkipUnmarshal \/ ClientMarshal
  <2>1. heap' = heap /\ ~Taking' /\ (client' = "marshal" => client = "marshal") /\ client' \notin {"waiting", "unmarshal"}
    BY <1>5 DEF CallFails, SkipUnmarshal, ClientMarshal, Taking, TypeInv, PhaseInv
  <2> QED BY <1>0, <2>1, ArrivedStays
<1>6. CASE Finish
  <2>1. /\ client = "unmarshal" /\ client' = "return" /\ left' = left
        /\ heap' = [o \in Objects |-> IF o \in Frames THEN [heap[o] EXCEPT !.live = FALSE] ELSE heap[o]]
    BY <1>0, <1>6 DEF Finish
  <2>2. \A p \in Items("out") : heap'[<<"caller", p>>] = heap[<<"caller", p>>]
    BY <1>a, <2>1
  <2> QED BY <1>0, <2>1, <2>2, ArrivedStays DEF Taking
<1>7. CASE ClientUnmarshal
  <2>1. /\ client' = client /\ ok' = ok /\ left' = left /\ client = "unmarshal" /\ ops[ci] \in Slots
        /\ \/ ~HasOut(ops[ci]) /\ UNCHANGED <<c, heap, misused, read>>
           \/ HasOut(ops[ci]) /\ Takes(ops[ci])
    BY <1>7, UnmarshalCases
  <2>2. /\ \A o \in Frames : heap'[o] = heap[o]
        /\ \A q \in Items("out") : Target(q) => heap'[<<"caller", q>>] = heap[<<"caller", q>>]
    BY <2>1, ArrivedTakes
  <2> QED BY <1>0, <2>1, <2>2, ArrivedStays DEF Taking
<1>8. CASE Return
  <2>1. /\ client' = "done" /\ ok' = ok /\ left' = left /\ client = "return"
        /\ \/ UNCHANGED <<c, heap, misused, read>>
           \/ Ret \in Slots /\ Takes(Ret)
    BY <1>8, ReturnCases
  <2>2. \A q \in Items("out") : Target(q) => heap'[<<"caller", q>>] = heap[<<"caller", q>>]
    <3>1. HasOut(Ret)
      BY DEF HasOut
    <3> QED BY <2>1, <3>1, ArrivedTakes
  <2> QED BY <1>0, <2>1, <2>2, ArrivedStays DEF Taking
<1>9. CASE UNCHANGED vars
  <2>1. UNCHANGED <<heap, client, ok, left>>
    BY <1>9 DEF vars, stubVars
  <2> QED BY <1>0, <2>1, ArrivedStays DEF Taking
<1> QED BY <1>1, <1>2, <1>3, <1>4, <1>5, <1>6, <1>7, <1>8, <1>9, ArrivedReply
    DEF Next, OrderNext, ClientNext, ServerNext, ServerAlone

-----------------------------------------------------------------------------
(* What the client has taken from the reply.                               *)

Has(p) ==
  /\ ~VarSized(p) => c[p].val = left[p]
  /\ VarSized(p) => /\ c[p].ptr \in {<<"caller", p>>, <<"alloc", p>>}
                    /\ heap[c[p].ptr] = Holding(left[p])
  /\ Kind(p) = "sequence" => c[p].len = left[p].n

TakenInv ==
  /\ \A p \in Params : Taking /\ HasOut(p) /\ Behind(p) => Has(p)
  /\ client = "done" /\ ok /\ op.ret # "void" => Has(Ret)
  /\ client = "unmarshal" \/ (client = "return" /\ ok) => read.c = Before(Replies, ci, "out")
  /\ Ret \in Slots /\ client # "done" => c[Ret].ptr = None

(* What TakeData stores and what it frees, when what it is to take is there. *)
LEMMA TakeDataEffect ==
  ASSUME TypeInv, NEW p \in Slots, NEW buffer \in Objects, NEW frees \in BOOLEAN, NEW copies \in BOOLEAN,
         NEW v \in Value, TakeData(p, buffer, frees, copies),
         Arrived.len[p] = v.n, copies => Piece(p) = v,
         ~copies => ~frees /\ heap[buffer] = Holding(v),
         p \in Items("out") => Live(Landing(p)),
         frees \/ buffer = c[p].ptr => Live(c[p].ptr)
  PROVE  /\ c'[p].ptr = buffer /\ heap'[buffer] = Holding(v)
         /\ Kind(p) = "sequence" => c'[p].len = v.n
         /\ \A q \in Slots : q # p /\ LengthOf(p) = {q} => c'[q].val = Length(v.n)
         /\ read'.c = IF <<p, "out">> \in op.inline THEN read.c + 1 ELSE read.c
         /\ misused' = misused
         /\ frees /\ c[p].ptr # buffer /\ c[p].ptr \in Objects => ~heap'[c[p].ptr].live
         /\ \A o \in Objects : o # buffer /\ o # c[p].ptr => heap'[o] = heap[o]
<1>1. /\ op \in Operations /\ heap \in Heaps /\ DOMAIN heap = Objects /\ c \in [Slots -> Variable]
      /\ read \in [{"c", "s"} -> Nat]
  BY HeapDomain DEF TypeInv, StubTypes, OrderInv, OrderTypes
<1>2. /\ c' = [q \in Slots |->
            IF q = p THEN [c[p] EXCEPT !.ptr = buffer,
                             !.len = IF Kind(p) = "sequence" THEN Arrived.len[p] ELSE @]
            ELSE IF LengthOf(p) = {q} THEN [c[q] EXCEPT !.val = Length(Arrived.len[p])]
            ELSE c[q]]
      /\ heap' = [o \in Objects |->
            IF copies /\ o = buffer THEN Holding(Piece(p))
            ELSE IF frees /\ o = c[p].ptr THEN [heap[o] EXCEPT !.live = FALSE]
            ELSE heap[o]]
      /\ misused' = misused
            \cup Dead(   (IF frees \/ buffer = c[p].ptr THEN {c[p].ptr} ELSE {})
                    \cup (IF p \in Items("out") THEN {Landing(p)} ELSE {}))
      /\ read' = IF <<p, "out">> \in op.inline THEN [read EXCEPT !.c = @ + 1] ELSE read
  BY <1>1 DEF TakeData
<1>3. \A q \in Slots : c[q] \in Variable
  BY <1>1
<1>4. c'[p].ptr = buffer /\ (Kind(p) = "sequence" => c'[p].len = v.n)
  <2>1. c'[p] = [c[p] EXCEPT !.ptr = buffer, !.len = IF Kind(p) = "sequence" THEN v.n ELSE @]
    BY <1>2
  <2> QED BY <1>3, <2>1 DEF Variable
<1>5. ASSUME NEW q \in Slots, q # p, LengthOf(p) = {q} PROVE c'[q].val = Length(v.n)
  <2> DEFINE l == Length(v.n)
  <2>1. c'[q] = [c[q] EXCEPT !.val = l]
    BY <1>2, <1>5
  <2> HIDE DEF l
  <2>2. c'[q].val = l
    BY <1>3, <1>5, <2>1 DEF Variable
  <2> QED BY <2>2 DEF l
<1>6. heap'[buffer] = Holding(v)
  BY <1>2
<1>7. \A o \in Objects : o # buffer /\ o # c[p].ptr => heap'[o] = heap[o]
  BY <1>2
<1>8. ASSUME frees, c[p].ptr # buffer, c[p].ptr \in Objects PROVE ~heap'[c[p].ptr].live
  <2> DEFINE o == c[p].ptr
  <2>1. heap'[o] = [heap[o] EXCEPT !.live = FALSE] /\ heap[o] \in [live : BOOLEAN, val : Value]
    BY <1>1, <1>2, <1>8 DEF Heaps
  <2> HIDE DEF o
  <2>2. ~heap'[o].live
    BY <2>1
  <2> QED BY <2>2 DEF o
<1>9. misused' = misused
  <2> DEFINE used ==      (IF frees \/ buffer = c[p].ptr THEN {c[p].ptr} ELSE {})
                     \cup (IF p \in Items("out") THEN {Landing(p)} ELSE {})
  <2>1. \A o \in used : Live(o)
    OBVIOUS
  <2> HIDE DEF used
  <2>2. Dead(used) = {}
    BY <2>1 DEF Dead
  <2>3. misused' = misused \cup Dead(used)
    BY <1>2 DEF used
  <2> QED BY <2>2, <2>3
<1>10. read'.c = IF <<p, "out">> \in op.inline THEN read.c + 1 ELSE read.c
  <2>1. CASE <<p, "out">> \in op.inline
    BY <1>1, <1>2, <2>1
  <2>2. CASE <<p, "out">> \notin op.inline
    BY <1>2, <2>2
  <2> QED BY <2>1, <2>2
<1> QED BY <1>4, <1>5, <1>6, <1>7, <1>8, <1>9, <1>10

(* What is there for the slot that is unmarshalled.                        *)
LEMMA PieceArrived ==
  ASSUME TypeInv, Supported(op), SidesInv, CallerInv, LeftInv, ReplyInv, ArrivedInv, TakenInv, Taking, ~op.oneway,
         NEW p \in Slots, HasOut(p), VarSized(p), ci \in 1 .. Len(Replies), p = Replies[ci],
         client = "unmarshal" \/ (client = "return" /\ p = Ret),
         Target(p) => c[p].ptr = <<"caller", p>>
  PROVE  /\ Arrived.len[p] = left[p].n /\ Piece(p) = left[p] /\ left[p] \in Value
         /\ p \in Items("out") => Live(Landing(p))
<1>1. op \in Operations /\ OrderInv /\ heap \in Heaps /\ server = "answered" /\ stage = "generated"
      /\ (ok => client \in {"return", "done"})
  BY DEF TypeInv, StubTypes, OrderInv, OrderTypes, PhaseInv, Taking
<1>2. Arrived = rep
  BY DEF Arrived, Taking
<1>3. Replied(p)
  BY <1>1 DEF ReplyInv
<1>4. rep.len[p] = left[p].n
  BY <1>3 DEF Replied
<1>5. left[p] \in Value
  <2>1. p \in OutSlots
    BY DEF OutSlots
  <2> QED BY <1>1, <2>1 DEF LeftInv, WellFormed
<1>6. CASE Carries(p, "out")
  <2>1. read.c = Before(Replies, ci, "out") /\ read.c \in Nat
    BY <1>1 DEF TakenInv, Taking, TypeInv, StubTypes
  <2>2. read.c + 1 \in DOMAIN rep.var /\ rep.var[read.c + 1] = left[p]
    BY <1>1, <1>6, <2>1 DEF ReplyInv
  <2>3. read.c < Len(rep.var)
    <3>1. rep.var \in Seq(Value)
      BY DEF TypeInv, StubTypes, Message
    <3> QED BY <2>1, <2>2, <3>1
  <2>4. NextPiece(rep, read.c) = left[p]
    BY <2>2, <2>3 DEF NextPiece
  <2>5. Piece(p) = left[p]
    BY <1>2, <1>6, <2>4 DEF Piece, Carries
  <2>6. p \notin Items("out")
    BY <1>6 DEF Items, Carries
  <2> QED BY <1>2, <1>4, <1>5, <2>5, <2>6
<1>7. CASE ~Carries(p, "out")
  <2>1. p \in Items("out") /\ p # Ret
    BY <1>1, <1>7, CarriesFacts
  <2>2. client = "unmarshal"
    BY <2>1
  <2>3. heap[Landing(p)] = Holding(left[p]) /\ Landing(p) \in Objects
    <3>1. CASE Target(p)
      BY <2>1, <3>1, ObjectFacts DEF ArrivedInv, Landing
    <3>2. CASE ~Target(p)
      BY <2>1, <2>2, <3>2, ObjectFacts DEF ArrivedInv, Landing
    <3> QED BY <3>1, <3>2
  <2>4. Content(Landing(p)) = left[p] /\ Live(Landing(p))
    BY <1>1, <2>3, ContentType
  <2>5. Piece(p) = Cut(Content(Landing(p)), rep.len[p])
    BY <1>2, <1>7 DEF Piece, Carries
  <2>6. Piece(p) = left[p]
    BY <1>1, <1>4, <1>5, <2>4, <2>5, CutWhole
  <2> QED BY <1>2, <1>4, <1>5, <2>4, <2>6
<1> QED BY <1>6, <1>7

(* Unmarshalling a slot stores what the function left, and frees the buffer *)
(* of the caller that it replaces.                                         *)
LEMMA TakeGets ==
  ASSUME TypeInv, Supported(op), SidesInv, CallerInv, LeftInv, ReplyInv, ArrivedInv, TakenInv, Taking, ~op.oneway,
         NEW p \in Slots, HasOut(p), ci \in 1 .. Len(Replies), p = Replies[ci], Takes(p),
         client = "unmarshal" \/ (client = "return" /\ p = Ret),
         p \in Params => CallerKept(p), op' = op, left' = left
  PROVE  /\ Has(p)' /\ \A q \in Slots : LengthOf(p) = {q} => Has(q)'
         /\ read'.c = IF Carries(p, "out") THEN read.c + 1 ELSE read.c
         /\ misused' = misused
         /\ VarSized(p) /\ Brings(p) /\ c'[p].ptr # <<"caller", p>> => ~heap'[<<"caller", p>>].live
         /\ c'[p].ptr # <<"alloc", p>> => heap'[<<"alloc", p>>] = heap[<<"alloc", p>>]
         /\ ~VarSized(p) => heap' = heap /\ c'[p].ptr = c[p].ptr
<1> DEFINE own == <<"caller", p>>
           new == <<"alloc", p>>
<1>1. /\ op \in Operations /\ OrderInv /\ heap \in Heaps /\ DOMAIN heap = Objects /\ server = "answered"
      /\ stage = "generated" /\ c \in [Slots -> Variable]
  BY HeapDomain DEF TypeInv, StubTypes, OrderInv, OrderTypes, PhaseInv, Taking
<1>2. /\ \A q : Kind(q)' = Kind(q) /\ VarSized(q)' = VarSized(q)
      /\ own \in Objects /\ new \in Objects
  BY <1>1, SameSlots, ObjectFacts
<1>3. /\ HasIn(p) => Brings(p) \/ ~VarSized(p)
      /\ Brings(p) => p \in Params /\ (HasIn(p) \/ ~UseMalloc(p)) /\ VarSized(p)
      /\ p \notin Params => p = Ret
      /\ VarSized(p) /\ ~UseMalloc(p) => Brings(p)
      /\ Kind(p) = "string" => UseMalloc(p)
      /\ Kind(p) = "array" /\ ~UseMalloc(p) => ~HasIn(p)
  <2>1. p \notin Params => p = Ret
    BY <1>1, SlotFacts
  <2>2. p = Ret => UseMalloc(p) /\ ~HasIn(p)
    BY <1>1, KindFacts
  <2>3. p \in Params /\ Kind(p) = "string" => UseMalloc(p)
    BY <1>1, SupportedKinds
  <2>4. p \in Params /\ Kind(p) = "array" /\ ~UseMalloc(p) => ~HasIn(p)
    BY <1>1, SupportedKinds
  <2> QED BY <2>1, <2>2, <2>3, <2>4 DEF Brings
<1>4. /\ Brings(p) => c[p].ptr = own /\ Live(own)
      /\ ~Brings(p) /\ VarSized(p) => c[p].ptr = None
  <2>1. CASE p \in Params
    BY <1>1, <1>2, <1>3, <2>1 DEF CallerKept, Live
  <2>2. CASE p \notin Params
    BY <1>1, <1>3, <2>2 DEF TakenInv
  <2> QED BY <2>1, <2>2
<1>5. left[p] \in Value /\ ~left[p].wire /\ p \in OutSlots
  <2>1. p \in OutSlots
    BY DEF OutSlots
  <2> QED BY <1>1, <2>1 DEF LeftInv, WellFormed
<1>6. ASSUME VarSized(p), NEW buffer \in {own, new}, NEW frees \in BOOLEAN, NEW copies \in BOOLEAN,
             TakeData(p, buffer, frees, copies), ~copies => ~frees /\ buffer = own /\ Target(p),
             frees => HasIn(p), buffer = own => Brings(p), buffer = new /\ Brings(p) => frees
      PROVE  /\ Has(p)' /\ \A q \in Slots : LengthOf(p) = {q} => Has(q)'
             /\ read'.c = IF Carries(p, "out") THEN read.c + 1 ELSE read.c
             /\ misused' = misused
             /\ VarSized(p) /\ Brings(p) /\ c'[p].ptr # <<"caller", p>> => ~heap'[<<"caller", p>>].live
             /\ c'[p].ptr # <<"alloc", p>> => heap'[<<"alloc", p>>] = heap[<<"alloc", p>>]
  <2> DEFINE v == left[p]
  <2>1. buffer \in Objects /\ own # new /\ None # own /\ None # new
    BY <1>2, <1>6 DEF None
  <2>2. Target(p) => c[p].ptr = own
    BY <1>3, <1>4, <1>6 DEF Target
  <2>3. /\ Arrived.len[p] = v.n /\ Piece(p) = v
        /\ p \in Items("out") => Live(Landing(p))
    BY <1>6, <2>2, PieceArrived
  <2>4. ~copies => ~frees /\ heap[buffer] = Holding(v)
    <3>1. ASSUME ~copies PROVE heap[own] = Holding(v)
      <4>1. Target(p)
        BY <1>6, <3>1
      <4>2. p \in Items("out")
        BY <1>1, <1>6, <4>1, CarriesFacts DEF Target
      <4> QED BY <4>1, <4>2 DEF ArrivedInv
    <3> QED BY <1>6, <3>1
  <2>5. frees \/ buffer = c[p].ptr => Live(c[p].ptr)
    BY <1>3, <1>4, <1>6, <2>1
  <2>6. v \in Value
    BY <1>5
  <2>7. /\ c'[p].ptr = buffer /\ heap'[buffer] = Holding(v)
        /\ Kind(p) = "sequence" => c'[p].len = v.n
        /\ \A q \in Slots : q # p /\ LengthOf(p) = {q} => c'[q].val = Length(v.n)
        /\ read'.c = IF <<p, "out">> \in op.inline THEN read.c + 1 ELSE read.c
        /\ misused' = misused
        /\ frees /\ c[p].ptr # buffer /\ c[p].ptr \in Objects => ~heap'[c[p].ptr].live
        /\ \A o \in Objects : o # buffer /\ o # c[p].ptr => heap'[o] = heap[o]
    <3> HIDE DEF v, own, new
    <3> QED BY <1>6, <2>1, <2>3, <2>4, <2>5, <2>6, TakeDataEffect
  <2>8. Has(p)'
    <3>1. heap'[c'[p].ptr] = Holding(left'[p])
      BY <2>7
    <3>2. c'[p].ptr \in {own, new}
      BY <1>6, <2>7
    <3>3. Kind(p) = "sequence" => c'[p].len = left'[p].n
      BY <2>7
    <3> QED BY <1>2, <1>6, <3>1, <3>2, <3>3 DEF Has, Holding
  <2>9. ASSUME NEW q \in Slots, LengthOf(p) = {q}
        PROVE Has(q)'
    <3>1. q = TheLength(p) /\ Claimed(q) /\ q # p
      BY <1>1, <2>9, ClaimedFacts
    <3>2. ArrayOf(q) = p
      BY <1>1, <2>9, <3>1, ArrayOfLength
    <3>3. ~VarSized(q) /\ Kind(q) = "word" /\ HasOut(q)
      BY <1>1, <3>1, <3>2, ClaimedFacts
    <3>4. q \in OutSlots
      BY <3>3 DEF OutSlots
    <3>5. left[q] = Length(left[p].n)
      BY <1>1, <3>1, <3>2, <3>4 DEF LeftInv, WellFormed
    <3>6. c'[q].val = left'[q]
      BY <2>7, <2>9, <3>1, <3>5
    <3> QED BY <1>2, <3>3, <3>6 DEF Has
  <2>10. VarSized(p) /\ Brings(p) /\ c'[p].ptr # own => ~heap'[own].live
    BY <1>2, <1>4, <1>6, <2>1, <2>7
  <2>11. c'[p].ptr # new => heap'[new] = heap[new]
    BY <1>2, <1>4, <1>6, <2>1, <2>7
  <2>12. read'.c = IF Carries(p, "out") THEN read.c + 1 ELSE read.c
    BY <1>6, <2>7 DEF Carries
  <2> QED BY <2>7, <2>8, <2>9, <2>10, <2>11, <2>12
<1>7. CASE VarSized(p)
  <2>0. HasIn(p) \in BOOLEAN /\ UseMalloc(p) \in BOOLEAN
    BY DEF HasIn, UseMalloc
  <2>1. CASE TakeString(p)
    <3>1. CASE HasIn(p) /\ ~Outgrown(p)
      <4>1. TakeData(p, own, FALSE, TRUE)
        BY <1>3, <1>4, <1>7, <2>1, <3>1 DEF TakeString
      <4> QED BY <1>3, <1>6, <1>7, <3>1, <4>1
    <3>2. CASE ~(HasIn(p) /\ ~Outgrown(p))
      <4>1. TakeData(p, new, HasIn(p), TRUE)
        BY <2>1, <3>2 DEF TakeString, New
      <4>2. Brings(p) => HasIn(p)
        BY <1>3, <2>1 DEF TakeString
      <4>3. new # own
        OBVIOUS
      <4> QED BY <1>6, <1>7, <2>0, <4>1, <4>2, <4>3
    <3> QED BY <3>1, <3>2
  <2>2. CASE (TakeArray(p) \/ TakeSequence(p)) /\ UseMalloc(p)
    <3>1. TakeData(p, new, HasIn(p), TRUE)
      <4>1. UseMalloc(p) = TRUE
        BY <2>0, <2>2
      <4> QED BY <2>2, <4>1 DEF TakeArray, TakeSequence, New
    <3>2. Brings(p) => HasIn(p)
      BY <1>3, <2>2
    <3>3. new # own
      OBVIOUS
    <3> QED BY <1>6, <1>7, <2>0, <3>1, <3>2, <3>3
  <2>3. CASE (TakeArray(p) \/ TakeSequence(p)) /\ ~UseMalloc(p)
    <3>1. Brings(p) /\ c[p].ptr = own
      BY <1>3, <1>4, <1>7, <2>3
    <3>2. TakeData(p, own, FALSE, FALSE)
      <4>1. CASE TakeArray(p)
        <5>1. HasIn(p) = FALSE /\ UseMalloc(p) = FALSE
          BY <1>3, <2>0, <2>3, <4>1 DEF TakeArray
        <5> QED BY <3>1, <4>1, <5>1 DEF TakeArray
      <4>2. CASE TakeSequence(p)
        BY <2>3, <3>1, <4>2 DEF TakeSequence
      <4> QED BY <2>3, <4>1, <4>2
    <3>3. Target(p)
      BY <2>3 DEF Target, TakeArray, TakeSequence
    <3>4. new # own
      OBVIOUS
    <3> QED BY <1>6, <1>7, <3>1, <3>2, <3>3, <3>4
  <2>4. TakeString(p) \/ TakeArray(p) \/ TakeSequence(p)
    BY <1>7 DEF Takes, TakeWord, TakeThread, TakeMap, VarSized
  <2>5. ~VarSized(p) => heap' = heap /\ c'[p].ptr = c[p].ptr
    BY <1>7
  <2> QED BY <2>1, <2>2, <2>3, <2>4, <2>5
<1>8. CASE ~VarSized(p)
  <2>1. TakeWord(p) \/ TakeThread(p) \/ TakeMap(p)
    BY <1>8 DEF Takes, TakeString, TakeArray, TakeSequence, VarSized
  <2>2. Arrived = rep
    BY DEF Arrived, Taking
  <2>3. rep.word[p] = OnWire(p, left[p])
    BY <1>1, <1>8 DEF ReplyInv, Replied
  <2>4. c' = [c EXCEPT ![p].val = left[p]]
    <3>1. CASE TakeThread(p)
      <4>1. Kind(p) = "thread" /\ c' = [c EXCEPT ![p].val = Unwire(rep.word[p])]
        BY <2>2, <3>1 DEF TakeThread
      <4>2. Unwire(rep.word[p]) = left[p]
        BY <1>1, <1>5, <2>3, <4>1, WireType DEF OnWire
      <4> QED BY <4>1, <4>2
    <3>2. CASE TakeWord(p) \/ TakeMap(p)
      <4>1. Kind(p) # "thread" /\ c' = [c EXCEPT ![p].val = rep.word[p]]
        BY <2>2, <3>2 DEF TakeWord, TakeMap
      <4>2. rep.word[p] = left[p]
        BY <2>3, <4>1 DEF OnWire
      <4> QED BY <4>1, <4>2
    <3> QED BY <2>1, <3>1, <3>2
  <2>5. c'[p].val = left[p] /\ c'[p].ptr = c[p].ptr
    <3>1. c[p] \in Variable
      BY <1>1
    <3> DEFINE v == left[p]
    <3>2. c' = [c EXCEPT ![p].val = v]
      BY <2>4
    <3> HIDE DEF v
    <3>3. c'[p].val = v /\ c'[p].ptr = c[p].ptr
      BY <1>1, <3>1, <3>2 DEF Variable
    <3> QED BY <3>3 DEF v
  <2>6. heap' = heap /\ misused' = misused /\ read' = read
    BY <2>1 DEF TakeWord, TakeThread, TakeMap
  <2>7. Has(p)'
    <3>1. Kind(p) # "sequence"
      BY <1>8 DEF VarSized
    <3> QED BY <1>2, <1>8, <2>5, <3>1 DEF Has
  <2>8. LengthOf(p) = {}
    BY <1>1, <1>8, KindFacts DEF VarSized
  <2>9. ~Carries(p, "out")
    BY <1>8 DEF Carries
  <2> QED BY <1>8, <2>5, <2>6, <2>7, <2>8, <2>9
<1> QED BY <1>7, <1>8

LEMMA HasStays ==
  ASSUME TypeInv, op' = op, left' = left, NEW p \in Slots, c'[p] = c[p], Has(p),
         \A q \in Slots : q = p => /\ heap'[<<"caller", q>>] = heap[<<"caller", q>>]
                                   /\ heap'[<<"alloc", q>>] = heap[<<"alloc", q>>]
  PROVE  Has(p)'
<1>1. Kind(p)' = Kind(p) /\ VarSized(p)' = VarSized(p)
  BY SameSlots
<1>2. VarSized(p) => heap'[c[p].ptr] = heap[c[p].ptr]
  BY DEF Has
<1> QED BY <1>1, <1>2 DEF Has, Holding

LEMMA TakenStays ==
  ASSUME TypeInv, Supported(op), TakenInv, op' = op, ops' = ops,
         Ret \in Slots => c'[Ret].ptr = c[Ret].ptr,
         client' = "done" <=> client = "done",
         Taking' /\ ~op.oneway => /\ Taking /\ left' = left /\ ci' = ci /\ c' = c
                                  /\ \A q \in Slots : /\ heap'[<<"caller", q>>] = heap[<<"caller", q>>]
                                                      /\ heap'[<<"alloc", q>>] = heap[<<"alloc", q>>],
         client' = "unmarshal" \/ (client' = "return" /\ ok') =>
            (client = "unmarshal" \/ (client = "return" /\ ok)) /\ ci' = ci /\ read'.c = read.c
  PROVE  TakenInv'
<1>1. /\ op \in Operations /\ Params' = Params /\ Slots' = Slots /\ Ret' = Ret
      /\ \A q : HasOut(q)' = HasOut(q) /\ LengthOf(q)' = LengthOf(q)
      /\ \A i, dir : Before(Replies, i, dir)' = Before(Replies, i, dir)
  BY SameSlots, BeforeStays DEF TypeInv, OrderInv, OrderTypes
<1>2. ASSUME NEW p \in Params, Taking', HasOut(p), Behind(p)'
      PROVE Has(p)'
  <2>1. p \in Slots /\ ~op.oneway
    BY <1>1, <1>2, SlotFacts, SupportedKinds
  <2>2. Taking /\ left' = left /\ ci' = ci /\ c' = c
        /\ \A q \in Slots : /\ heap'[<<"caller", q>>] = heap[<<"caller", q>>]
                            /\ heap'[<<"alloc", q>>] = heap[<<"alloc", q>>]
    BY <1>2, <2>1
  <2>3. Behind(p)
    BY <1>1, <1>2, <2>2 DEF Behind
  <2>4. Has(p)
    BY <1>2, <2>2, <2>3 DEF TakenInv
  <2> QED BY <2>1, <2>2, <2>4, HasStays
<1>3. ASSUME client' = "done", ok', op.ret # "void"
      PROVE Has(Ret)'
  <2>1. Ret \in Slots /\ ~op.oneway
    BY <1>1, <1>3, SlotFacts DEF Supported
  <2>2. Taking /\ left' = left /\ ci' = ci /\ c' = c
        /\ \A q \in Slots : /\ heap'[<<"caller", q>>] = heap[<<"caller", q>>]
                            /\ heap'[<<"alloc", q>>] = heap[<<"alloc", q>>]
    BY <1>3, <2>1 DEF Taking
  <2>3. Has(Ret)
    BY <1>3, <2>2 DEF TakenInv, Taking
  <2>4. PICK p : p = Ret
    OBVIOUS
  <2>5. Has(p)'
    BY <2>1, <2>2, <2>3, <2>4, HasStays
  <2> QED BY <1>1, <2>4, <2>5 DEF Has
<1>4. ASSUME client' = "unmarshal" \/ (client' = "return" /\ ok')
      PROVE read'.c = (Before(Replies, ci, "out"))'
  <2>1. read.c = Before(Replies, ci, "out") /\ ci' = ci /\ read'.c = read.c
    BY <1>4 DEF TakenInv
  <2>2. (Before(Replies, ci, "out"))' = Before(Replies, ci, "out")
    <3>1. Replies' = Replies
      BY SameSlots DEF Replies
    <3>2. \A q, dir : Carries(q, dir)' = Carries(q, dir)
      BY BeforeStays
    <3> QED BY <2>1, <3>1, <3>2 DEF Before, Pieces
  <2> QED BY <2>1, <2>2
<1>5. Ret \in Slots /\ client' # "done" => c'[Ret].ptr = None
  BY DEF TakenInv
<1> QED BY <1>1, <1>2, <1>3, <1>4, <1>5 DEF TakenInv

(* The other slots are left alone.                                         *)
LEMMA HasOthers ==
  ASSUME TypeInv, SidesInv, NEW p \in Slots, Takes(p), op' = op, left' = left,
         NEW q \in Slots, q # p, LengthOf(p) # {q}, Has(q)
  PROVE  Has(q)'
<1>1. /\ \A r \in Slots : r # p /\ LengthOf(p) # {r} => c'[r] = c[r]
      /\ c[p].ptr \in {None, <<"caller", p>>, <<"alloc", p>>}
      /\ \A o \in Objects : o # c[p].ptr /\ o # <<"alloc", p>> => heap'[o] = heap[o]
  BY TakeEffect DEF SidesInv
<1>2. <<"caller", q>> \in Objects /\ <<"alloc", q>> \in Objects
  BY ObjectFacts
<1>3. /\ heap'[<<"caller", q>>] = heap[<<"caller", q>>]
      /\ heap'[<<"alloc", q>>] = heap[<<"alloc", q>>]
  BY <1>1, <1>2 DEF None
<1> QED BY <1>1, <1>3, HasStays

(* The client unmarshals an operation of the list.                         *)
LEMMA UnmarshalGets ==
  ASSUME TypeInv, Supported(op), SidesInv, CallerInv, LeftInv, ReplyInv, ArrivedInv, TakenInv, ClientUnmarshal,
         NEW p, p = ops[ci], HasOut(p)
  PROVE  /\ Has(p)' /\ \A q \in Slots : LengthOf(p) = {q} => Has(q)'
         /\ read'.c = IF Carries(p, "out") THEN read.c + 1 ELSE read.c
         /\ misused' = misused
         /\ VarSized(p) /\ Brings(p) /\ c'[p].ptr # <<"caller", p>> => ~heap'[<<"caller", p>>].live
         /\ c'[p].ptr # <<"alloc", p>> => heap'[<<"alloc", p>>] = heap[<<"alloc", p>>]
         /\ ~VarSized(p) => heap' = heap /\ c'[p].ptr = c[p].ptr
<1>1. /\ p \in Slots /\ p \in Params /\ ci \in 1 .. Len(ops) /\ Len(ops) \in Nat
      /\ client = "unmarshal" /\ stage = "generated" /\ op \in Operations /\ OrderInv
      /\ UNCHANGED <<orderVars, left>> /\ Takes(p)
  BY UnmarshalCases DEF TypeInv
<1>2. Taking /\ ~op.oneway /\ op' = op
  <2>1. ~op.oneway
    BY <1>1, CarriesFacts
  <2> QED BY <1>1, <2>1 DEF Taking, orderVars
<1>3. ci \in 1 .. Len(Replies) /\ p = Replies[ci]
  BY <1>1, RepliesFacts
<1>4. ~Behind(p)
  <2> SUFFICES ASSUME NEW i \in DOMAIN ops, i < ci, ops[i] = p \/ LengthOf(ops[i]) = {p}
               PROVE FALSE
    BY DEF Behind
  <2>1. i \in 1 .. Len(ops) /\ ops[i] \in Params
    BY <1>1, GeneratedFacts
  <2>2. ~Claimed(p)
    BY <1>1, GeneratedFacts
  <2>3. ops[i] = p
    BY <2>1, <2>2 DEF Claimed
  <2>4. i = ci
    BY <1>1, <2>1, <2>3, GeneratedFacts
  <2> QED BY <1>1, <2>1, <2>4
<1>5. CallerKept(p)
  BY <1>1, <1>4 DEF CallerInv
<1> QED BY <1>1, <1>2, <1>3, <1>5, TakeGets

LEMMA TakenUnmarshal ==
  ASSUME TypeInv, Supported(op), SidesInv, CallerInv, LeftInv, ReplyInv, ArrivedInv, TakenInv, ClientUnmarshal
  PROVE  TakenInv'
<1>1. PICK p : p = ops[ci]
  OBVIOUS
<1>2. /\ p \in Slots /\ p \in Params /\ ci \in 1 .. Len(ops) /\ ci' = ci + 1 /\ Len(ops) \in Nat
      /\ client = "unmarshal" /\ client' = client /\ stage = "generated" /\ op \in Operations /\ OrderInv
      /\ op' = op /\ ops' = ops /\ left' = left /\ ok' = ok
      /\ \/ ~HasOut(p) /\ UNCHANGED <<c, heap, misused, read>>
         \/ HasOut(p) /\ Takes(p)
  BY <1>1, UnmarshalCases DEF orderVars, TypeInv
<1>3. /\ Params' = Params /\ Slots' = Slots /\ Ret' = Ret /\ Replies' = Replies
      /\ \A q : HasOut(q)' = HasOut(q) /\ LengthOf(q)' = LengthOf(q)
      /\ \A q, dir : Carries(q, dir)' = Carries(q, dir)
  BY <1>2, SameSlots, BeforeStays DEF Replies
<1>4. Taking
  BY <1>2 DEF Taking
<1>5. \A q \in Params : Behind(q)' <=> Behind(q) \/ q = p \/ LengthOf(p) = {q}
  BY <1>1, BehindNext
<1>6. \A q \in Params : HasOut(q) /\ Behind(q) => Has(q)
  BY <1>4 DEF TakenInv
<1>7. (Before(Replies, ci, "out"))' = IF Carries(p, "out") THEN read.c + 1 ELSE read.c
  <2>1. (Before(Replies, ci, "out"))' = Before(Replies, ci + 1, "out")
    BY <1>2, <1>3 DEF Before, Pieces
  <2>2. ci \in DOMAIN Replies /\ Replies[ci] = p /\ ci \in Nat /\ ci >= 1
    <3>1. /\ DOMAIN Replies = 1 .. Len(Replies)
          /\ Len(Replies) = IF op.ret = "void" THEN Len(ops) ELSE Len(ops) + 1
      BY <1>2, RepliesFacts, RepliesOnce
    <3>2. Replies[ci] = p
      BY <1>1, <1>2, RepliesFacts
    <3> QED BY <1>2, <3>1, <3>2
  <2>3. Before(Replies, ci + 1, "out") = IF Carries(p, "out") THEN Before(Replies, ci, "out") + 1
                                         ELSE Before(Replies, ci, "out")
    BY <2>2, BeforeFacts
  <2>4. read.c = Before(Replies, ci, "out")
    BY <1>2 DEF TakenInv
  <2> QED BY <2>1, <2>3, <2>4
<1>8. CASE ~HasOut(p) /\ UNCHANGED <<c, heap, misused, read>>
  <2>1. \A q \in Params : Has(q) => Has(q)'
    BY <1>2, <1>8, SlotFacts, HasStays
  <2>2. LengthOf(p) # {} => \A q \in Params : LengthOf(p) = {q} => ~HasOut(q)
    <3> SUFFICES ASSUME NEW q \in Params, LengthOf(p) = {q} PROVE ~HasOut(q)
      OBVIOUS
    <3>0. LengthOf(p) # {}
      OBVIOUS
    <3>1. q = TheLength(p) /\ Claimed(q) /\ q \in Slots
      <4>1. LengthOf(p) = {TheLength(p)} /\ Claimed(TheLength(p)) /\ TheLength(p) \in Slots
        BY <1>2, <3>0, ClaimedFacts
      <4> QED BY <4>1
    <3>2. ArrayOf(q) = p
      BY <1>2, <3>0, <3>1, ArrayOfLength
    <3>3. HasOut(q) <=> HasOut(ArrayOf(q))
      BY <1>2, <3>1, ClaimedFacts
    <3> QED BY <1>8, <3>2, <3>3
  <2>3. \A q \in Params : LengthOf(p) = {q} => LengthOf(p) # {}
    OBVIOUS
  <2>4. ~Carries(p, "out")
    BY <1>2, <1>8, CarriesFacts
  <2>5. \A q \in Params : HasOut(q) /\ Behind(q)' => Has(q)'
    BY <1>5, <1>6, <1>8, <2>1, <2>2, <2>3
  <2>6. Ret \in Slots => c'[Ret].ptr = None
    BY <1>2, <1>8 DEF TakenInv
  <2> QED BY <1>2, <1>3, <1>7, <1>8, <2>4, <2>5, <2>6 DEF TakenInv
<1>9. CASE HasOut(p) /\ Takes(p)
  <2>1. /\ Has(p)' /\ \A q \in Slots : LengthOf(p) = {q} => Has(q)'
        /\ read'.c = IF Carries(p, "out") THEN read.c + 1 ELSE read.c
    BY <1>1, <1>9, UnmarshalGets
  <2>2. ASSUME NEW q \in Params, HasOut(q), Behind(q)' PROVE Has(q)'
    <3>0. q \in Slots
      BY <1>2, SlotFacts
    <3>1. CASE q = p
      BY <2>1, <3>1 DEF Has
    <3>2. CASE LengthOf(p) = {q}
      BY <2>1, <3>0, <3>2
    <3>3. CASE q # p /\ LengthOf(p) # {q}
      <4>1. Has(q)
        BY <1>5, <1>6, <2>2, <3>3
      <4> QED BY <1>2, <1>9, <3>0, <3>3, <4>1, HasOthers
    <3> QED BY <3>1, <3>2, <3>3
  <2>3. Ret \in Slots => c'[Ret].ptr = None
    <3>1. Ret # p
      BY <1>2, SlotFacts
    <3>2. \A q \in Slots : q # p => c'[q].ptr = c[q].ptr
      BY <1>2, <1>9, TakeEffect
    <3> QED BY <1>2, <3>1, <3>2 DEF TakenInv
  <2> QED BY <1>2, <1>3, <1>7, <2>1, <2>2, <2>3 DEF TakenInv
<1> QED BY <1>2, <1>8, <1>9

(* The return value is taken last.                                         *)
LEMMA ReturnGets ==
  ASSUME TypeInv, Supported(op), SidesInv, CallerInv, LeftInv, ReplyInv, ArrivedInv, TakenInv, Return, ok,
         op.ret # "void"
  PROVE  /\ Has(Ret)' /\ misused' = misused /\ ~op.oneway
         /\ c'[Ret].ptr # <<"alloc", Ret>> => heap'[<<"alloc", Ret>>] = heap[<<"alloc", Ret>>]
<1>1. /\ client = "return" /\ op \in Operations /\ op' = op /\ left' = left /\ OrderInv /\ stage = "generated"
      /\ Ret \in Slots /\ Ret \notin Params /\ Takes(Ret)
  BY ReturnCases DEF orderVars, TypeInv
<1>2. Taking /\ ~op.oneway /\ ci = Len(ops) + 1 /\ HasOut(Ret)
  BY <1>1 DEF Taking, Supported, TypeInv, PhaseInv, HasOut
<1>3. ci \in 1 .. Len(Replies) /\ Ret = Replies[ci]
  BY <1>1, <1>2, RepliesFacts, RepliesOnce
<1>4. PICK p : p = Ret
  OBVIOUS
<1>5. /\ Has(p)' /\ misused' = misused
      /\ c'[p].ptr # <<"alloc", p>> => heap'[<<"alloc", p>>] = heap[<<"alloc", p>>]
  BY <1>1, <1>2, <1>3, <1>4, TakeGets
<1>6. Ret' = Ret
  BY <1>1, SameSlots
<1> QED BY <1>2, <1>4, <1>5, <1>6 DEF Has

LEMMA TakenReturn ==
  ASSUME TypeInv, Supported(op), SidesInv, CallerInv, LeftInv, ReplyInv, ArrivedInv, TakenInv, Return
  PROVE  TakenInv'
<1>1. /\ client = "return" /\ client' = "done" /\ op \in Operations /\ op' = op /\ ops' = ops /\ ok' = ok
      /\ ci' = ci /\ left' = left
      /\ \/ op.ret = "void" /\ UNCHANGED <<c, heap, misused, read>>
         \/ op.ret # "void" /\ Ret \in Slots /\ Ret \notin Params /\ Takes(Ret) /\ LengthOf(Ret) = {}
  BY ReturnCases DEF orderVars
<1>2. /\ Params' = Params /\ Ret' = Ret
      /\ \A q : HasOut(q)' = HasOut(q) /\ LengthOf(q)' = LengthOf(q)
  BY <1>1, SameSlots
<1>3. \A q : Behind(q)' <=> Behind(q)
  BY <1>1, <1>2 DEF Behind
<1>4. ASSUME NEW q \in Params, Taking', HasOut(q), Behind(q)' PROVE Has(q)'
  <2>1. Has(q) /\ q \in Slots
    BY <1>1, <1>3, <1>4, SlotFacts DEF TakenInv, Taking
  <2>2. CASE UNCHANGED <<c, heap, misused, read>>
    BY <1>1, <2>1, <2>2, HasStays
  <2>3. CASE Ret \in Slots /\ Ret \notin Params /\ Takes(Ret) /\ LengthOf(Ret) = {}
    <3>1. q # Ret
      BY <2>3
    <3>2. LengthOf(Ret) # {q}
      BY <2>3
    <3> QED BY <1>1, <2>1, <2>3, <3>1, <3>2, HasOthers
  <2> QED BY <1>1, <2>2, <2>3
<1>5. ok /\ op.ret # "void" => Has(Ret)'
  BY ReturnGets
<1> QED BY <1>1, <1>2, <1>4, <1>5 DEF TakenInv

LEMMA TakenStep ==
  ASSUME TypeInv, Supported(op), SidesInv, CallerInv, LeftInv, ReplyInv, ArrivedInv, TakenInv, [Next]_vars
  PROVE  TakenInv'
<1>0. op' = op /\ op \in Operations /\ DOMAIN heap = Objects /\ c \in [Slots -> Variable]
  BY SidesStep, HeapDomain DEF TypeInv, StubTypes
<1>1. \A q \in Slots : /\ <<"caller", q>> \in Objects /\ ClientSide(<<"caller", q>>) /\ <<"caller", q>> \notin Frames
                       /\ <<"alloc", q>> \in Objects /\ ClientSide(<<"alloc", q>>) /\ <<"alloc", q>> \notin Frames
  <2>1. ASSUME NEW q \in Slots
        PROVE /\ ClientSide(<<"caller", q>>) /\ <<"caller", q>> \notin Frames
              /\ ClientSide(<<"alloc", q>>) /\ <<"alloc", q>> \notin Frames
    BY DEF ClientSide, Frames
  <2> QED BY <2>1, ObjectFacts
<1>2. CASE OrderNext /\ UNCHANGED stubVars
  <2>1. client = "start" /\ UNCHANGED stubVars /\ ~Taking'
    BY <1>2, GeneratingEffect DEF stubVars, Taking
  <2>2. Slots' = Slots /\ Ret' = Ret
    BY <1>0, SameSlots
  <2> QED BY <2>1, <2>2 DEF TakenInv, stubVars
<1>3. CASE ServerAlone
  <2>1. /\ UNCHANGED <<orderVars, ci, c, ok>> /\ read'.c = read.c /\ server # "answered"
        /\ client' = client \/ (client = "waiting" /\ client' = "failed")
    BY <1>3, ServerAloneEffect
  <2>2. ~(Taking' /\ ~op.oneway)
    BY <2>1 DEF Taking, TypeInv, PhaseInv
  <2> QED BY <1>0, <2>1, <2>2, TakenStays DEF orderVars
<1>4. CASE Reply
  <2>1. /\ UNCHANGED <<orderVars, ci, c, read, ok, left>> /\ server = "marshal"
        /\ \/ client' = client
           \/ client = "waiting" /\ client' = "failed"
           \/ client = "waiting" /\ client' = "unmarshal"
    BY <1>4, ReplyEffect
  <2>2. ops' = ops
    BY <2>1 DEF orderVars
  <2>3. CASE client' # "unmarshal" \/ client = "unmarshal"
    <3>1. ~(Taking /\ ~op.oneway)
      BY <2>1 DEF Taking, TypeInv, PhaseInv
    <3>2. Taking' => Taking
      BY <2>1, <2>3 DEF Taking
    <3> QED BY <1>0, <2>1, <2>2, <2>3, <3>1, <3>2, TakenStays
  <2>4. CASE client = "waiting" /\ client' = "unmarshal"
    <3>1. ci = 1 /\ read.c = 0 /\ ci' = 1 /\ read'.c = 0 /\ stage = "generated" /\ OrderInv
      BY <2>1, <2>4 DEF TypeInv, PhaseInv
    <3>2. (Before(Replies, ci, "out"))' = 0
      <4>1. (Pieces(Replies, ci, "out"))' = {}
        BY <3>1 DEF Pieces
      <4> QED BY <4>1, FS_EmptySet DEF Before
    <3>3. \A q : ~Behind(q)'
      <4>1. DOMAIN ops = 1 .. Len(ops)
        BY <3>1, GeneratedFacts
      <4> QED BY <2>2, <3>1, <4>1 DEF Behind
    <3>4. Slots' = Slots /\ Ret' = Ret
      BY <1>0, SameSlots
    <3> QED BY <2>1, <2>4, <3>1, <3>2, <3>3, <3>4 DEF TakenInv
  <2> QED BY <2>1, <2>3, <2>4
<1>5. CASE Call
  <2>1. /\ client = "marshal" /\ client' \in {"waiting", "unmarshal"} /\ (client' = "unmarshal" => op.oneway)
        /\ ci' = 1 /\ read' = read /\ ok' = ok /\ ~ok /\ c' = c /\ ops' = ops /\ read.c = 0
    BY <1>5 DEF Call, TypeInv, PhaseInv, orderVars
  <2>2. ~(Taking' /\ ~op.oneway)
    BY <2>1 DEF Taking
  <2>3. (Before(Replies, ci, "out"))' = 0
    <3>1. (Pieces(Replies, ci, "out"))' = {}
      BY <2>1 DEF Pieces
    <3> QED BY <3>1, FS_EmptySet DEF Before
  <2>4. Slots' = Slots /\ Ret' = Ret /\ Params' = Params /\ \A q : HasOut(q)' = HasOut(q)
    BY <1>0, SameSlots
  <2>5. op.oneway => \A q \in Params : ~HasOut(q)
    BY <1>0, SupportedKinds
  <2> QED BY <2>1, <2>2, <2>3, <2>4, <2>5 DEF TakenInv
<1>6. CASE Start \/ CallFails \/ SkipUnmarshal
  <2>1. /\ c' = c /\ ops' = ops /\ client # "done" /\ client' # "done" /\ ~Taking' /\ ~ok'
    BY <1>6 DEF Start, CallFails, SkipUnmarshal, Taking, TypeInv, PhaseInv, orderVars
  <2> QED BY <1>0, <2>1, TakenStays DEF Taking
<1>7. CASE ClientMarshal
  <2>1. /\ ops' = ops /\ client # "done" /\ client' = "marshal" /\ ~Taking'
    BY <1>7 DEF ClientMarshal, Taking, TypeInv, PhaseInv, orderVars
  <2> DEFINE p == ops[ci]
             l == StrLen(c, p)
  <2>2. c' = c \/ c' = [c EXCEPT ![p].len = l]
    BY <1>7 DEF ClientMarshal, SendWord, SendThread, SendMap, SendString, SendArray, SendSequence
  <2> HIDE DEF p, l
  <2>3. \A q \in Slots : c[q] \in Variable
    BY <1>0
  <2>4. Ret \in Slots => c'[Ret].ptr = c[Ret].ptr
    BY <1>0, <2>2, <2>3 DEF Variable
  <2> QED BY <1>0, <2>1, <2>4, TakenStays
<1>8. CASE Finish
  <2>1. /\ c' = c /\ ops' = ops /\ client = "unmarshal" /\ client' = "return" /\ left' = left /\ ci' = ci
        /\ read' = read
        /\ heap' = [o \in Objects |-> IF o \in Frames THEN [heap[o] EXCEPT !.live = FALSE] ELSE heap[o]]
    BY <1>0, <1>8 DEF Finish, orderVars
  <2>2. \A q \in Slots : /\ heap'[<<"caller", q>>] = heap[<<"caller", q>>]
                         /\ heap'[<<"alloc", q>>] = heap[<<"alloc", q>>]
    BY <1>1, <2>1
  <2> QED BY <1>0, <2>1, <2>2, TakenStays DEF Taking
<1>9. CASE UNCHANGED vars
  <2>1. UNCHANGED <<c, ops, client, left, ci, read, heap, ok>>
    BY <1>9 DEF vars, orderVars, stubVars
  <2> QED BY <1>0, <2>1, TakenStays DEF Taking
<1> QED BY <1>2, <1>3, <1>4, <1>5, <1>6, <1>7, <1>8, <1>9, TakenUnmarshal, TakenReturn
    DEF Next, OrderNext, ClientNext, ServerNext, ServerAlone

-----------------------------------------------------------------------------
(* The invariant of a call of an operation that the generated code supports. *)

CallInv ==
  /\ TypeInv /\ Supported(op) /\ SidesInv /\ GivenInv /\ CallerInv /\ RequestInv /\ ServerInv
  /\ LeftInv /\ ReplyInv /\ ArrivedInv /\ TakenInv

LEMMA CallInit ==
  ASSUME StubInit, Supported(op)
  PROVE  CallInv
<1>0. TypeInv /\ op \in Operations /\ OrderInv
  BY InitTypes DEF TypeInv, OrderInv, OrderTypes
<1>1. PICK n \in Lengths :
       /\ c = [p \in Slots |-> CallerVariable(p, n[p])]
       /\ heap = [o \in Roles \X Slots |->
            LET p == o[2] IN
            IF o[1] = "caller" /\ Brings(p)
            THEN Holding(IF HasIn(p) THEN Whole(p, "in", n[p]) ELSE Junk)
            ELSE [live |-> o[1] = "pool", val |-> Junk]]
       /\ given = [p \in Slots |-> IF HasIn(p) THEN Whole(p, "in", n[p])
                                   ELSE IF p \in Params /\ Claimed(p) THEN CallerLength(p, n[p]) ELSE Junk]
  BY DEF StubInit
<1>2. /\ client = "start" /\ server = "idle" /\ ~ok /\ ~Taking
      /\ s = [p \in Slots |-> [ptr |-> None, len |-> 0, val |-> Junk]] /\ req = EmptyMessage
  BY DEF StubInit, Taking
<1>3. ASSUME NEW p \in Slots
      PROVE /\ c[p].ptr = IF Brings(p) THEN <<"caller", p>> ELSE None
            /\ c[p].len = IF Kind(p) = "sequence" /\ HasIn(p) THEN n[p] ELSE 0
            /\ c[p].val = IF p \in Params /\ Claimed(p) THEN CallerLength(p, n[p])
                          ELSE IF HasIn(p) /\ ~VarSized(p) THEN Whole(p, "in", n[p]) ELSE Junk
            /\ given[p] = IF HasIn(p) THEN Whole(p, "in", n[p])
                          ELSE IF p \in Params /\ Claimed(p) THEN CallerLength(p, n[p]) ELSE Junk
            /\ Brings(p) => heap[<<"caller", p>>] = Holding(IF HasIn(p) THEN Whole(p, "in", n[p]) ELSE Junk)
  <2>1. c[p] = CallerVariable(p, n[p])
    BY <1>1
  <2>2. /\ c[p].ptr = IF Brings(p) THEN <<"caller", p>> ELSE None
        /\ c[p].len = IF Kind(p) = "sequence" /\ HasIn(p) THEN n[p] ELSE 0
        /\ c[p].val = IF p \in Params /\ Claimed(p) THEN CallerLength(p, n[p])
                      ELSE IF HasIn(p) /\ ~VarSized(p) THEN Whole(p, "in", n[p]) ELSE Junk
    BY <2>1 DEF CallerVariable
  <2>3. <<"caller", p>> \in Roles \X Slots /\ <<"caller", p>>[1] = "caller" /\ <<"caller", p>>[2] = p
    BY DEF Roles
  <2>4. Brings(p) => heap[<<"caller", p>>] = Holding(IF HasIn(p) THEN Whole(p, "in", n[p]) ELSE Junk)
    BY <1>1, <2>3
  <2>5. given[p] = IF HasIn(p) THEN Whole(p, "in", n[p])
                   ELSE IF p \in Params /\ Claimed(p) THEN CallerLength(p, n[p]) ELSE Junk
    BY <1>1
  <2> QED BY <2>2, <2>4, <2>5
<1>4. SidesInv
  BY <1>2, <1>3 DEF SidesInv
<1>5. ASSUME NEW p \in Slots
      PROVE /\ n[p] \in 1 .. MaxLength /\ (VarSized(p) => ~Claimed(p)) /\ (Claimed(p) => p \in Params)
            /\ Whole(p, "in", n[p]) \in Value /\ ~Whole(p, "in", n[p]).wire
            /\ Claimed(p) => Whole(p, "in", n[p]) = Length(n[p])
            /\ VarSized(p) /\ ~(Kind(p) = "array" /\ LengthOf(p) = {}) => Whole(p, "in", n[p]).n = n[p]
            /\ Kind(p) = "array" /\ LengthOf(p) = {} => Whole(p, "in", n[p]).n = MaxLength
  <2>1. n[p] \in 1 .. MaxLength /\ "in" \in Tags
    BY <1>0, LengthsType DEF Tags
  <2>2. (VarSized(p) => ~Claimed(p)) /\ (Claimed(p) => p \in Params)
    BY <1>0, ClaimedFacts
  <2>3. Kind(p) = "array" => VarSized(p)
    BY DEF VarSized
  <2> QED BY <1>0, <2>1, <2>2, <2>3, WholeType
<1>6. GivenInv
  <2>1. ASSUME NEW p \in InSlots
        PROVE /\ given[p] \in Value /\ ~given[p].wire
              /\ Claimed(p) => ArrayOf(p) \in InSlots /\ given[p] = Length(given[ArrayOf(p)].n)
              /\ Kind(p) = "array" /\ LengthOf(p) = {} => given[p].n = MaxLength
    <3>1. p \in Slots /\ HasIn(p)
      BY DEF InSlots
    <3>2. given[p] = Whole(p, "in", n[p])
      BY <1>3, <3>1
    <3>3. ASSUME Claimed(p) PROVE ArrayOf(p) \in InSlots /\ given[p] = Length(given[ArrayOf(p)].n)
      <4> DEFINE a == ArrayOf(p)
      <4>1. a \in Slots /\ HasIn(a) /\ Kind(a) = "array" /\ LengthOf(a) = {p}
        BY <1>0, <3>1, <3>3, ClaimedFacts
      <4>2. given[a] = Whole(a, "in", n[a])
        BY <1>3, <4>1
      <4>3. given[a].n = n[a]
        BY <1>5, <4>1, <4>2 DEF VarSized
      <4>4. n[p] = n[a]
        BY <3>1, <3>3 DEF Lengths
      <4>5. given[p] = Length(n[p])
        BY <1>5, <3>1, <3>2, <3>3
      <4> QED BY <4>1, <4>3, <4>4, <4>5 DEF InSlots
    <3> QED BY <1>5, <3>1, <3>2, <3>3
  <2>2. \A p \in Slots : ~HasIn(p) /\ ~Claimed(p) => given[p] = Junk
    BY <1>3
  <2> QED BY <2>1, <2>2 DEF GivenInv, WellFormed
<1>7. CallerInv
  <2>1. ASSUME NEW p \in Params
        PROVE CallerKept(p) /\ (Brings(p) => heap[<<"caller", p>>] = Holding(given[p]))
    <3>1. p \in Slots
      BY <1>0, SlotFacts
    <3>2. ~VarSized(p) => c[p].val = given[p]
      BY <1>3, <3>1 DEF CallerLength
    <3>3. Kind(p) = "sequence" /\ HasIn(p) => c[p].len = given[p].n
      BY <1>3, <1>5, <3>1 DEF VarSized
    <3>4. Brings(p) => heap[<<"caller", p>>] = Holding(given[p])
      BY <1>3, <1>5, <3>1 DEF Brings
    <3>5. Brings(p) => heap[<<"caller", p>>].live
      BY <3>4 DEF Holding
    <3> QED BY <1>3, <3>1, <3>2, <3>3, <3>4, <3>5 DEF CallerKept
  <2> QED BY <2>1 DEF CallerInv
<1>8. TakenInv
  <2>1. Ret \in Slots => c[Ret].ptr = None
    <3>1. ~Brings(Ret)
      BY DEF Brings, HasIn, UseMalloc
    <3> QED BY <1>3, <3>1
  <2> QED BY <1>2, <2>1 DEF TakenInv
<1>9. RequestInv /\ ServerInv /\ LeftInv /\ ReplyInv /\ ArrivedInv
  BY <1>2 DEF RequestInv, ServerInv, LeftInv, ReplyInv, ArrivedInv
<1> QED BY <1>0, <1>4, <1>6, <1>7, <1>8, <1>9 DEF CallInv

LEMMA CallStep ==
  ASSUME CallInv, [Next]_vars
  PROVE  CallInv'
<1>1. /\ TypeInv /\ Supported(op) /\ SidesInv /\ GivenInv /\ CallerInv /\ RequestInv /\ ServerInv
      /\ LeftInv /\ ReplyInv /\ ArrivedInv /\ TakenInv
  BY DEF CallInv
<1>2. TypeInv'
  BY <1>1, TypeInvStep
<1>3. SidesInv' /\ op' = op /\ given' = given
  BY <1>1, SidesStep
<1>4. Supported(op)'
  BY <1>1, <1>3 DEF Supported
<1>5. GivenInv' /\ CallerInv'
  BY <1>1, <1>3, GivenStep, CallerStep
<1>6. RequestInv'
  BY <1>1, RequestStep
<1>7. ServerInv'
  BY <1>1, ServerStep
<1>8. LeftInv'
  BY <1>1, LeftStep
<1>9. ReplyInv'
  BY <1>1, ReplyStep
<1>10. ArrivedInv'
  BY <1>1, ArrivedStep
<1>11. TakenInv'
  BY <1>1, TakenStep
<1> QED BY <1>2, <1>3, <1>4, <1>5, <1>6, <1>7, <1>8, <1>9, <1>10, <1>11 DEF CallInv

(* The invariant holds of every call of a supported operation.             *)
THEOREM CallsKeepInvariant == Spec /\ Supported(op) => []CallInv
<1>1. StubInit /\ Supported(op) => CallInv
  BY CallInit
<1>2. CallInv /\ [Next]_vars => CallInv'
  BY CallStep
<1> QED BY <1>1, <1>2, PTL DEF Spec

-----------------------------------------------------------------------------
(* What the caller sees after the call.                                    *)

SeenInv ==
  client = "done" =>
    \A p \in Slots :
      Kind(p) # "alloc" =>
        /\ ok /\ HasOut(p) => Seen(p) = left[p]
        /\ p \in Params /\ ~(ok /\ HasOut(p)) => Seen(p) = given[p]

(* Every output was taken.                                                 *)
LEMMA AllTaken ==
  ASSUME CallInv, ok, client = "done", NEW p \in Slots, HasOut(p)
  PROVE  Has(p) /\ server = "answered"
<1>1. /\ TypeInv /\ Supported(op) /\ TakenInv /\ op \in Operations /\ OrderInv /\ stage = "generated"
      /\ ci = Len(ops) + 1 /\ Taking
  BY DEF CallInv, TypeInv, OrderInv, OrderTypes, PhaseInv, Taking
<1>2. server = "answered"
  <2>1. ~op.oneway
    BY <1>1, CarriesFacts
  <2> QED BY <1>1, <2>1 DEF TypeInv, PhaseInv, Taking
<1>3. CASE p = Ret
  <2>1. op.ret # "void"
    BY <1>1, <1>3, SlotFacts
  <2> QED BY <1>1, <1>2, <1>3, <2>1 DEF TakenInv
<1>4. CASE p # Ret
  <2>1. p \in Params
    BY <1>1, <1>4, SlotFacts
  <2>2. /\ \A i \in 1 .. Len(ops) : i < ci
        /\ DOMAIN ops = 1 .. Len(ops)
        /\ \A q \in Params : Claimed(q) \/ \E i \in 1 .. Len(ops) : ops[i] = q
    BY <1>1, GeneratedFacts
  <2>3. Behind(p)
    <3>1. CASE Claimed(p)
      <4>1. ArrayOf(p) \in Params /\ LengthOf(ArrayOf(p)) = {p} /\ ~Claimed(ArrayOf(p))
        BY <1>1, <3>1, ClaimedFacts
      <4>2. PICK i \in 1 .. Len(ops) : ops[i] = ArrayOf(p)
        BY <2>2, <4>1
      <4> QED BY <2>2, <4>1, <4>2 DEF Behind
    <3>2. CASE ~Claimed(p)
      <4>1. PICK i \in 1 .. Len(ops) : ops[i] = p
        BY <2>1, <2>2, <3>2
      <4> QED BY <2>2, <4>1 DEF Behind
    <3> QED BY <3>1, <3>2
  <2> QED BY <1>1, <1>2, <2>1, <2>3 DEF TakenInv
<1> QED BY <1>3, <1>4

LEMMA SeenAfter == CallInv => SeenInv
<1> SUFFICES ASSUME CallInv, client = "done", NEW p \in Slots, Kind(p) # "alloc"
             PROVE  /\ ok /\ HasOut(p) => Seen(p) = left[p]
                    /\ p \in Params /\ ~(ok /\ HasOut(p)) => Seen(p) = given[p]
  BY DEF SeenInv
<1>1. /\ TypeInv /\ Supported(op) /\ GivenInv /\ CallerInv /\ LeftInv /\ op \in Operations /\ OrderInv
      /\ stage = "generated" /\ heap \in Heaps
  BY DEF CallInv, TypeInv, OrderInv, OrderTypes, StubTypes, PhaseInv
<1>2. ASSUME p \in Params, ~(ok /\ HasOut(p)) PROVE Seen(p) = given[p]
  BY <1>1, <1>2, CallerSees DEF Taking
<1>3. ASSUME ok, HasOut(p) PROVE Seen(p) = left[p]
  <2>1. Has(p) /\ server = "answered"
    BY <1>3, AllTaken
  <2>2. p \in OutSlots
    BY <1>3 DEF OutSlots
  <2>3. left[p] \in Value /\ WellFormed(left, OutSlots)
    BY <1>1, <2>1, <2>2 DEF LeftInv, WellFormed
  <2>4. Cut(left[p], left[p].n) = left[p] /\ left[p].n \in 0 .. MaxLength
    BY <1>1, <2>3, CutWhole
  <2>5. CASE ~VarSized(p)
    BY <2>1, <2>5 DEF Has, Seen
  <2>6. CASE VarSized(p)
    <3>1. Content(c[p].ptr) = left[p]
      <4>1. c[p].ptr \in Objects /\ heap[c[p].ptr] = Holding(left[p])
        BY <2>1, <2>6, ObjectFacts DEF Has
      <4> QED BY <1>1, <4>1, ContentType
    <3>2. Kind(p) # "string" => Elements(c, p) = left[p].n
      <4>1. CASE Kind(p) = "sequence"
        BY <2>1, <4>1 DEF Has, Elements
      <4>2. CASE Kind(p) = "array" /\ LengthOf(p) = {}
        BY <2>2, <2>3, <4>2 DEF WellFormed, Elements
      <4>3. CASE Kind(p) = "array" /\ LengthOf(p) # {}
        <5> DEFINE q == TheLength(p)
        <5>1. q \in Slots /\ Claimed(q) /\ ArrayOf(q) = p
          BY <1>1, <4>3, ClaimedFacts, ArrayOfLength
        <5>2. HasOut(q) /\ ~VarSized(q)
          BY <1>1, <1>3, <5>1, ClaimedFacts
        <5>3. c[q].val = left[q]
          BY <1>3, <5>1, <5>2, AllTaken DEF Has
        <5>4. left[q] = Length(left[p].n)
          BY <2>3, <5>1, <5>2 DEF WellFormed, OutSlots
        <5>5. c[q].val.n = left[p].n
          BY <1>1, <2>4, <5>3, <5>4, ValueFacts
        <5> QED BY <4>3, <5>5 DEF Elements
      <4> QED BY <2>6, <4>1, <4>2, <4>3 DEF VarSized
    <3> QED BY <2>4, <2>6, <3>1, <3>2 DEF Seen
  <2> QED BY <2>5, <2>6
<1> QED BY <1>2, <1>3

LEMMA SeenStays ==
  ASSUME TypeInv, SidesInv, op' = op, c' = c, heap' \in Heaps', NEW p \in Slots,
         \A o \in Objects : ClientSide(o) => heap'[o] = heap[o]
  PROVE  Seen(p)' = Seen(p)
<1>1. /\ DOMAIN heap = Objects /\ DOMAIN heap' = Objects /\ Slots' = Slots /\ Junk' = Junk
      /\ \A q : Kind(q)' = Kind(q) /\ VarSized(q)' = VarSized(q) /\ LengthOf(q)' = LengthOf(q)
                /\ TheLength(q)' = TheLength(q)
  <2>1. Heaps' = Heaps
    BY SameSlots
  <2> QED BY <2>1, HeapDomain, SameSlots DEF Heaps, Junk, Val
<1>2. Content(c[p].ptr)' = Content(c[p].ptr)
  <2>1. CASE c[p].ptr = None
    <3>1. None \notin Objects
      BY ObjectFacts
    <3> QED BY <1>1, <2>1, <3>1 DEF Content, Live
  <2>2. CASE c[p].ptr # None
    <3>1. c[p].ptr \in {<<"caller", p>>, <<"alloc", p>>}
      BY <2>2 DEF SidesInv
    <3>2. c[p].ptr \in Objects /\ ClientSide(c[p].ptr)
      <4>1. <<"caller", p>> \in Objects /\ <<"alloc", p>> \in Objects
        BY ObjectFacts
      <4>2. ClientSide(<<"caller", p>>) /\ ClientSide(<<"alloc", p>>)
        BY DEF ClientSide
      <4> QED BY <3>1, <4>1, <4>2
    <3>3. heap'[c[p].ptr] = heap[c[p].ptr]
      BY <3>2
    <3> QED BY <1>1, <3>3 DEF Content, Live
  <2> QED BY <2>1, <2>2
<1>3. Elements(c, p)' = Elements(c, p)
  BY <1>1 DEF Elements
<1> QED BY <1>1, <1>2, <1>3 DEF Seen, Cut, Junk, Val

-----------------------------------------------------------------------------
(* The refinement: what RemoteCall sees of the stubs.                      *)

CallerView == CASE client = "done" /\ ok  -> "returned"
                [] client = "done" /\ ~ok -> "failed"
                [] OTHER -> "calling"
ServerView == CASE server \in {"idle", "unmarshal"}   -> "idle"
                [] server \in {"running", "later"}    -> "executing"
                [] server \in {"marshal", "answered"} -> "answered"
                [] server = "refused" -> "refused"
Valued == {q \in Slots : Kind(q) # "alloc"}
ArgView == [p \in Valued |-> IF client = "done" THEN Seen(p) ELSE given[p]]
ParamsView == {p \in Params : Kind(p) # "alloc"}

LEMMA CallerViews ==
  /\ client # "done" => CallerView = "calling"
  /\ client = "done" /\ ok => CallerView = "returned"
  /\ client = "done" /\ ~ok => CallerView = "failed"
  BY DEF CallerView

LEMMA NextCallerViews ==
  /\ client' # "done" => CallerView' = "calling"
  /\ client' = "done" /\ ok' => CallerView' = "returned"
  /\ client' = "done" /\ ~ok' => CallerView' = "failed"
  BY DEF CallerView

LEMMA ServerViews ==
  /\ server \in {"idle", "unmarshal"} => ServerView = "idle"
  /\ server \in {"running", "later"} => ServerView = "executing"
  /\ server \in {"marshal", "answered"} => ServerView = "answered"
  /\ server = "refused" => ServerView = "refused"
<1>1. server \in {"idle", "unmarshal"} => ServerView = "idle"
  BY DEF ServerView
<1>2. server \in {"running", "later"} => ServerView = "executing"
  BY DEF ServerView
<1>3. server \in {"marshal", "answered"} => ServerView = "answered"
  BY DEF ServerView
<1>4. server = "refused" => ServerView = "refused"
  BY DEF ServerView
<1> QED BY <1>1, <1>2, <1>3, <1>4

LEMMA NextServerViews ==
  /\ server' \in {"idle", "unmarshal"} => ServerView' = "idle"
  /\ server' \in {"running", "later"} => ServerView' = "executing"
  /\ server' \in {"marshal", "answered"} => ServerView' = "answered"
  /\ server' = "refused" => ServerView' = "refused"
<1>1. server' \in {"idle", "unmarshal"} => ServerView' = "idle"
  BY DEF ServerView
<1>2. server' \in {"running", "later"} => ServerView' = "executing"
  BY DEF ServerView
<1>3. server' \in {"marshal", "answered"} => ServerView' = "answered"
  BY DEF ServerView
<1>4. server' = "refused" => ServerView' = "refused"
  BY DEF ServerView
<1> QED BY <1>1, <1>2, <1>3, <1>4

LEMMA SameViews ==
  ASSUME op' = op
  PROVE  /\ Valued' = Valued /\ ParamsView' = ParamsView /\ InSlots' = InSlots /\ OutSlots' = OutSlots
         /\ op.oneway' = op.oneway
  BY SameSlots DEF Valued, ParamsView

(* The caller's values stay while the call is not over and, once it is,    *)
(* while his memory stays.                                                 *)
LEMMA ArgsStay ==
  ASSUME op' = op, given' = given,
         \/ client # "done" /\ client' # "done"
         \/ client' = client /\ \A p \in Valued : Seen(p)' = Seen(p)
  PROVE  ArgView' = ArgView
<1>1. Valued' = Valued
  BY SameViews
<1>2. ASSUME NEW p \in Valued
      PROVE (IF client = "done" THEN Seen(p) ELSE given[p])' = IF client = "done" THEN Seen(p) ELSE given[p]
  BY <1>2
<1>3. ArgView' = [p \in Valued |-> IF client' = "done" THEN Seen(p)' ELSE given'[p]]
  BY <1>1 DEF ArgView
<1>4. ArgView = [p \in Valued |-> IF client = "done" THEN Seen(p) ELSE given[p]]
  BY DEF ArgView
<1> QED BY <1>2, <1>3, <1>4

LEMMA ArgsStayServer ==
  ASSUME TypeInv, SidesInv, ServerAlone \/ Reply
  PROVE  ArgView' = ArgView /\ CallerView' = CallerView
<1>1. CASE ServerAlone
  <2>1. /\ op' = op /\ c' = c /\ ok' = ok /\ given' = given
        /\ client' = client \/ (client = "waiting" /\ client' = "failed")
        /\ \A o \in Objects : ClientSide(o) => heap'[o] = heap[o]
    BY <1>1, ServerAloneEffect DEF orderVars
  <2>2. heap' \in Heaps'
    BY <1>1, TypeInvStep DEF Next, ServerNext, ServerAlone, TypeInv, StubTypes
  <2>3. \A p \in Valued : Seen(p)' = Seen(p)
    BY <2>1, <2>2, SeenStays DEF Valued
  <2>4. CallerView' = CallerView
    BY <2>1, CallerViews, NextCallerViews
  <2> QED BY <2>1, <2>3, <2>4, ArgsStay
<1>2. CASE Reply
  <2>1. /\ op' = op /\ c' = c /\ ok' = ok /\ given' = given
        /\ \/ client' = client /\ heap' = heap
           \/ client = "waiting" /\ client' \in {"failed", "unmarshal"}
    BY <1>2, ReplyEffect DEF orderVars
  <2>2. CASE client' = client /\ heap' = heap
    <3>1. heap' \in Heaps'
      BY <2>1, <2>2, SameSlots DEF TypeInv, StubTypes
    <3>2. \A p \in Valued : Seen(p)' = Seen(p)
      BY <2>1, <2>2, <3>1, SeenStays DEF Valued
    <3>3. CallerView' = CallerView
      BY <2>1, <2>2, CallerViews, NextCallerViews
    <3> QED BY <2>1, <2>2, <3>2, <3>3, ArgsStay
  <2>3. CASE client = "waiting" /\ client' \in {"failed", "unmarshal"}
    <3>1. client # "done" /\ client' # "done"
      BY <2>3
    <3> QED BY <2>1, <3>1, ArgsStay, CallerViews, NextCallerViews
  <2> QED BY <2>1, <2>2, <2>3
<1> QED BY <1>1, <1>2

(* The call of the function, its answer and the return are RemoteCall's.   *)
LEMMA InvokeView ==
  ASSUME CallInv, Invoke
  PROVE  taken' = [p \in InSlots |-> ArgView[p]]
<1>1. /\ TypeInv /\ Supported(op) /\ GivenInv /\ ServerInv /\ op \in Operations
      /\ server = "unmarshal" /\ si > Len(ops) /\ SeenInv
  BY SeenAfter DEF CallInv, TypeInv, OrderInv, OrderTypes, Invoke
<1>2. \A p \in InSlots : Received(p) = given[p]
  BY <1>1, InvokeTakes
<1>3. ASSUME NEW p \in InSlots
      PROVE ArgView[p] = given[p]
  <2>1. p \in Params /\ p \in Slots /\ Kind(p) # "alloc"
    BY <1>1, KindFacts DEF InSlots
  <2>2. ArgView[p] = IF client = "done" THEN Seen(p) ELSE given[p]
    BY <2>1 DEF ArgView, Valued
  <2>3. ASSUME client = "done" PROVE Seen(p) = given[p]
    <3>1. ok => op.oneway
      BY <1>1 DEF TypeInv, PhaseInv
    <3>2. op.oneway => ~HasOut(p)
      BY <1>1, <2>1, SupportedKinds
    <3> QED BY <1>1, <2>1, <2>3, <3>1, <3>2 DEF SeenInv
  <2> QED BY <2>2, <2>3
<1>4. taken' = [p \in InSlots |-> Received(p)]
  BY DEF Invoke
<1> QED BY <1>2, <1>3, <1>4

LEMMA ReturnView ==
  ASSUME CallInv, Return
  PROVE  /\ client = "return" /\ client' = "done" /\ op' = op /\ ok' = ok
         /\ UNCHANGED <<taken, left>> /\ ServerView' = ServerView
         /\ ok /\ ~op.oneway => ServerView = "answered"
         /\ ok => ArgView' = [p \in Valued |-> IF p \in OutSlots THEN left[p] ELSE ArgView[p]]
         /\ ~ok => DOMAIN ArgView' = Valued /\ \A p \in ParamsView : ArgView'[p] = ArgView[p]
<1>1. /\ client = "return" /\ client' = "done" /\ op' = op /\ ok' = ok /\ server' = server
      /\ UNCHANGED <<taken, left>> /\ given' = given
  BY DEF Return, orderVars
<1>2. CallInv'
  BY CallStep DEF Next, ClientNext
<1>3. SeenInv' /\ op \in Operations /\ TypeInv
  <2>1. SeenInv'
    BY <1>2, SeenAfter, PTL
  <2> QED BY <2>1 DEF CallInv, TypeInv, OrderInv, OrderTypes
<1>4. /\ Valued' = Valued /\ Slots' = Slots /\ Params' = Params
      /\ \A p : HasOut(p)' = HasOut(p) /\ Kind(p)' = Kind(p)
  BY <1>1, SameViews, SameSlots
<1>5. ArgView' = [p \in Valued |-> Seen(p)']
  <2>1. ArgView' = [p \in Valued |-> IF client' = "done" THEN Seen(p)' ELSE given'[p]]
    BY <1>4 DEF ArgView
  <2> QED BY <1>1, <2>1
<1>6. ArgView = [p \in Valued |-> given[p]]
  BY <1>1 DEF ArgView
<1>7. ASSUME NEW p \in Valued
      PROVE /\ ok /\ HasOut(p) => Seen(p)' = left[p]
            /\ p \in Params /\ ~(ok /\ HasOut(p)) => Seen(p)' = given[p]
  BY <1>1, <1>3, <1>4, <1>7 DEF SeenInv, Valued
<1>8. ASSUME NEW p \in Valued, p \notin OutSlots PROVE p \in Params /\ ~HasOut(p)
  BY <1>3, <1>8, KindFacts, SlotFacts DEF Valued, OutSlots
<1>9. ASSUME NEW p \in OutSlots PROVE HasOut(p)
  BY <1>9 DEF OutSlots
<1>10. ASSUME ok PROVE ArgView' = [p \in Valued |-> IF p \in OutSlots THEN left[p] ELSE ArgView[p]]
  <2>1. ASSUME NEW p \in Valued
        PROVE Seen(p)' = IF p \in OutSlots THEN left[p] ELSE ArgView[p]
    BY <1>6, <1>7, <1>8, <1>9, <1>10
  <2> QED BY <1>5, <2>1
<1>11. ASSUME ~ok PROVE DOMAIN ArgView' = Valued /\ \A p \in ParamsView : ArgView'[p] = ArgView[p]
  <2>1. \A p \in ParamsView : p \in Valued /\ p \in Params
    BY <1>3, SlotFacts DEF ParamsView, Valued
  <2>2. \A p \in Valued : p \in Params => Seen(p)' = given[p]
    BY <1>7, <1>11
  <2> QED BY <1>5, <1>6, <2>1, <2>2
<1>12. ok /\ ~op.oneway => ServerView = "answered"
  BY <1>3, ServerViews DEF TypeInv, PhaseInv
<1>13. ServerView' = ServerView
  BY <1>1 DEF ServerView
<1> QED BY <1>1, <1>10, <1>11, <1>12, <1>13

(* Every step is one of RemoteCall, or changes nothing that it knows of.   *)
LEMMA StepViews ==
  ASSUME CallInv, [Next]_vars
  PROVE  /\ op' = op
         /\ \/ /\ ServerView = "idle" /\ ServerView' = "executing"
               /\ taken' = [p \in InSlots |-> ArgView[p]]
               /\ UNCHANGED <<left, ArgView, CallerView>>
            \/ /\ ServerView = "executing"
               /\ \/ ServerView' = "answered" /\ DOMAIN left' = OutSlots
                  \/ ServerView' = "refused" /\ left' = left
               /\ UNCHANGED <<taken, ArgView, CallerView>>
            \/ /\ CallerView = "calling" /\ CallerView' = "returned"
               /\ ~op.oneway => ServerView = "answered"
               /\ ArgView' = [p \in Valued |-> IF p \in OutSlots THEN left[p] ELSE ArgView[p]]
               /\ UNCHANGED <<taken, left, ServerView>>
            \/ /\ CallerView = "calling" /\ CallerView' = "failed"
               /\ DOMAIN ArgView' = Valued
               /\ \A p \in ParamsView : ArgView'[p] = ArgView[p]
               /\ UNCHANGED <<taken, left, ServerView>>
            \/ UNCHANGED <<taken, left, ServerView, ArgView, CallerView>>
<1>1. /\ TypeInv /\ SidesInv /\ Supported(op) /\ ServerInv /\ op' = op /\ given' = given
  BY SidesStep DEF CallInv
<1>2. CASE OrderNext /\ UNCHANGED stubVars
  <2>1. client = "start" /\ UNCHANGED stubVars
    BY <1>1, <1>2, GeneratingEffect
  <2>2. client' = client /\ server' = server /\ UNCHANGED <<taken, left>> /\ client # "done"
    BY <2>1 DEF stubVars
  <2>3. ArgView' = ArgView
    BY <1>1, <2>2, ArgsStay
  <2>4. CallerView' = CallerView /\ ServerView' = ServerView
    BY <2>2, CallerViews, NextCallerViews DEF ServerView
  <2> QED BY <1>1, <2>2, <2>3, <2>4
<1>3. CASE ClientNext /\ ~Return
  <2>1. client # "done" /\ client' # "done" /\ UNCHANGED <<taken, left>>
    BY <1>3 DEF ClientNext, Start, ClientMarshal, Call, CallFails, ClientUnmarshal, Finish, SkipUnmarshal
  <2>2. server' = server \/ (server = "idle" /\ server' = "unmarshal")
    BY <1>1, <1>3, ClientEffect
  <2>3. ArgView' = ArgView /\ CallerView' = CallerView
    BY <1>1, <2>1, ArgsStay, CallerViews, NextCallerViews
  <2>4. ServerView' = ServerView
    <3>1. CASE server' = server
      BY <3>1 DEF ServerView
    <3>2. CASE server = "idle" /\ server' = "unmarshal"
      BY <3>2, ServerViews, NextServerViews
    <3> QED BY <2>2, <3>1, <3>2
  <2> QED BY <1>1, <2>1, <2>3, <2>4
<1>4. CASE Return
  <2>1. /\ client = "return" /\ client' = "done" /\ op' = op /\ ok' = ok
        /\ UNCHANGED <<taken, left>> /\ ServerView' = ServerView
        /\ ok /\ ~op.oneway => ServerView = "answered"
        /\ ok => ArgView' = [p \in Valued |-> IF p \in OutSlots THEN left[p] ELSE ArgView[p]]
        /\ ~ok => DOMAIN ArgView' = Valued /\ \A p \in ParamsView : ArgView'[p] = ArgView[p]
    BY <1>4, ReturnView
  <2>2. CallerView = "calling"
    BY <2>1, CallerViews
  <2>3. CASE ok
    <3>1. CallerView' = "returned"
      BY <2>1, <2>3, NextCallerViews
    <3> QED BY <1>1, <2>1, <2>2, <2>3, <3>1
  <2>4. CASE ~ok
    <3>1. CallerView' = "failed"
      BY <2>1, <2>4, NextCallerViews
    <3> QED BY <1>1, <2>1, <2>2, <2>4, <3>1
  <2> QED BY <2>3, <2>4
<1>5. CASE ServerAlone
  <2>1. ArgView' = ArgView /\ CallerView' = CallerView
    BY <1>1, <1>5, ArgsStayServer
  <2>2. CASE Invoke
    <3>1. left' = left /\ ServerView = "idle" /\ ServerView' = "executing"
      BY <2>2, ServerViews, NextServerViews DEF Invoke
    <3>2. taken' = [p \in InSlots |-> ArgView[p]]
      BY <2>2, InvokeView
    <3> QED BY <1>1, <2>1, <3>1, <3>2
  <2>3. CASE Answer \/ AnswerLater
    <3>1. /\ taken' = taken /\ server \in {"running", "later"} /\ server' \in {"marshal", "answered"}
      BY <2>3 DEF Answer, AnswerLater
    <3>2. DOMAIN left' = OutSlots
      <4>1. LeftInv' /\ OutSlots' = OutSlots
        BY <1>1, <2>3, LeftAnswer, SameSlots
      <4> QED BY <3>1, <4>1 DEF LeftInv
    <3>3. ServerView = "executing" /\ ServerView' = "answered"
      BY <3>1, ServerViews, NextServerViews
    <3> QED BY <1>1, <2>1, <3>1, <3>2, <3>3
  <2>4. CASE Raise
    <3>1. taken' = taken /\ left' = left /\ server = "running" /\ server' = "refused"
      BY <2>4 DEF Raise
    <3>2. ServerView = "executing" /\ ServerView' = "refused"
      BY <3>1, ServerViews, NextServerViews
    <3> QED BY <1>1, <2>1, <3>1, <3>2
  <2>5. CASE Defer
    <3>1. taken' = taken /\ left' = left /\ server = "running" /\ server' = "later"
      BY <2>5 DEF Defer
    <3>2. ServerView = "executing" /\ ServerView' = "executing"
      BY <3>1, ServerViews, NextServerViews
    <3> QED BY <1>1, <2>1, <3>1, <3>2
  <2>6. CASE ServerUnmarshal \/ ServerMarshal
    <3>1. taken' = taken /\ left' = left /\ server' = server
      BY <2>6 DEF ServerUnmarshal, ServerMarshal
    <3>2. ServerView' = ServerView
      BY <3>1 DEF ServerView
    <3> QED BY <1>1, <2>1, <3>1, <3>2
  <2> QED BY <1>5, <2>2, <2>3, <2>4, <2>5, <2>6 DEF ServerAlone
<1>6. CASE Reply
  <2>1. ArgView' = ArgView /\ CallerView' = CallerView
    BY <1>1, <1>6, ArgsStayServer
  <2>2. taken' = taken /\ left' = left /\ server = "marshal" /\ server' = "answered"
    BY <1>6 DEF Reply
  <2>3. ServerView = "answered" /\ ServerView' = "answered"
    BY <2>2, ServerViews, NextServerViews
  <2> QED BY <1>1, <2>1, <2>2, <2>3
<1>7. CASE UNCHANGED vars
  <2>1. UNCHANGED <<client, ok, server, taken, left, c, heap>>
    BY <1>7 DEF vars, stubVars
  <2>2. heap' \in Heaps'
    BY <1>1, <2>1, SameSlots DEF TypeInv, StubTypes
  <2>3. \A p \in Valued : Seen(p)' = Seen(p)
    BY <1>1, <2>1, <2>2, SeenStays DEF Valued
  <2>4. ArgView' = ArgView
    BY <1>1, <2>1, <2>3, ArgsStay
  <2>5. CallerView' = CallerView
    BY <2>1 DEF CallerView
  <2>6. ServerView' = ServerView
    BY <2>1 DEF ServerView
  <2> QED BY <1>1, <2>1, <2>4, <2>5, <2>6
<1> QED BY <1>2, <1>3, <1>4, <1>5, <1>6, <1>7 DEF Next, OrderNext, ServerNext, ServerAlone

LEMMA RemoteInit ==
  ASSUME CallInv, client = "start", server = "idle"
  PROVE  Abstract!Init
<1>1. op \in Operations
  BY DEF CallInv, TypeInv, OrderInv, OrderTypes
<1>2. \A p \in Slots :
        /\ HasIn(p) => p \in Params
        /\ Kind(p) = "alloc" => ~HasIn(p) /\ ~HasOut(p)
        /\ p = Ret \/ Kind(p) = "alloc" \/ HasIn(p) \/ HasOut(p)
        /\ p = Ret => HasOut(p)
        /\ p \in Params \/ p = Ret
  BY <1>1, KindFacts, SlotFacts
<1>3. Params \subseteq Slots
  BY <1>1, SlotFacts
<1>4. InSlots \subseteq ParamsView
  BY <1>2 DEF InSlots, ParamsView
<1>5. InSlots \cup OutSlots \cup ParamsView = Valued
  BY <1>2, <1>3 DEF InSlots, OutSlots, ParamsView, Valued
<1>6. DOMAIN ArgView = Valued
  BY DEF ArgView
<1>7. CallerView = "calling" /\ ServerView = "idle"
  BY CallerViews, ServerViews
<1> QED BY <1>4, <1>5, <1>6, <1>7 DEF Abstract!Init, CallerView, ServerView, ArgView, ParamsView, Valued

LEMMA RemoteStep ==
  ASSUME CallInv, [Next]_vars
  PROVE  [Abstract!Next]_(Abstract!vars)
<1>1. /\ ParamsView' = ParamsView /\ InSlots' = InSlots /\ OutSlots' = OutSlots
      /\ (~op.oneway)' = ~op.oneway
  BY StepViews, SameViews
<1>2. DOMAIN ArgView = Valued
  BY DEF ArgView
<1>3. CASE /\ ServerView = "idle" /\ ServerView' = "executing"
           /\ taken' = [p \in InSlots |-> ArgView[p]]
           /\ UNCHANGED <<left, ArgView, CallerView>>
  <2>1. Abstract!Execute
    BY <1>3 DEF Abstract!Execute, CallerView, ServerView, ArgView, Valued
  <2> QED BY <1>1, <2>1 DEF Abstract!Next, ParamsView
<1>4. CASE /\ ServerView = "executing"
           /\ \/ ServerView' = "answered" /\ DOMAIN left' = OutSlots
              \/ ServerView' = "refused" /\ left' = left
           /\ UNCHANGED <<taken, ArgView, CallerView>>
  <2>1. Abstract!Answer
    BY <1>4 DEF Abstract!Answer, CallerView, ServerView, ArgView, Valued
  <2> QED BY <1>1, <2>1 DEF Abstract!Next, ParamsView
<1>5. CASE /\ CallerView = "calling" /\ CallerView' = "returned"
           /\ ~op.oneway => ServerView = "answered"
           /\ ArgView' = [p \in Valued |-> IF p \in OutSlots THEN left[p] ELSE ArgView[p]]
           /\ UNCHANGED <<taken, left, ServerView>>
  <2>1. Abstract!Return
    BY <1>5, <1>2 DEF Abstract!Return, CallerView, ServerView, ArgView, Valued
  <2> QED BY <1>1, <2>1 DEF Abstract!Next, ParamsView
<1>6. CASE /\ CallerView = "calling" /\ CallerView' = "failed"
           /\ DOMAIN ArgView' = Valued
           /\ \A p \in ParamsView : ArgView'[p] = ArgView[p]
           /\ UNCHANGED <<taken, left, ServerView>>
  <2>1. Abstract!Fail
    BY <1>6, <1>2 DEF Abstract!Fail, CallerView, ServerView, ArgView, Valued, ParamsView
  <2> QED BY <1>1, <2>1 DEF Abstract!Next, ParamsView
<1>7. CASE UNCHANGED <<taken, left, ServerView, ArgView, CallerView>>
  <2>1. UNCHANGED Abstract!vars
    BY <1>1, <1>7 DEF Abstract!vars, CallerView, ServerView, ArgView, Valued, ParamsView
  <2> QED BY <2>1
<1> QED BY <1>3, <1>4, <1>5, <1>6, <1>7, StepViews

(* For a supported operation the stubs are a remote call: the function is    *)
(* invoked at most once and with what the caller gave, a normal return       *)
(* brings what it left, a failed one brings nothing.                         *)
THEOREM StubsAreRemoteCall == Spec /\ Supported(op) => IsRemoteCall
<1>1. StubInit /\ Supported(op) => CallInv /\ Abstract!Init
  <2>1. StubInit => client = "start" /\ server = "idle"
    BY DEF StubInit
  <2> QED BY <2>1, CallInit, RemoteInit
<1>2. CallInv /\ [Next]_vars => CallInv' /\ [Abstract!Next]_(Abstract!vars)
  BY CallStep, RemoteStep
<1> QED BY <1>1, <1>2, PTL DEF Spec, IsRemoteCall, Abstract!Spec

-----------------------------------------------------------------------------
(* Memory: what is allocated is pointed to.                                *)

MemoryKept(p) ==
  /\ c[p].ptr = <<"caller", p>> => Brings(p)
  /\ heap[<<"caller", p>>].live => Brings(p) /\ c[p].ptr = <<"caller", p>>
  /\ heap[<<"alloc", p>>].live => c[p].ptr = <<"alloc", p>>
  /\ heap[<<"frame", p>>].live => <<"frame", p>> \in Frames /\ ~ok

(* The server frees a string it was returned once it has marshalled it.    *)
ReturnFreed ==
  op.ret = "string" /\ (server = "answered" \/ (server = "marshal" /\ si > Len(Replies))) =>
    ~heap[<<"own", Ret>>].live

BalanceInv == misused = {} /\ ReturnFreed /\ \A p \in Slots : MemoryKept(p)

LEMMA MemoryStays ==
  ASSUME op' = op, ok' = ok, NEW p, MemoryKept(p), c'[p].ptr = c[p].ptr,
         heap'[<<"caller", p>>].live => heap[<<"caller", p>>].live,
         heap'[<<"alloc", p>>].live => heap[<<"alloc", p>>].live,
         heap'[<<"frame", p>>].live => heap[<<"frame", p>>].live
  PROVE  MemoryKept(p)'
<1>1. Frames' = Frames /\ (Brings(p)' <=> Brings(p))
  BY SameSlots
<1> QED BY <1>1 DEF MemoryKept

(* The memory of the server is not the client's.                           *)
LEMMA MemoryStaysServer ==
  ASSUME op' = op, ok' = ok, c' = c, NEW p \in Slots, MemoryKept(p),
         \A o \in Objects : ClientSide(o) => heap'[o] = heap[o]
  PROVE  MemoryKept(p)'
<1>1. <<"caller", p>> \in Objects /\ <<"alloc", p>> \in Objects /\ <<"frame", p>> \in Objects
  BY ObjectFacts
<1>2. ClientSide(<<"caller", p>>)
  BY DEF ClientSide
<1>3. ClientSide(<<"alloc", p>>)
  BY DEF ClientSide
<1>4. ClientSide(<<"frame", p>>)
  BY DEF ClientSide
<1> QED BY <1>1, <1>2, <1>3, <1>4, MemoryStays

(* Unmarshalling a slot frees the buffer it replaces.                      *)
LEMMA MemoryTakes ==
  ASSUME TypeInv, SidesInv, NEW p \in Slots, Takes(p), op' = op, ok' = ok,
         \A q \in Slots : MemoryKept(q),
         VarSized(p) /\ Brings(p) /\ c'[p].ptr # <<"caller", p>> => ~heap'[<<"caller", p>>].live,
         c'[p].ptr # <<"alloc", p>> => heap'[<<"alloc", p>>] = heap[<<"alloc", p>>]
  PROVE  \A q \in Slots : MemoryKept(q)'
<1>1. /\ \A q \in Slots : q # p => c'[q].ptr = c[q].ptr
      /\ c'[p].ptr \in {c[p].ptr, <<"alloc", p>>}
      /\ \A o \in Objects : o # c[p].ptr /\ o # <<"alloc", p>> => heap'[o] = heap[o]
  BY TakeEffect
<1>2. c[p].ptr \in {None, <<"caller", p>>, <<"alloc", p>>}
  BY DEF SidesInv
<1>3. ASSUME NEW q \in Slots, q # p PROVE MemoryKept(q)'
  <2>1. /\ <<"caller", q>> \in Objects /\ <<"alloc", q>> \in Objects /\ <<"frame", q>> \in Objects
        /\ None \notin Objects
    BY ObjectFacts
  <2>2. \A r : r \in {"caller", "alloc", "frame"} => <<r, q>> # <<"caller", p>> /\ <<r, q>> # <<"alloc", p>>
    BY <1>3
  <2>3. heap'[<<"caller", q>>] = heap[<<"caller", q>>]
    BY <1>1, <1>2, <2>1, <2>2
  <2>4. heap'[<<"alloc", q>>] = heap[<<"alloc", q>>]
    BY <1>1, <1>2, <2>1, <2>2
  <2>5. heap'[<<"frame", q>>] = heap[<<"frame", q>>]
    BY <1>1, <1>2, <2>1, <2>2
  <2> QED BY <1>1, <1>3, <2>3, <2>4, <2>5, MemoryStays
<1>4. MemoryKept(p)'
  <2>1. /\ <<"caller", p>> \in Objects /\ <<"alloc", p>> \in Objects /\ <<"frame", p>> \in Objects
        /\ None \notin Objects
    BY ObjectFacts
  <2>2. <<"caller", p>> # <<"alloc", p>> /\ <<"frame", p>> # <<"alloc", p>> /\ <<"frame", p>> # <<"caller", p>>
    OBVIOUS
  <2>3. Frames' = Frames /\ (Brings(p)' <=> Brings(p)) /\ MemoryKept(p) /\ (Brings(p) => VarSized(p))
    BY SameSlots DEF Brings
  <2>4. c'[p].ptr = <<"caller", p>> => Brings(p)
    BY <1>1, <2>2, <2>3 DEF MemoryKept
  <2>5. ASSUME heap'[<<"caller", p>>].live PROVE Brings(p) /\ c'[p].ptr = <<"caller", p>>
    <3>1. CASE Brings(p)
      BY <2>3, <2>5, <3>1
    <3>2. CASE ~Brings(p)
      <4>1. c[p].ptr # <<"caller", p>>
        BY <2>3, <3>2 DEF MemoryKept
      <4>2. heap'[<<"caller", p>>] = heap[<<"caller", p>>]
        BY <1>1, <2>1, <2>2, <4>1
      <4> QED BY <2>3, <2>5, <3>2, <4>2 DEF MemoryKept
    <3> QED BY <3>1, <3>2
  <2>6. ASSUME heap'[<<"alloc", p>>].live PROVE c'[p].ptr = <<"alloc", p>>
    <3>1. CASE c'[p].ptr # <<"alloc", p>>
      <4>1. heap[<<"alloc", p>>].live
        BY <2>6, <3>1
      <4>2. c[p].ptr = <<"alloc", p>>
        BY <2>3, <4>1 DEF MemoryKept
      <4> QED BY <1>1, <4>2
    <3> QED BY <3>1
  <2>7. heap'[<<"frame", p>>] = heap[<<"frame", p>>]
    BY <1>1, <1>2, <2>1, <2>2
  <2> QED BY <2>3, <2>4, <2>5, <2>6, <2>7 DEF MemoryKept
<1> QED BY <1>3, <1>4

(* A return value that did not arrive is replaced by memory of the stub.   *)
LEMMA FailedReturn ==
  ASSUME TypeInv, Supported(op), SidesInv, TakenInv, Return, ~ok, op.ret # "void",
         \A q \in Slots : MemoryKept(q)
  PROVE  misused' = misused /\ \A q \in Slots : MemoryKept(q)'
<1>1. /\ client = "return" /\ op \in Operations /\ op' = op /\ ok' = ok
      /\ Ret \in Slots /\ Takes(Ret) /\ (TakeWord(Ret) \/ TakeString(Ret)) /\ ~HasIn(Ret)
  BY ReturnCases DEF orderVars
<1>2. PICK p \in Slots : p = Ret
  BY <1>1
<1>3. ~Brings(p) /\ c[p].ptr = None
  <2>1. UseMalloc(p) /\ ~HasIn(p)
    BY <1>1, <1>2 DEF UseMalloc
  <2>2. c[p].ptr = None
    BY <1>1, <1>2 DEF TakenInv
  <2> QED BY <2>1, <2>2 DEF Brings
<1>4. misused' = misused /\ (c'[p].ptr # <<"alloc", p>> => heap'[<<"alloc", p>>] = heap[<<"alloc", p>>])
  <2>1. CASE TakeWord(p)
    BY <2>1 DEF TakeWord
  <2>2. CASE TakeString(p)
    <3>1. TakeData(p, New(p), FALSE, TRUE)
      <4>1. HasIn(p) = FALSE
        BY <1>2 DEF HasIn
      <4>2. TakeData(p, New(p), HasIn(p), TRUE)
        BY <2>2, <4>1 DEF TakeString
      <4> QED BY <4>1, <4>2
    <3>2. c'[p].ptr = New(p)
      <4>1. c'[p] = [c[p] EXCEPT !.ptr = New(p), !.len = IF Kind(p) = "sequence" THEN Arrived.len[p] ELSE @]
        BY <3>1 DEF TakeData
      <4>2. c[p] \in Variable
        BY DEF TypeInv, StubTypes
      <4>3. c[p] \in [ptr : Pointers, len : 0 .. MaxLength, val : Value]
        BY <4>2 DEF Variable, Pointers, Objects
      <4> QED BY <4>1, <4>3
    <3>3. p \notin Items("out")
      <4>1. op.ret = "string"
        BY <1>1, <1>2, <2>2 DEF TakeString, Kind
      <4>2. <<p, "out">> \in op.inline
        BY <1>2, <4>1 DEF Supported, Ret
      <4> QED BY <4>2 DEF Items
    <3>4. New(p) # c[p].ptr
      BY <1>3 DEF New, None
    <3>5. misused' = misused \cup Dead({} \cup {})
      BY <3>1, <3>3, <3>4 DEF TakeData
    <3>6. Dead({} \cup {}) = {}
      BY DEF Dead
    <3> QED BY <3>2, <3>5, <3>6 DEF New
  <2> QED BY <1>1, <1>2, <2>1, <2>2
<1> QED BY <1>1, <1>2, <1>3, <1>4, MemoryTakes

(* The items of the two messages name memory that is allocated.            *)
LEMMA CallUses ==
  ASSUME CallInv, Call
  PROVE  misused' = misused
<1>1. /\ TypeInv /\ Supported(op) /\ CallerInv /\ RequestInv /\ op \in Operations /\ OrderInv
      /\ stage = "generated" /\ client = "marshal" /\ ci > Len(ops) /\ ~Taking /\ heap \in Heaps
      /\ DOMAIN heap = Objects /\ ci \in Nat /\ Len(ops) \in Nat
  BY HeapDomain, RepliesFacts
     DEF CallInv, Call, TypeInv, StubTypes, PhaseInv, OrderInv, OrderTypes, Taking
<1>2. ASSUME NEW p \in Items("in") PROVE Live(req.ptr[p])
  <2>0. p \in Slots
    BY DEF Items
  <2>1. VarSized(p) /\ HasIn(p) /\ p \in Params /\ ~Carries(p, "in")
    BY <1>1, <2>0, CarriesFacts
  <2>2. Kind(p) # "alloc" /\ ~Claimed(p)
    BY <1>1, <2>0, <2>1, ClaimedFacts DEF HasIn
  <2>3. PICK i \in 1 .. Len(ops) : ops[i] = p
    BY <1>1, <2>1, <2>2, GeneratedFacts
  <2>4. i < ci
    BY <1>1, <2>3
  <2>5. Requested(p)
    BY <1>1, <2>1, <2>3, <2>4 DEF RequestInv
  <2>6. req.ptr[p] = <<"caller", p>>
    BY <2>1, <2>5 DEF Requested
  <2>7. heap[<<"caller", p>>].live
    BY <1>1, <2>1 DEF CallerInv, CallerKept, Brings
  <2>8. <<"caller", p>> \in Objects
    BY <2>0, ObjectFacts
  <2> QED BY <1>1, <2>6, <2>7, <2>8 DEF Live
<1>3. Dead({req.ptr[p] : p \in Items("in")}) = {}
  BY <1>2 DEF Dead
<1> QED BY <1>3 DEF Call

LEMMA ReplyUses ==
  ASSUME CallInv, Reply
  PROVE  misused' = misused
<1>1. CASE client # "waiting"
  BY <1>1 DEF Reply
<1>2. CASE client = "waiting"
  <2>1. /\ TypeInv /\ Supported(op) /\ CallerInv /\ LeftInv /\ ReplyInv /\ ArrivedInv
        /\ server = "marshal" /\ si > Len(Replies)
    BY DEF CallInv, Reply
  <2>2. \A p \in Items("out") : Live(rep.ptr[p])
    BY <2>1, ReplyItem
  <2>3. \A p \in Items("out") : Live(Landing(p))
    BY <1>2, <2>1, LandingPlace
  <2>4. Dead({rep.ptr[p] : p \in Items("out")} \cup {Landing(p) : p \in Items("out")}) = {}
    BY <2>2, <2>3 DEF Dead
  <2> QED BY <1>2, <2>4 DEF Reply
<1> QED BY <1>1, <1>2

(* Nothing is used after it was freed.                                     *)
LEMMA NothingMisused ==
  ASSUME CallInv, [Next]_vars, \A p \in Slots : MemoryKept(p)
  PROVE  misused' = misused
<1>1. /\ TypeInv /\ SidesInv /\ Supported(op) /\ GivenInv /\ CallerInv /\ LeftInv /\ ReplyInv
      /\ ArrivedInv /\ TakenInv
  BY DEF CallInv
<1>2. CASE (OrderNext /\ UNCHANGED stubVars) \/ UNCHANGED vars
  BY <1>2 DEF stubVars, vars
<1>3. CASE Start \/ CallFails \/ Finish \/ SkipUnmarshal
  BY <1>3 DEF Start, CallFails, Finish, SkipUnmarshal
<1>4. CASE ClientMarshal
  <2>1. PICK p : p = ops[ci]
    OBVIOUS
  <2> QED BY <1>1, <1>4, <2>1, MarshalEffect
<1>5. CASE Call
  BY <1>5, CallUses
<1>6. CASE ClientUnmarshal
  <2>1. PICK p : p = ops[ci]
    OBVIOUS
  <2>2. CASE ~HasOut(p)
    BY <1>1, <1>6, <2>1, <2>2, UnmarshalCases
  <2>3. CASE HasOut(p)
    BY <1>1, <1>6, <2>1, <2>3, UnmarshalGets
  <2> QED BY <2>2, <2>3
<1>7. CASE Return
  <2>1. CASE op.ret = "void"
    BY <1>7, <2>1 DEF Return
  <2>2. CASE op.ret # "void" /\ ok
    BY <1>1, <1>7, <2>2, ReturnGets
  <2>3. CASE op.ret # "void" /\ ~ok
    BY <1>1, <1>7, <2>3, FailedReturn
  <2> QED BY <2>1, <2>2, <2>3
<1>8. CASE ServerUnmarshal \/ Invoke \/ Answer \/ Raise \/ Defer \/ AnswerLater
  BY <1>8 DEF ServerUnmarshal, Invoke, Answer, Raise, Defer, AnswerLater
<1>9. CASE ServerMarshal
  <2>1. PICK p : p = Replies[si]
    OBVIOUS
  <2> QED BY <1>1, <1>9, <2>1, AnswerEffect
<1>10. CASE Reply
  BY <1>10, ReplyUses
<1> QED BY <1>2, <1>3, <1>4, <1>5, <1>6, <1>7, <1>8, <1>9, <1>10 DEF Next, OrderNext, ClientNext, ServerNext

LEMMA ReturnFreedStep ==
  ASSUME CallInv, ReturnFreed, [Next]_vars
  PROVE  ReturnFreed'
<1>1. /\ TypeInv /\ SidesInv /\ Supported(op) /\ LeftInv /\ op' = op /\ op \in Operations /\ Ret' = Ret
  BY SidesStep, SameSlots DEF CallInv
<1>2. CASE (OrderNext /\ UNCHANGED stubVars)
  <2>1. server = "idle" /\ server' = server
    BY <1>1, <1>2, GeneratingEffect DEF stubVars
  <2> QED BY <2>1 DEF ReturnFreed
<1>3. ASSUME UNCHANGED orderVars PROVE ops' = ops /\ Replies' = Replies
  BY <1>1, <1>3, CodeStays
<1>4. op.ret = "string" => <<"own", Ret>> \in Objects /\ ~ClientSide(<<"own", Ret>>)
  <2>1. op.ret = "string" => Ret \in Slots
    BY <1>1, SlotFacts
  <2>2. op.ret = "string" => <<"own", Ret>> \in Objects
    BY <2>1, ObjectFacts
  <2>3. ~ClientSide(<<"own", Ret>>)
    BY DEF ClientSide
  <2> QED BY <2>2, <2>3
<1>5. CASE ClientNext
  <2>1. /\ si' = si /\ Replies' = Replies
        /\ server' = server \/ (Call /\ server = "idle" /\ server' = "unmarshal")
        /\ \A o \in Objects : ~ClientSide(o) /\ (o[1] # "pool" \/ ~Call) => heap'[o] = heap[o]
    BY <1>1, <1>3, <1>5, ClientEffect
  <2>2. <<"own", Ret>>[1] # "pool"
    OBVIOUS
  <2>3. op.ret = "string" => heap'[<<"own", Ret>>] = heap[<<"own", Ret>>]
    BY <1>4, <2>1, <2>2
  <2> QED BY <1>1, <2>1, <2>3 DEF ReturnFreed
<1>6. CASE ServerUnmarshal \/ Invoke \/ Raise \/ Defer
  <2>1. server' \notin {"marshal", "answered"}
    BY <1>6 DEF ServerUnmarshal, Invoke, Raise, Defer
  <2> QED BY <2>1 DEF ReturnFreed
<1>7. CASE Answer \/ AnswerLater
  <2>1. si' = si /\ si = 1 /\ UNCHANGED orderVars /\ (server' = "answered" => op.oneway)
    BY <1>1, <1>7 DEF Answer, AnswerLater, TypeInv, PhaseInv
  <2>2. op.oneway => op.ret = "void"
    BY <1>1 DEF Supported
  <2>3. op.ret = "string" => Len(Replies) \in Nat /\ Len(Replies) >= 1
    BY <1>1, RepliesFacts DEF TypeInv
  <2>4. Replies' = Replies
    BY <1>3, <2>1
  <2>5. op.ret = "string" => server' # "answered" /\ ~(si' > Len(Replies'))
    BY <2>1, <2>2, <2>3, <2>4
  <2> QED BY <1>1, <2>5 DEF ReturnFreed
<1>8. CASE ServerMarshal
  <2>1. PICK p : p = Replies[si]
    OBVIOUS
  <2>2. /\ p \in Slots /\ si \in 1 .. Len(Replies) /\ si' = si + 1 /\ server' = server /\ server = "marshal"
        /\ Replies' = Replies /\ stage = "generated" /\ OrderInv
        /\ p = Ret /\ VarSized(p) => ~heap'[<<"own", Ret>>].live
    BY <1>1, <1>8, <2>1, AnswerEffect
  <2>3. ASSUME op.ret = "string", si' > Len(Replies') PROVE ~heap'[<<"own", Ret>>].live
    <3>1. Len(Replies) = Len(ops) + 1 /\ Len(ops) \in Nat
      BY <2>2, <2>3, RepliesFacts
    <3>2. si = Len(ops) + 1
      BY <2>2, <2>3, <3>1
    <3>3. p = Ret
      BY <2>1, <2>2, <2>3, <3>2, RepliesFacts
    <3>4. VarSized(p)
      BY <2>3, <3>3 DEF VarSized, Kind
    <3> QED BY <2>2, <3>3, <3>4
  <2> QED BY <1>1, <2>2, <2>3 DEF ReturnFreed
<1>9. CASE Reply
  <2>1. /\ server = "marshal" /\ si > Len(Replies)
        /\ \A o \in Objects : ~ClientSide(o) => heap'[o] = heap[o]
    BY <1>1, <1>9, ReplyEffect DEF Reply
  <2>2. op.ret = "string" => heap'[<<"own", Ret>>] = heap[<<"own", Ret>>]
    BY <1>4, <2>1
  <2> QED BY <1>1, <2>1, <2>2 DEF ReturnFreed
<1>10. CASE UNCHANGED vars
  <2>1. server' = server /\ si' = si /\ heap' = heap /\ UNCHANGED orderVars
    BY <1>10 DEF vars, stubVars
  <2> QED BY <1>1, <1>3, <2>1 DEF ReturnFreed
<1> QED BY <1>2, <1>5, <1>6, <1>7, <1>8, <1>9, <1>10 DEF Next, OrderNext, ServerNext

LEMMA MemoryStep ==
  ASSUME CallInv, [Next]_vars, \A q \in Slots : MemoryKept(q)
  PROVE  (\A q \in Slots : MemoryKept(q))'
<1>1. /\ TypeInv /\ SidesInv /\ Supported(op) /\ GivenInv /\ CallerInv /\ LeftInv /\ ReplyInv
      /\ ArrivedInv /\ TakenInv /\ op' = op /\ op \in Operations /\ Slots' = Slots /\ Frames' = Frames
      /\ DOMAIN heap = Objects /\ heap \in Heaps
  BY SidesStep, SameSlots, HeapDomain DEF CallInv, TypeInv, StubTypes
<1> SUFFICES \A q \in Slots : MemoryKept(q)'
  BY <1>1
<1>2. ASSUME UNCHANGED <<ok, c, heap>>, NEW q \in Slots PROVE MemoryKept(q)'
  BY <1>1, <1>2, MemoryStays
<1>3. CASE (OrderNext /\ UNCHANGED stubVars) \/ UNCHANGED vars \/ CallFails \/ SkipUnmarshal
  <2>1. UNCHANGED <<ok, c, heap>>
    BY <1>3 DEF stubVars, vars, CallFails, SkipUnmarshal
  <2> QED BY <1>2, <2>1
<1>4. CASE ServerAlone
  <2>1. ok' = ok /\ c' = c /\ \A o \in Objects : ClientSide(o) => heap'[o] = heap[o]
    BY <1>1, <1>4, ServerAloneEffect
  <2> QED BY <1>1, <2>1, MemoryStaysServer
<1>5. CASE Call
  <2>1. ok' = ok /\ c' = c
    BY <1>5 DEF Call
  <2>2. ASSUME NEW o \in Objects, ClientSide(o) PROVE heap'[o] = heap[o]
    <3>1. o[1] # "pool"
      BY <2>2 DEF ClientSide
    <3> QED BY <1>1, <1>5, <3>1 DEF Call
  <2> QED BY <1>1, <2>1, <2>2, MemoryStaysServer
<1>6. ASSUME NEW q \in Slots
      PROVE /\ <<"caller", q>> \in Objects /\ <<"alloc", q>> \in Objects /\ <<"frame", q>> \in Objects
            /\ <<"caller", q>> \notin Frames /\ <<"alloc", q>> \notin Frames
  BY ObjectFacts DEF Frames
<1>7. CASE Start
  <2>1. /\ ok' = ok /\ c' = c /\ ~ok
        /\ heap' = [o \in Objects |-> IF o \in Frames THEN Holding(Junk) ELSE heap[o]]
    BY <1>1, <1>7 DEF Start, TypeInv, PhaseInv
  <2>2. ASSUME NEW q \in Slots
        PROVE /\ heap'[<<"caller", q>>] = heap[<<"caller", q>>]
              /\ heap'[<<"alloc", q>>] = heap[<<"alloc", q>>]
              /\ <<"frame", q>> \notin Frames => heap'[<<"frame", q>>] = heap[<<"frame", q>>]
    BY <1>6, <2>1
  <2>3. \A q : Brings(q)' <=> Brings(q)
    BY <1>1, SameSlots
  <2> QED BY <1>1, <2>1, <2>2, <2>3 DEF MemoryKept
<1>8. CASE Finish
  <2>1. /\ c' = c
        /\ heap' = [o \in Objects |-> IF o \in Frames THEN [heap[o] EXCEPT !.live = FALSE] ELSE heap[o]]
    BY <1>1, <1>8 DEF Finish
  <2>2. ASSUME NEW q \in Slots
        PROVE /\ heap'[<<"caller", q>>] = heap[<<"caller", q>>]
              /\ heap'[<<"alloc", q>>] = heap[<<"alloc", q>>]
              /\ ~heap'[<<"frame", q>>].live
    <3>1. /\ heap'[<<"caller", q>>] = heap[<<"caller", q>>]
          /\ heap'[<<"alloc", q>>] = heap[<<"alloc", q>>]
      BY <1>6, <2>1
    <3>2. CASE <<"frame", q>> \in Frames
      <4>1. heap'[<<"frame", q>>] = [heap[<<"frame", q>>] EXCEPT !.live = FALSE]
        BY <1>6, <2>1, <3>2
      <4>2. heap[<<"frame", q>>] \in [live : BOOLEAN, val : Value]
        BY <1>1, <1>6 DEF Heaps
      <4> QED BY <3>1, <4>1, <4>2
    <3>3. CASE <<"frame", q>> \notin Frames
      <4>1. heap'[<<"frame", q>>] = heap[<<"frame", q>>]
        BY <1>6, <2>1, <3>3
      <4> QED BY <3>1, <3>3, <4>1 DEF MemoryKept
    <3> QED BY <3>2, <3>3
  <2>3. \A q : Brings(q)' <=> Brings(q)
    BY <1>1, SameSlots
  <2> QED BY <1>1, <2>1, <2>2, <2>3 DEF MemoryKept
<1>9. CASE ClientMarshal
  <2>1. PICK p : p = ops[ci]
    OBVIOUS
  <2>2. ok' = ok /\ heap' = heap /\ p \in Slots
    <3>1. ok' = ok /\ heap' = heap
      BY <1>9 DEF ClientMarshal
    <3> QED BY <1>1, <1>9, <2>1, <3>1, MarshalEffect
  <2>3. ASSUME NEW q \in Slots PROVE c'[q].ptr = c[q].ptr
    <3>1. c' = c \/ \E n : c' = [c EXCEPT ![p].len = n]
      BY <1>9, <2>1 DEF ClientMarshal, SendWord, SendThread, SendMap, SendString, SendArray, SendSequence
    <3>2. c \in [Slots -> Variable]
      BY <1>1 DEF TypeInv, StubTypes
    <3>3. Variable = [ptr : Pointers, len : 0 .. MaxLength, val : Value]
      BY DEF Variable, Pointers, Objects
    <3>4. CASE c' = c
      BY <3>4
    <3>5. ASSUME NEW n, c' = [c EXCEPT ![p].len = n] PROVE c'[q].ptr = c[q].ptr
      <4>1. c' = [c EXCEPT ![p] = [c[p] EXCEPT !.len = n]]
        BY <3>5
      <4>2. CASE q = p
        <5>1. c'[q] = [c[p] EXCEPT !.len = n]
          BY <3>2, <4>1, <4>2
        <5>2. c[p] \in [ptr : Pointers, len : 0 .. MaxLength, val : Value]
          BY <2>2, <3>2, <3>3
        <5> QED BY <4>2, <5>1, <5>2
      <4>3. CASE q # p
        BY <3>2, <4>1, <4>3
      <4> QED BY <4>2, <4>3
    <3> QED BY <3>1, <3>4, <3>5
  <2> QED BY <1>1, <2>2, <2>3, MemoryStays
<1>10. CASE ClientUnmarshal
  <2>1. PICK p : p = ops[ci]
    OBVIOUS
  <2>2. ok' = ok /\ p \in Slots
    BY <1>1, <1>10, <2>1, UnmarshalCases
  <2>3. CASE ~HasOut(p)
    <3>1. UNCHANGED <<ok, c, heap>>
      BY <1>1, <1>10, <2>1, <2>3, UnmarshalCases
    <3> QED BY <1>2, <3>1
  <2>4. CASE HasOut(p)
    <3>1. Takes(p)
      BY <1>1, <1>10, <2>1, <2>4, UnmarshalCases
    <3>2. /\ VarSized(p) /\ Brings(p) /\ c'[p].ptr # <<"caller", p>> => ~heap'[<<"caller", p>>].live
          /\ c'[p].ptr # <<"alloc", p>> => heap'[<<"alloc", p>>] = heap[<<"alloc", p>>]
      BY <1>1, <1>10, <2>1, <2>4, UnmarshalGets
    <3> QED BY <1>1, <2>2, <3>1, <3>2, MemoryTakes
  <2> QED BY <2>3, <2>4
<1>11. CASE Return
  <2>0. ok' = ok
    BY <1>11 DEF Return
  <2>1. CASE op.ret = "void"
    <3>1. UNCHANGED <<c, heap>>
      BY <1>11, <2>1 DEF Return
    <3> QED BY <1>2, <2>0, <3>1
  <2>2. CASE op.ret # "void" /\ ok
    <3>1. Ret \in Slots /\ Takes(Ret) /\ ~HasIn(Ret)
      BY <1>1, <1>11, <2>2, ReturnCases
    <3>2. c'[Ret].ptr # <<"alloc", Ret>> => heap'[<<"alloc", Ret>>] = heap[<<"alloc", Ret>>]
      BY <1>1, <1>11, <2>2, ReturnGets
    <3>3. PICK p \in Slots : p = Ret
      BY <3>1
    <3>4. ~Brings(p)
      BY <3>1, <3>3 DEF Brings, UseMalloc
    <3> QED BY <1>1, <2>0, <3>1, <3>2, <3>3, <3>4, MemoryTakes
  <2>3. CASE op.ret # "void" /\ ~ok
    BY <1>1, <1>11, <2>3, FailedReturn
  <2> QED BY <2>1, <2>2, <2>3
<1>12. CASE Reply
  <2>1. /\ ok' = ok /\ c' = c
        /\ \/ heap' = heap
           \/ heap' = [o \in Objects |->
                             IF o[2] \in Items("out") /\ o = Landing(o[2])
                             THEN [heap[o] EXCEPT !.val = Cut(Content(rep.ptr[o[2]]), rep.len[o[2]])]
                             ELSE heap[o]]
    BY <1>1, <1>12, ReplyEffect
  <2>2. ASSUME NEW o \in Objects PROVE heap'[o].live = heap[o].live
    <3>1. heap[o] \in [live : BOOLEAN, val : Value]
      BY <1>1 DEF Heaps
    <3>2. heap'[o] = heap[o] \/ \E v : heap'[o] = [heap[o] EXCEPT !.val = v]
      BY <2>1
    <3> QED BY <3>1, <3>2
  <2> QED BY <1>1, <1>6, <2>1, <2>2, MemoryStays
<1> QED BY <1>3, <1>4, <1>5, <1>7, <1>8, <1>9, <1>10, <1>11, <1>12
        DEF Next, OrderNext, ClientNext, ServerNext, ServerAlone

LEMMA BalanceStep ==
  ASSUME CallInv, BalanceInv, [Next]_vars
  PROVE  BalanceInv'
<1>1. misused' = {} /\ ReturnFreed'
  BY NothingMisused, ReturnFreedStep DEF BalanceInv
<1>2. (\A q \in Slots : MemoryKept(q))'
  BY MemoryStep DEF BalanceInv
<1> QED BY <1>1, <1>2 DEF BalanceInv

LEMMA BalanceInit ==
  ASSUME StubInit
  PROVE  BalanceInv
<1>1. TypeInv /\ op \in Operations /\ misused = {} /\ server = "idle"
  BY InitTypes DEF TypeInv, OrderInv, OrderTypes, StubInit
<1>2. PICK n \in Lengths :
       /\ c = [p \in Slots |-> CallerVariable(p, n[p])]
       /\ heap = [o \in Roles \X Slots |->
            LET p == o[2] IN
            IF o[1] = "caller" /\ Brings(p)
            THEN Holding(IF HasIn(p) THEN Whole(p, "in", n[p]) ELSE Junk)
            ELSE [live |-> o[1] = "pool", val |-> Junk]]
  BY DEF StubInit
<1>3. ASSUME NEW p \in Slots PROVE MemoryKept(p)
  <2>1. c[p].ptr = IF Brings(p) THEN <<"caller", p>> ELSE None
    BY <1>2 DEF CallerVariable
  <2>2. ~Brings(p) => heap[<<"caller", p>>] = [live |-> FALSE, val |-> Junk]
    <3>1. <<"caller", p>> \in Roles \X Slots /\ <<"caller", p>>[1] = "caller" /\ <<"caller", p>>[2] = p
      BY DEF Roles
    <3> QED BY <1>2, <3>1
  <2>3. heap[<<"alloc", p>>] = [live |-> FALSE, val |-> Junk]
    <3>1. <<"alloc", p>> \in Roles \X Slots /\ <<"alloc", p>>[1] = "alloc" /\ <<"alloc", p>>[2] = p
      BY DEF Roles
    <3> QED BY <1>2, <3>1
  <2>4. heap[<<"frame", p>>] = [live |-> FALSE, val |-> Junk]
    <3>1. <<"frame", p>> \in Roles \X Slots /\ <<"frame", p>>[1] = "frame" /\ <<"frame", p>>[2] = p
      BY DEF Roles
    <3> QED BY <1>2, <3>1
  <2> QED BY <2>1, <2>2, <2>3, <2>4 DEF MemoryKept, None
<1> QED BY <1>1, <1>3 DEF BalanceInv, ReturnFreed

LEMMA BalanceSuffices == CallInv /\ BalanceInv => BuffersBalance
<1> SUFFICES ASSUME CallInv, BalanceInv, client = "done", ok
             PROVE  /\ misused = {}
                    /\ \A p \in Slots : VarSized(p) => Live(c[p].ptr)
                    /\ \A o \in Roles \X Slots :
                          Live(o) /\ o[1] \in {"caller", "frame", "alloc"} => o \in Held
                    /\ op.ret = "string" => ~Live(<<"own", Ret>>)
  BY DEF BuffersBalance
<1>1. /\ TypeInv /\ CallerInv /\ Supported(op) /\ op \in Operations /\ DOMAIN heap = Objects /\ ok
      /\ OrderInv /\ stage = "generated"
  BY HeapDomain DEF CallInv, TypeInv, OrderInv, OrderTypes, PhaseInv
<1>2. ASSUME NEW p \in Slots, VarSized(p) PROVE Live(c[p].ptr)
  <2>0. <<"caller", p>> \in Objects /\ <<"alloc", p>> \in Objects
    BY ObjectFacts
  <2>1. CASE HasOut(p)
    <3>1. Has(p)
      BY <1>1, <2>1, AllTaken
    <3>2. c[p].ptr \in Objects /\ heap[c[p].ptr] = Holding(left[p])
      BY <1>2, <2>0, <3>1 DEF Has
    <3> QED BY <1>1, <3>2 DEF Live, Holding
  <2>2. CASE ~HasOut(p)
    <3>1. p \in Params /\ HasIn(p)
      <4>1. Kind(p) # "alloc"
        BY <1>2 DEF VarSized
      <4>2. p # Ret
        BY <1>1, <2>2, KindFacts
      <4> QED BY <1>1, <2>2, <4>1, <4>2, KindFacts
    <3>2. Brings(p)
      BY <1>2, <3>1 DEF Brings
    <3>3. c[p].ptr = <<"caller", p>> /\ heap[<<"caller", p>>].live
      BY <1>1, <1>2, <2>2, <3>1, <3>2 DEF CallerInv, CallerKept
    <3> QED BY <1>1, <2>0, <3>3 DEF Live
  <2> QED BY <2>1, <2>2
<1>3. ASSUME NEW o \in Roles \X Slots, Live(o), o[1] \in {"caller", "frame", "alloc"}
      PROVE o \in Held
  <2>1. PICK r \in Roles, p \in Slots : o = <<r, p>>
    OBVIOUS
  <2>2. r \in {"caller", "frame", "alloc"} /\ heap[<<r, p>>].live
    BY <1>3, <2>1 DEF Live
  <2>3. MemoryKept(p)
    BY DEF BalanceInv
  <2>4. o = c[p].ptr
    BY <1>1, <2>1, <2>2, <2>3 DEF MemoryKept
  <2> QED BY <2>4 DEF Held
<1>4. ASSUME op.ret = "string" PROVE ~Live(<<"own", Ret>>)
  <2>1. Ret \in Slots /\ HasOut(Ret)
    BY <1>1, <1>4, SlotFacts DEF HasOut
  <2>2. server = "answered"
    BY <1>1, <2>1, AllTaken
  <2> QED BY <1>4, <2>2 DEF BalanceInv, ReturnFreed, Live
<1> QED BY <1>2, <1>3, <1>4 DEF BalanceInv

(* After a normal return of a supported operation nothing was used after it *)
(* was freed and nothing that was allocated for the call is lost.          *)
THEOREM StubsBalanceMemory == Spec /\ Supported(op) => []BuffersBalance
<1>1. StubInit /\ Supported(op) => CallInv /\ BalanceInv
  BY CallInit, BalanceInit
<1>2. CallInv /\ BalanceInv /\ [Next]_vars => CallInv' /\ BalanceInv'
  BY CallStep, BalanceStep
<1>3. CallInv /\ BalanceInv => BuffersBalance
  BY BalanceSuffices
<1> QED BY <1>1, <1>2, <1>3, PTL DEF Spec

=============================================================================
