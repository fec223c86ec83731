--------------------------- MODULE IDSourceProofs ---------------------------
(***************************************************************************)
(* Proofs about the assignment of function and exception numbers, for any  *)
(* program: any number of interfaces, any inheritance, any numbers of      *)
(* interfaces, operations and exceptions.                                  *)
(***************************************************************************)
EXTENDS Dispatch, CollectionProofs

-----------------------------------------------------------------------------
(* Programs                                                                *)

LEMMA ProgramFacts ==
  ASSUME prog \in Programs
  PROVE  /\ Len(prog) \in Nat
         /\ Scope = 1 .. Len(prog)
         /\ IsFiniteSet(Scope)
         /\ \A s \in Scope : Len(prog[s].ops) \in Nat /\ prog[s].excs \in Nat
         /\ \A s \in Scope : Bosses(s) \subseteq Scope
         /\ \A s, t \in Scope : t \in Bosses(s) => s \notin Bosses(t)
<1>1. prog \in Seq(Declaration)
  BY ProgramAssumption DEF Program
<1>2. \A s \in DOMAIN prog : /\ Ancestors(prog, s) \subseteq DOMAIN prog
                             /\ \A a \in Ancestors(prog, s) : s \notin Ancestors(prog, a)
  BY ProgramAssumption DEF Program
<1>3. Len(prog) \in Nat /\ Scope = 1 .. Len(prog)
  BY <1>1 DEF Scope
<1>4. IsFiniteSet(1 .. Len(prog))
  BY <1>3, FS_Interval
<1>5. \A s \in Scope : prog[s] \in Declaration
  BY <1>1, <1>3
<1>6. ASSUME NEW s \in Scope  PROVE Len(prog[s].ops) \in Nat /\ prog[s].excs \in Nat
  <2>1. prog[s].ops \in Seq(Operation) /\ prog[s].excs \in Nat
    BY <1>5 DEF Declaration
  <2> QED BY <2>1
<1>7. \A s \in Scope : Bosses(s) \subseteq Scope
  BY <1>2 DEF Bosses, Scope
<1>8. \A s, t \in Scope : t \in Bosses(s) => s \notin Bosses(t)
  BY <1>2 DEF Bosses, Scope
<1> QED BY <1>3, <1>4, <1>6, <1>7, <1>8

(* Scopes are numbered backwards in the matrix, each once.                 *)
LEMMA RequestAtFacts ==
  ASSUME prog \in Programs
  PROVE  /\ \A i \in 1 .. Len(prog) : RequestAt(i) \in Scope
         /\ \A s \in Scope : RequestAt(s) \in 1 .. Len(prog) /\ RequestAt(RequestAt(s)) = s
BY ProgramFacts DEF RequestAt

(* A range begins behind the numbers it must not meet.                     *)
LEMMA BehindAll ==
  ASSUME prog \in Programs, NEW s \in Scope, NEW start \in Nat,
         NEW next \in [Scope -> Nat \cup {UNKNOWN}]
  PROVE  /\ Behind(s, start, next) \in Nat
         /\ \A i \in Scope \ {s} : related[s][i] \in {SLAVE, CROSS} => next[i] <= Behind(s, start, next)
<1> DEFINE R == {i \in Scope \ {s} : related[s][i] \in {SLAVE, CROSS}}
           V == {next[i] : i \in R}
<1>1. IsFiniteSet(R)
  <2>1. R \in SUBSET Scope /\ IsFiniteSet(Scope)
    BY ProgramFacts
  <2> HIDE DEF R
  <2> QED BY <2>1, FS_Subset
<1>2. IsFiniteSet(V)
  <2> HIDE DEF R
  <2> QED BY <1>1, FiniteValues
<1>3. V \subseteq Int
  BY DEF UNKNOWN
<1>4. IsFiniteSet({start} \cup V) /\ {start} \cup V \in SUBSET Int /\ {start} \cup V # {}
  <2>1. {start} \cup V = V \cup {start}
    OBVIOUS
  <2>2. IsFiniteSet(V \cup {start})
    <3> HIDE DEF V
    <3> QED BY <1>2, FS_AddElement
  <2> QED BY <2>1, <2>2, <1>3
<1>5. Max({start} \cup V) \in {start} \cup V /\ \A y \in {start} \cup V : y <= Max({start} \cup V)
  <2> HIDE DEF V
  <2> QED BY <1>4, MaxExists
<1>6. Behind(s, start, next) = Max({start} \cup V)
  BY DEF Behind
<1>7. Max({start} \cup V) \in Nat
  <2>1. start <= Max({start} \cup V) /\ Max({start} \cup V) \in Int
    BY <1>5, <1>4
  <2> HIDE DEF V
  <2> QED BY <2>1
<1>8. \A i \in R : next[i] <= Max({start} \cup V)
  BY <1>5
<1> QED BY <1>6, <1>7, <1>8

-----------------------------------------------------------------------------
(* The inductive invariant                                                 *)

(* The constraints of the scopes that have claimed their numbers.          *)
ClaimInv ==
  /\ constraints = UNION {Bosses(s) \X {s} : s \in 1 .. claimed}
  /\ phase # "claim" => claimed = Len(prog)

(* The matrix is symmetric but for masters and slaves, and holds the       *)
(* constraints as soon as they are established.                            *)
MatrixInv ==
  /\ \A i \in Scope : related[i][i] = MASTER
  /\ \A i, j \in Scope : i # j => /\ (related[i][j] = MASTER <=> related[j][i] = SLAVE)
                                  /\ (related[i][j] = CROSS <=> related[j][i] = CROSS)
  /\ phase = "claim" => \A i, j \in Scope : i # j => related[i][j] = UNRELATED
  /\ phase # "claim" => \A pair \in Below : related[pair[2]][pair[1]] = SLAVE

(* A pass that has changed nothing is at its start, so one that ends then  *)
(* has seen the matrix closed.                                             *)
Connected(i, j) == related[i][j] # UNRELATED

ClosureInv ==
  /\ stable => at = Start
  /\ phase \in {"count", "sort", "done", "assertion"} =>
       \A i, j, k \in Scope : Connected(i, j) /\ Connected(j, k) => Connected(i, k)

(* depends counts the masters without numbers.                             *)
Pending(s) == {m \in Masters(s) : nextfid[m] = UNKNOWN}

SortInv ==
  /\ phase \notin {"sort", "done", "assertion"} =>
       \A s \in Scope : nextfid[s] = UNKNOWN
  /\ \A s \in Scope : /\ (firstfid[s] = UNKNOWN <=> nextfid[s] = UNKNOWN)
                      /\ (firsteid[s] = UNKNOWN <=> nextfid[s] = UNKNOWN)
                      /\ (nexteid[s] = UNKNOWN <=> nextfid[s] = UNKNOWN)
  /\ phase \in {"sort", "done", "assertion"} =>
       \A s \in Scope : /\ depends[s] = Cardinality(Pending(s))
                        /\ nextfid[s] # UNKNOWN => depends[s] = 0

IDInv ==
  /\ prog \in Programs
  /\ TypeOK
  /\ ClaimInv
  /\ MatrixInv
  /\ ClosureInv
  /\ SortInv

-----------------------------------------------------------------------------
(* It holds in the beginning and is kept by every step                     *)

LEMMA Rigid ==
  ASSUME prog' = prog
  PROVE  /\ Scope' = Scope
         /\ Triples' = Triples
         /\ \A s : Bosses(s)' = Bosses(s)
         /\ Below' = Below
         /\ Apart' = Apart
BY DEF Scope, Triples, Bosses, Below, Apart

(* When all have claimed, the constraints are the pairs the code means.    *)
LEMMA AllClaimed ==
  ASSUME prog \in Programs, ClaimInv, claimed = Len(prog)
  PROVE  constraints = Below
BY ProgramFacts DEF ClaimInv, Below

LEMMA BelowFacts ==
  ASSUME prog \in Programs
  PROVE  /\ Below \subseteq Scope \X Scope
         /\ \A pair \in Below : pair[1] # pair[2] /\ <<pair[2], pair[1]>> \notin Below
BY ProgramFacts DEF Below

LEMMA InitID == Init => IDInv
<1> SUFFICES ASSUME Init  PROVE IDInv
  OBVIOUS
<1> USE DEF Init
<1>1. prog \in Programs
  OBVIOUS
<1>2. Len(prog) \in Nat /\ Scope = 1 .. Len(prog)
  BY <1>1, ProgramFacts
<1>3. TypeOK
  <2>1. /\ related \in [Scope -> [Scope -> Relation]]
        /\ depends \in [Scope -> 0 .. Len(prog)]
    BY <1>2 DEF Relation, UNKNOWN, MASTER, UNRELATED
  <2>2. \A f \in {firstfid, firsteid, nextfid, nexteid} : f \in [Scope -> Nat \cup {UNKNOWN}]
    OBVIOUS
  <2>3. claimed \in 0 .. Len(prog) /\ pos \in 1 .. Len(prog) + 1
    BY <1>2
  <2> QED BY <2>1, <2>2, <2>3 DEF TypeOK
<1>4. ClaimInv
  BY DEF ClaimInv
<1>5. MatrixInv
  BY DEF MatrixInv, MASTER, UNRELATED, SLAVE, CROSS
<1>6. ClosureInv
  BY DEF ClosureInv
<1>7. SortInv
  BY DEF SortInv
<1> QED BY <1>1, <1>3, <1>4, <1>5, <1>6, <1>7 DEF IDInv

LEMMA ClaimStep == IDInv /\ ClaimIDs => IDInv'
<1> SUFFICES ASSUME IDInv, ClaimIDs  PROVE IDInv'
  OBVIOUS
<1>1. prog \in Programs /\ prog' = prog
  BY DEF IDInv, ClaimIDs
<1>2. Len(prog) \in Nat /\ Scope = 1 .. Len(prog) /\ \A s \in Scope : Bosses(s) \subseteq Scope
  BY <1>1, ProgramFacts
<1>3. TypeOK'
  <2>1. claimed' \in 0 .. Len(prog) /\ claimed + 1 \in Scope
    BY <1>2 DEF IDInv, TypeOK, ClaimIDs
  <2>2. constraints' \subseteq Scope \X Scope
    BY <2>1, <1>2 DEF IDInv, TypeOK, ClaimIDs
  <2> QED BY <2>1, <2>2, <1>1, Rigid DEF IDInv, TypeOK, ClaimIDs, closure, sorting, numbers
<1>4. ClaimInv'
  <2>1. 1 .. claimed' = (1 .. claimed) \cup {claimed + 1}
    BY <1>2 DEF IDInv, TypeOK, ClaimIDs
  <2>2. constraints' = (UNION {Bosses(s) \X {s} : s \in 1 .. claimed}) \cup (Bosses(claimed + 1) \X {claimed + 1})
    BY DEF IDInv, ClaimInv, ClaimIDs
  <2>3. constraints' = UNION {Bosses(s) \X {s} : s \in 1 .. claimed'}
    BY <2>1, <2>2
  <2>4. \A s : Bosses(s)' = Bosses(s)
    BY <1>1, Rigid
  <2> QED BY <2>3, <2>4 DEF ClaimInv, ClaimIDs
<1>5. MatrixInv'
  BY <1>1, Rigid DEF IDInv, MatrixInv, ClaimIDs, closure
<1>6. ClosureInv'
  BY <1>1, Rigid DEF IDInv, ClosureInv, ClaimIDs, closure, Connected
<1>7. SortInv'
  BY <1>1, Rigid DEF IDInv, SortInv, ClaimIDs, numbers
<1> QED BY <1>1, <1>3, <1>4, <1>5, <1>6, <1>7 DEF IDInv

LEMMA EstablishStep == IDInv /\ EstablishConstraints => IDInv'
<1> SUFFICES ASSUME IDInv, EstablishConstraints  PROVE IDInv'
  OBVIOUS
<1>1. prog \in Programs /\ prog' = prog /\ constraints' = constraints /\ claimed' = claimed
  BY DEF IDInv, EstablishConstraints, claims
<1>2. constraints = Below
  BY <1>1, AllClaimed DEF IDInv, EstablishConstraints
<1>3. Scope' = Scope /\ Below' = Below /\ Triples' = Triples
  BY <1>1, Rigid
<1>4. \A i, j \in Scope : related'[i][j] = Explicit(i, j)
  BY DEF EstablishConstraints
<1>5. TypeOK'
  <2>1. \A i, j \in Scope : Explicit(i, j) \in Relation
    BY DEF Explicit, IDInv, TypeOK, Relation
  <2>2. related' \in [Scope -> [Scope -> Relation]]
    BY <2>1 DEF EstablishConstraints
  <2> QED BY <2>2, <1>1, <1>3 DEF IDInv, TypeOK, EstablishConstraints, claims, sorting, numbers
<1>6. ClaimInv'
  BY <1>1, Rigid DEF IDInv, ClaimInv, EstablishConstraints
<1>7. MatrixInv'
  <2>1. \A i, j \in Scope : related[i][j] = IF i = j THEN MASTER ELSE UNRELATED
    BY DEF IDInv, MatrixInv, EstablishConstraints
  <2>2. \A i, j \in Scope : related'[i][j] = IF <<i, j>> \in Below THEN MASTER
                                           ELSE IF <<j, i>> \in Below THEN SLAVE
                                           ELSE IF i = j THEN MASTER ELSE UNRELATED
    BY <2>1, <1>2, <1>4, ZenonT(60) DEF Explicit
  <2>3. \A i, j \in Scope : <<i, j>> \in Below => i # j /\ <<j, i>> \notin Below
    BY <1>1, BelowFacts
  <2>4. \A i \in Scope : related'[i][i] = MASTER
    BY <2>2, <2>3
  <2>5. \A i, j \in Scope : i # j => /\ (related'[i][j] = MASTER <=> related'[j][i] = SLAVE)
                                     /\ (related'[i][j] = CROSS <=> related'[j][i] = CROSS)
    BY <2>2, <2>3 DEF MASTER, SLAVE, CROSS, UNRELATED
  <2>6. ASSUME NEW pair \in Below  PROVE related'[pair[2]][pair[1]] = SLAVE
    <3>1. PICK i, j \in Scope : pair = <<i, j>> /\ <<j, i>> \notin Below
      BY <1>1, BelowFacts
    <3> QED BY <3>1, <2>2
  <2>7. phase' = "masters"
    BY DEF EstablishConstraints
  <2> QED BY <2>4, <2>5, <2>6, <2>7, <1>3 DEF MatrixInv
<1>8. ClosureInv'
  BY DEF IDInv, ClosureInv, EstablishConstraints
<1>9. SortInv'
  BY <1>3 DEF IDInv, SortInv, EstablishConstraints, numbers
<1> QED BY <1>1, <1>5, <1>6, <1>7, <1>8, <1>9 DEF IDInv

(* Setting a pair of entries that were unrelated keeps the matrix          *)
(* symmetric, and every entry that was related.                            *)
Pair(i, j, a, b) == (i = a /\ j = b) \/ (i = b /\ j = a)

LEMMA SetEntries ==
  ASSUME prog \in Programs, TypeOK, MatrixInv, NEW a \in Scope, NEW b \in Scope,
         related[a][b] = UNRELATED,
         \A i, j \in Scope : ~Pair(i, j, a, b) => related'[i][j] = related[i][j],
         \/ related'[a][b] = MASTER /\ related'[b][a] = SLAVE
         \/ related'[a][b] = CROSS /\ related'[b][a] = CROSS
  PROVE  /\ \A i \in Scope : related'[i][i] = MASTER
         /\ \A i, j \in Scope : i # j => /\ (related'[i][j] = MASTER <=> related'[j][i] = SLAVE)
                                         /\ (related'[i][j] = CROSS <=> related'[j][i] = CROSS)
         /\ \A i, j \in Scope : related[i][j] # UNRELATED => related'[i][j] = related[i][j]
<1>1. related \in [Scope -> [Scope -> Relation]]
  BY DEF TypeOK
<1>2. a # b
  BY DEF MatrixInv, MASTER, UNRELATED
<1>3. related[b][a] = UNRELATED
  BY <1>1, <1>2 DEF MatrixInv, Relation, MASTER, SLAVE, CROSS, UNRELATED
<1>4. \A i \in Scope : related'[i][i] = MASTER
  BY <1>2 DEF MatrixInv, Pair
<1>5. ASSUME NEW i \in Scope, NEW j \in Scope, i # j
      PROVE  /\ (related'[i][j] = MASTER <=> related'[j][i] = SLAVE)
             /\ (related'[i][j] = CROSS <=> related'[j][i] = CROSS)
  <2>1. CASE Pair(i, j, a, b)
    BY <2>1 DEF Pair, MASTER, SLAVE, CROSS
  <2>2. CASE ~Pair(i, j, a, b)
    <3>1. related'[i][j] = related[i][j] /\ related'[j][i] = related[j][i]
      BY <2>2 DEF Pair
    <3>2. /\ (related[i][j] = MASTER <=> related[j][i] = SLAVE)
          /\ (related[i][j] = CROSS <=> related[j][i] = CROSS)
      BY <1>5 DEF MatrixInv
    <3> QED BY <3>1, <3>2, Zenon
  <2> QED BY <2>1, <2>2
<1>6. \A i, j \in Scope : related[i][j] # UNRELATED => related'[i][j] = related[i][j]
  <2>1. \A i, j \in Scope : related[i][j] # UNRELATED => ~Pair(i, j, a, b)
    BY <1>3 DEF Pair
  <2> QED BY <2>1
<1> QED BY <1>4, <1>5, <1>6

LEMMA ExtendStep ==
  ASSUME IDInv, phase \in {"masters", "cross"}, NEW found \in SUBSET Triples,
         \A t \in found : Related(t, 1, 3) = UNRELATED,
         NEW r, NEW opposite, <<r, opposite>> \in {<<MASTER, SLAVE>>, <<CROSS, CROSS>>},
         Extend(found, r, opposite), UNCHANGED <<claims, sorting, numbers>>
  PROVE  IDInv'
<1>1. /\ prog \in Programs /\ prog' = prog /\ claimed' = claimed /\ constraints' = constraints
      /\ phase' = phase /\ stable' = FALSE
  BY DEF IDInv, Extend, claims
<1>2. Scope' = Scope /\ Below' = Below /\ Triples' = Triples
  BY <1>1, Rigid
<1>3. PICK t \in found : /\ related' = [related EXCEPT ![RequestAt(t[1])][RequestAt(t[3])] = r,
                                                     ![RequestAt(t[3])][RequestAt(t[1])] = opposite]
                         /\ at' = t
  BY DEF Extend
<1> DEFINE a == RequestAt(t[1])
           b == RequestAt(t[3])
<1>4. a \in Scope /\ b \in Scope /\ related[a][b] = UNRELATED
  <2>1. t[1] \in 1 .. Len(prog) /\ t[3] \in 1 .. Len(prog)
    BY DEF Triples
  <2> QED BY <2>1, <1>1, RequestAtFacts DEF Related
<1>5. related' = [related EXCEPT ![a][b] = r, ![b][a] = opposite]
  BY <1>3
<1> HIDE DEF a, b
<1>6. /\ related' \in [Scope -> [Scope -> Relation]]
      /\ \A i \in Scope : related'[i][i] = MASTER
      /\ \A i, j \in Scope : i # j => /\ (related'[i][j] = MASTER <=> related'[j][i] = SLAVE)
                                      /\ (related'[i][j] = CROSS <=> related'[j][i] = CROSS)
      /\ \A i, j \in Scope : related[i][j] # UNRELATED => related'[i][j] = related[i][j]
  <2>1. TypeOK /\ MatrixInv /\ related \in [Scope -> [Scope -> Relation]]
    BY DEF IDInv, TypeOK
  <2>2. a # b
    BY <2>1, <1>4 DEF MatrixInv, MASTER, UNRELATED
  <2>3. r \in Relation /\ opposite \in Relation
    BY DEF Relation
  <2>4. \A i, j \in Scope : ~Pair(i, j, a, b) => related'[i][j] = related[i][j]
    <3>1. \A i, j \in Scope : ~(i = a /\ j = b) /\ ~(i = b /\ j = a) => related'[i][j] = related[i][j]
      BY <2>1, <2>2, <1>4, <1>5
    <3> QED BY <3>1 DEF Pair
  <2>5. related'[a][b] = r /\ related'[b][a] = opposite
    BY <2>1, <2>2, <1>4, <1>5
  <2>6. related' \in [Scope -> [Scope -> Relation]]
    BY <2>1, <2>3, <1>4, <1>5
  <2>7. \/ related'[a][b] = MASTER /\ related'[b][a] = SLAVE
        \/ related'[a][b] = CROSS /\ related'[b][a] = CROSS
    BY <2>5
  <2>8. prog \in Programs /\ a \in Scope /\ b \in Scope /\ related[a][b] = UNRELATED
    BY <1>1, <1>4
  <2>9. /\ \A i \in Scope : related'[i][i] = MASTER
        /\ \A i, j \in Scope : i # j => /\ (related'[i][j] = MASTER <=> related'[j][i] = SLAVE)
                                        /\ (related'[i][j] = CROSS <=> related'[j][i] = CROSS)
        /\ \A i, j \in Scope : related[i][j] # UNRELATED => related'[i][j] = related[i][j]
    BY ONLY <2>1, <2>4, <2>7, <2>8, SetEntries
  <2> QED BY <2>6, <2>9
<1>7. TypeOK'
  BY <1>1, <1>2, <1>3, <1>6 DEF IDInv, TypeOK, sorting, numbers
<1>8. ClaimInv'
  BY <1>1, Rigid DEF IDInv, ClaimInv
<1>9. MatrixInv'
  <2>1. ASSUME NEW pair \in Below  PROVE related'[pair[2]][pair[1]] = SLAVE
    <3>1. PICK i, j \in Scope : pair = <<i, j>>
      BY <1>1, BelowFacts
    <3>2. related[j][i] = SLAVE
      BY <3>1 DEF IDInv, MatrixInv
    <3> QED BY <3>1, <3>2, <1>6 DEF SLAVE, UNRELATED
  <2> QED BY <2>1, <1>1, <1>2, <1>6 DEF MatrixInv
<1>10. ClosureInv'
  BY <1>1 DEF ClosureInv
<1>11. SortInv'
  BY <1>1, <1>2 DEF IDInv, SortInv, numbers
<1> QED BY <1>1, <1>7, <1>8, <1>9, <1>10, <1>11 DEF IDInv

(* When the second loop ends the matrix connects whatever is connected     *)
(* over a third scope.                                                     *)
LEMMA ConnectedInTheEnd ==
  ASSUME prog \in Programs, at = Start, Connecting = {},
         NEW i \in Scope, NEW j \in Scope, NEW k \in Scope, Connected(i, j), Connected(j, k)
  PROVE  Connected(i, k)
<1> DEFINE t == <<RequestAt(i), RequestAt(j), RequestAt(k)>>
<1>1. /\ RequestAt(i) \in 1 .. Len(prog) /\ RequestAt(j) \in 1 .. Len(prog)
      /\ RequestAt(k) \in 1 .. Len(prog)
      /\ RequestAt(t[1]) = i /\ RequestAt(t[2]) = j /\ RequestAt(t[3]) = k
  BY RequestAtFacts
<1>2. t \in Triples /\ t[1] \in Nat /\ t[1] > 0
  BY <1>1, ProgramFacts DEF Triples
<1>3. Later(t, at)
  BY <1>2 DEF Later, Start
<1>4. Related(t, 1, 2) = related[i][j] /\ Related(t, 2, 3) = related[j][k] /\ Related(t, 1, 3) = related[i][k]
  BY <1>1 DEF Related
<1> HIDE DEF t
<1>5. t \notin Connecting
  OBVIOUS
<1> QED BY <1>2, <1>3, <1>4, <1>5 DEF Connecting, Connected

LEMMA EndPassStep ==
  ASSUME IDInv, NEW next,
         \/ phase = "masters" /\ next = "cross"
         \/ phase = "cross" /\ next = "count" /\ Connecting = {},
         EndPass(next), UNCHANGED <<claims, sorting, numbers>>
  PROVE  IDInv'
<1>1. /\ prog \in Programs /\ prog' = prog /\ claimed' = claimed /\ constraints' = constraints
      /\ related' = related /\ at' = Start /\ stable' = TRUE /\ phase' \in {phase, next}
  BY DEF IDInv, EndPass, claims
<1>2. Scope' = Scope /\ Below' = Below /\ Triples' = Triples
  BY <1>1, Rigid
<1>3. TypeOK'
  BY <1>1, <1>2 DEF IDInv, TypeOK, sorting, numbers
<1>4. ClaimInv'
  BY <1>1, Rigid DEF IDInv, ClaimInv
<1>5. MatrixInv'
  BY <1>1, <1>2 DEF IDInv, MatrixInv
<1>6. ClosureInv'
  <2>1. CASE phase' = "count"
    <3>1. phase = "cross" /\ Connecting = {} /\ at = Start
      BY <2>1 DEF EndPass, IDInv, ClosureInv
    <3>2. \A i, j, k \in Scope : Connected(i, j) /\ Connected(j, k) => Connected(i, k)
      BY <3>1, <1>1, ConnectedInTheEnd
    <3> QED BY <3>2, <1>1, <1>2 DEF ClosureInv, Connected
  <2>2. CASE phase' # "count"
    BY <2>2, <1>1 DEF ClosureInv
  <2> QED BY <2>1, <2>2
<1>7. SortInv'
  BY <1>1, <1>2 DEF IDInv, SortInv, numbers
<1> QED BY <1>1, <1>3, <1>4, <1>5, <1>6, <1>7 DEF IDInv

LEMMA InheritStep == IDInv /\ InheritMasters => IDInv'
<1> SUFFICES ASSUME IDInv, InheritMasters  PROVE IDInv'
  OBVIOUS
<1>1. phase = "masters" /\ UNCHANGED <<claims, sorting, numbers>>
  BY DEF InheritMasters
<1>2. CASE Inheriting # {}
  <2>1. Inheriting \in SUBSET Triples /\ \A t \in Inheriting : Related(t, 1, 3) = UNRELATED
    BY DEF Inheriting
  <2>2. Extend(Inheriting, MASTER, SLAVE)
    BY <1>2 DEF InheritMasters
  <2> QED BY <1>1, <2>1, <2>2, ExtendStep
<1>3. CASE Inheriting = {}
  <2>1. EndPass("cross")
    BY <1>3 DEF InheritMasters
  <2> QED BY <1>1, <2>1, EndPassStep
<1> QED BY <1>2, <1>3

LEMMA CrossStep == IDInv /\ MarkCross => IDInv'
<1> SUFFICES ASSUME IDInv, MarkCross  PROVE IDInv'
  OBVIOUS
<1>1. phase = "cross" /\ UNCHANGED <<claims, sorting, numbers>>
  BY DEF MarkCross
<1>2. CASE Connecting # {}
  <2>1. Connecting \in SUBSET Triples /\ \A t \in Connecting : Related(t, 1, 3) = UNRELATED
    BY DEF Connecting
  <2>2. Extend(Connecting, CROSS, CROSS)
    BY <1>2 DEF MarkCross
  <2> QED BY <1>1, <2>1, <2>2, ExtendStep
<1>3. CASE Connecting = {}
  <2>1. EndPass("count")
    BY <1>3 DEF MarkCross
  <2> QED BY <1>1, <1>3, <2>1, EndPassStep
<1> QED BY <1>2, <1>3

(* No scope has more masters than there are scopes.                        *)
LEMMA CountType ==
  ASSUME prog \in Programs, NEW S \in SUBSET Scope
  PROVE  IsFiniteSet(S) /\ Cardinality(S) \in 0 .. Len(prog)
<1>1. IsFiniteSet(Scope) /\ Scope = 1 .. Len(prog) /\ Len(prog) \in Nat
  BY ProgramFacts
<1>2. Cardinality(Scope) = Len(prog)
  <2>1. 1 \in Int /\ Len(prog) \in Int
    BY <1>1
  <2>2. Cardinality(1 .. Len(prog)) = IF 1 > Len(prog) THEN 0 ELSE Len(prog) - 1 + 1
    BY ONLY <2>1, FS_Interval
  <2>3. (IF 1 > Len(prog) THEN 0 ELSE Len(prog) - 1 + 1) = Len(prog)
    BY <1>1
  <2> QED BY <2>2, <2>3, <1>1
<1>3. IsFiniteSet(S) /\ Cardinality(S) <= Cardinality(Scope)
  BY <1>1, FS_Subset
<1>4. Cardinality(S) \in Nat
  BY <1>3, FS_CardinalityType
<1> QED BY <1>1, <1>2, <1>3, <1>4

LEMMA CountStep == IDInv /\ CountDependencies => IDInv'
<1> SUFFICES ASSUME IDInv, CountDependencies  PROVE IDInv'
  OBVIOUS
<1>1. /\ prog \in Programs /\ prog' = prog /\ claimed' = claimed /\ constraints' = constraints
      /\ related' = related /\ at' = at /\ stable' = stable /\ phase = "count" /\ phase' = "sort"
      /\ UNCHANGED numbers
  BY DEF IDInv, CountDependencies, claims, closure
<1>2. Scope' = Scope /\ Below' = Below /\ Triples' = Triples
  BY <1>1, Rigid
<1>3. \A s \in Scope : depends'[s] = Cardinality(Masters(s)) /\ Cardinality(Masters(s)) \in 0 .. Len(prog)
  <2>1. \A s \in Scope : Masters(s) \in SUBSET Scope
    BY DEF Masters
  <2> QED BY <2>1, <1>1, CountType DEF CountDependencies
<1>4. TypeOK'
  <2>1. depends' \in [Scope -> 0 .. Len(prog)]
    BY <1>3 DEF CountDependencies
  <2> QED BY <2>1, <1>1, <1>2 DEF IDInv, TypeOK, CountDependencies, numbers
<1>5. ClaimInv'
  BY <1>1, Rigid DEF IDInv, ClaimInv
<1>6. MatrixInv'
  BY <1>1, <1>2 DEF IDInv, MatrixInv
<1>7. ClosureInv'
  BY <1>1, <1>2 DEF IDInv, ClosureInv, Connected
<1>8. SortInv'
  <2>1. \A s \in Scope : nextfid[s] = UNKNOWN
    BY <1>1 DEF IDInv, SortInv
  <2>2. \A s \in Scope : Pending(s)' = Masters(s)
    BY <2>1, <1>1, <1>2 DEF Pending, Masters, numbers
  <2>3. \A s \in Scope : nextfid'[s] = UNKNOWN /\ depends'[s] = Cardinality(Pending(s)')
    BY <2>1, <2>2, <1>1, <1>3 DEF numbers
  <2> QED BY <2>3, <1>1, <1>2 DEF IDInv, SortInv, numbers
<1> QED BY <1>1, <1>4, <1>5, <1>6, <1>7, <1>8 DEF IDInv

(* A pass over the scopes that leaves the numbers alone.                   *)
LEMMA PassOn ==
  ASSUME IDInv, phase = "sort", phase' \in {"sort", "done", "assertion"},
         pos' \in 1 .. Len(prog) + 1, progress' \in BOOLEAN, done' \in BOOLEAN,
         UNCHANGED <<claims, closure, depends, numbers>>
  PROVE  IDInv'
<1>1. /\ prog \in Programs /\ prog' = prog /\ claimed' = claimed /\ constraints' = constraints
      /\ related' = related /\ at' = at /\ stable' = stable /\ depends' = depends
      /\ firstfid' = firstfid /\ firsteid' = firsteid /\ nextfid' = nextfid /\ nexteid' = nexteid
  BY DEF IDInv, claims, closure, numbers
<1>2. Scope' = Scope /\ Below' = Below /\ Triples' = Triples
  BY <1>1, Rigid
<1>3. TypeOK'
  BY <1>1, <1>2 DEF IDInv, TypeOK
<1>4. ClaimInv'
  BY <1>1, Rigid DEF IDInv, ClaimInv
<1>5. MatrixInv'
  BY <1>1, <1>2 DEF IDInv, MatrixInv
<1>6. ClosureInv'
  BY <1>1, <1>2 DEF IDInv, ClosureInv, Connected
<1>7. SortInv'
  BY <1>1, <1>2 DEF IDInv, SortInv, Pending, Masters
<1> QED BY <1>1, <1>3, <1>4, <1>5, <1>6, <1>7 DEF IDInv

LEMMA SkipStep == IDInv /\ SkipScope => IDInv'
<1> SUFFICES ASSUME IDInv, SkipScope  PROVE IDInv'
  OBVIOUS
<1>1. prog \in Programs /\ Len(prog) \in Nat /\ pos \in 1 .. Len(prog) + 1 /\ done \in BOOLEAN /\ progress \in BOOLEAN
  BY ProgramFacts DEF IDInv, TypeOK
<1>2. /\ phase = "sort" /\ phase' = "sort" /\ pos' \in 1 .. Len(prog) + 1
      /\ progress' \in BOOLEAN /\ done' \in BOOLEAN
      /\ UNCHANGED <<claims, closure, depends, numbers>>
  BY <1>1 DEF SkipScope
<1> QED BY <1>2, PassOn

LEMMA EndSortingStep == IDInv /\ EndSortingPass => IDInv'
<1> SUFFICES ASSUME IDInv, EndSortingPass  PROVE IDInv'
  OBVIOUS
<1>1. prog \in Programs /\ Len(prog) \in Nat /\ done \in BOOLEAN /\ progress \in BOOLEAN
  BY ProgramFacts DEF IDInv, TypeOK
<1>3. phase' \in {"sort", "done", "assertion"}
  <2>1. CASE done
    BY <2>1 DEF EndSortingPass
  <2>2. CASE ~done
    BY <2>2, <1>1 DEF EndSortingPass
  <2> QED BY <2>1, <2>2
<1>2. /\ phase = "sort" /\ phase' \in {"sort", "done", "assertion"} /\ pos' \in 1 .. Len(prog) + 1
      /\ progress' \in BOOLEAN /\ done' \in BOOLEAN
      /\ UNCHANGED <<claims, closure, depends, numbers>>
  <2>1. /\ phase = "sort" /\ pos' = 1 /\ progress' = FALSE /\ done' = TRUE
        /\ UNCHANGED <<claims, closure, depends, numbers>>
    BY DEF EndSortingPass
  <2>2. pos' \in 1 .. Len(prog) + 1
    BY <2>1, <1>1
  <2>3. progress' \in BOOLEAN /\ done' \in BOOLEAN
    BY <2>1, Zenon
  <2> QED BY <2>1, <2>2, <2>3, <1>3, Zenon
<1> QED BY <1>2, PassOn

(* What is known of the scope that gets its numbers: all its masters have  *)
(* theirs, and none of its slaves has.                                     *)
LEMMA AssignedScope ==
  ASSUME IDInv, phase = "sort", NEW s \in Scope, Ready(s)
  PROVE  /\ nextfid[s] = UNKNOWN
         /\ Pending(s) = {}
         /\ MastersDone(s)
         /\ \A t \in Scope : nextfid[t] # UNKNOWN => Pending(t) = {}
         /\ \A t \in Scope : t # s /\ nextfid[t] # UNKNOWN => related[s][t] # MASTER
<1>1. prog \in Programs /\ \A t \in Scope : /\ depends[t] = Cardinality(Pending(t))
                                            /\ nextfid[t] # UNKNOWN => depends[t] = 0
  BY DEF IDInv, SortInv
<1>2. ASSUME NEW t \in Scope, depends[t] = 0  PROVE Pending(t) = {}
  <2>1. Pending(t) \in SUBSET Scope
    BY DEF Pending, Masters
  <2>2. IsFiniteSet(Pending(t)) /\ Cardinality(Pending(t)) = 0
    BY <2>1, <1>1, <1>2, CountType
  <2> QED BY <2>2, FS_EmptySet
<1>3. nextfid[s] = UNKNOWN /\ Pending(s) = {}
  BY <1>2 DEF Ready
<1>4. ASSUME NEW t \in Scope, nextfid[t] # UNKNOWN  PROVE Pending(t) = {}
  <2>1. depends[t] = 0
    BY <1>1, <1>4
  <2> QED BY <2>1, <1>2
<1>5. MastersDone(s)
  BY <1>3 DEF MastersDone, Pending, Masters
<1>6. ASSUME NEW t \in Scope, t # s, nextfid[t] # UNKNOWN, related[s][t] = MASTER  PROVE FALSE
  <2>1. related[t][s] = SLAVE
    BY <1>6 DEF IDInv, MatrixInv
  <2>2. s \in Pending(t)
    BY <2>1, <1>3 DEF Pending, Masters
  <2> QED BY <2>2, <1>4, <1>6
<1> QED BY <1>3, <1>4, <1>5, <1>6

(* The numbers a scope gets: a range of its own, behind those of the       *)
(* scopes it is connected to, for functions and for exceptions.            *)
LEMMA AssignFacts ==
  ASSUME IDInv, AssignIDs, NEW s, s = RequestAt(pos)
  PROVE  /\ s \in Scope /\ Ready(s) /\ phase = "sort" /\ phase' = "sort"
         /\ firstfid' = [firstfid EXCEPT ![s] = Behind(s, 0, nextfid)]
         /\ firsteid' = [firsteid EXCEPT ![s] = Behind(s, 1, nexteid)]
         /\ nextfid' = [nextfid EXCEPT ![s] = Behind(s, 0, nextfid) + Len(prog[s].ops)]
         /\ nexteid' = [nexteid EXCEPT ![s] = Behind(s, 1, nexteid) + prog[s].excs]
         /\ Behind(s, 0, nextfid) \in Nat /\ Behind(s, 1, nexteid) \in Nat
         /\ Behind(s, 0, nextfid) + Len(prog[s].ops) \in Nat
         /\ Behind(s, 1, nexteid) + prog[s].excs \in Nat
<1>1. /\ prog \in Programs
      /\ firstfid \in [Scope -> Nat \cup {UNKNOWN}] /\ nextfid \in [Scope -> Nat \cup {UNKNOWN}]
      /\ firsteid \in [Scope -> Nat \cup {UNKNOWN}] /\ nexteid \in [Scope -> Nat \cup {UNKNOWN}]
  BY DEF IDInv, TypeOK
<1>2. s \in Scope
  <2>1. pos \in 1 .. Len(prog)
    BY <1>1, ProgramFacts DEF IDInv, TypeOK, AssignIDs
  <2> QED BY <2>1, <1>1, RequestAtFacts
<1>3. phase = "sort" /\ Ready(s) /\ phase' = (IF MastersDone(s) THEN phase ELSE "assertion")
  BY DEF AssignIDs
<1>4. phase' = "sort"
  <2>1. MastersDone(s)
    BY <1>2, <1>3, AssignedScope
  <2> QED BY <2>1, <1>3
<1>5. /\ firstfid' = [firstfid EXCEPT ![s] = Behind(s, 0, nextfid)]
      /\ firsteid' = [firsteid EXCEPT ![s] = Behind(s, 1, nexteid)]
      /\ nextfid' = [nextfid EXCEPT ![s] = firstfid'[s] + Len(prog[s].ops)]
      /\ nexteid' = [nexteid EXCEPT ![s] = firsteid'[s] + prog[s].excs]
  BY DEF AssignIDs
<1>6. firstfid'[s] = Behind(s, 0, nextfid) /\ firsteid'[s] = Behind(s, 1, nexteid)
  BY <1>1, <1>2, <1>5
<1>7. Behind(s, 0, nextfid) \in Nat /\ Behind(s, 1, nexteid) \in Nat
  BY <1>1, <1>2, BehindAll
<1>8. Len(prog[s].ops) \in Nat /\ prog[s].excs \in Nat
  BY <1>1, <1>2, ProgramFacts
<1>9. /\ Behind(s, 0, nextfid) + Len(prog[s].ops) \in Nat
      /\ Behind(s, 1, nexteid) + prog[s].excs \in Nat
  <2>1. \A x, y \in Nat : x + y \in Nat
    OBVIOUS
  <2> QED BY <2>1, <1>7, <1>8, Zenon
<1> QED BY <1>2, <1>3, <1>4, <1>5, <1>6, <1>7, <1>9

(* Giving a scope its numbers takes it off the lists of its slaves.        *)
LEMMA PendingAfter ==
  ASSUME IDInv, phase = "sort", NEW s \in Scope, Ready(s), prog' = prog, related' = related,
         NEW n \in Nat, nextfid' = [nextfid EXCEPT ![s] = n], NEW t \in Scope
  PROVE  Pending(t)' = Pending(t) \ {s}
<1>1. Scope' = Scope
  BY Rigid
<1>2. nextfid \in [Scope -> Nat \cup {UNKNOWN}]
  BY DEF IDInv, TypeOK
<1>3. \A m \in Scope : nextfid'[m] = UNKNOWN <=> nextfid[m] = UNKNOWN /\ m # s
  BY <1>2 DEF UNKNOWN
<1>4. Masters(t)' = Masters(t) /\ Masters(t) \subseteq Scope
  BY <1>1 DEF Masters
<1> QED BY <1>3, <1>4 DEF Pending

LEMMA AssignStep == IDInv /\ AssignIDs => IDInv'
<1> SUFFICES ASSUME IDInv, AssignIDs  PROVE IDInv'
  OBVIOUS
<1> DEFINE s == RequestAt(pos)
<1>1. /\ prog \in Programs /\ prog' = prog /\ claimed' = claimed /\ constraints' = constraints
      /\ related' = related /\ at' = at /\ stable' = stable /\ done' = done
      /\ progress' = TRUE /\ pos' = pos + 1 /\ pos <= Len(prog)
      /\ depends' = [i \in Scope |->
              IF i # s /\ related[s][i] = MASTER THEN depends[i] - 1 ELSE depends[i]]
  BY DEF IDInv, AssignIDs, claims, closure
<1>2. Scope' = Scope /\ Below' = Below /\ Triples' = Triples
  BY <1>1, Rigid
<1>3. PICK f, e, nf, ne \in Nat :
        /\ s \in Scope /\ Ready(s) /\ phase = "sort" /\ phase' = "sort"
        /\ firstfid' = [firstfid EXCEPT ![s] = f]
        /\ firsteid' = [firsteid EXCEPT ![s] = e]
        /\ nextfid' = [nextfid EXCEPT ![s] = nf]
        /\ nexteid' = [nexteid EXCEPT ![s] = ne]
  <2> HIDE DEF s
  <2>1. s = RequestAt(pos)
    BY DEF s
  <2> QED BY <2>1, AssignFacts, SMTT(60)
<1> HIDE DEF s
<1>4. /\ \A m \in Scope : depends[m] = Cardinality(Pending(m))
      /\ \A m \in Scope : nextfid[m] # UNKNOWN => depends[m] = 0
  BY <1>3 DEF IDInv, SortInv
<1>5. ASSUME NEW t \in Scope
      PROVE  /\ depends'[t] = Cardinality(Pending(t)')
             /\ depends'[t] \in 0 .. Len(prog)
             /\ nextfid'[t] # UNKNOWN => depends'[t] = 0
  <2>1. Pending(t)' = Pending(t) \ {s}
    BY <1>1, <1>3, PendingAfter
  <2>2. Pending(t) \in SUBSET Scope /\ Pending(t)' \in SUBSET Scope
    BY <2>1 DEF Pending, Masters
  <2>3. IsFiniteSet(Pending(t)) /\ Cardinality(Pending(t)) \in 0 .. Len(prog)
        /\ Cardinality(Pending(t)') \in 0 .. Len(prog)
    BY <2>2, <1>1, CountType
  <2>4. Cardinality(Pending(t) \ {s}) = IF s \in Pending(t) THEN Cardinality(Pending(t)) - 1
                                        ELSE Cardinality(Pending(t))
    BY <2>3, FS_RemoveElement
  <2>5. s \in Pending(t) <=> t # s /\ related[s][t] = MASTER
    <3>1. nextfid[s] = UNKNOWN
      BY <1>3 DEF Ready
    <3>2. s \in Pending(t) <=> related[t][s] = SLAVE
      BY <3>1, <1>3 DEF Pending, Masters
    <3>3. CASE t = s
      <4>1. related[s][s] = MASTER
        BY <1>3 DEF IDInv, MatrixInv
      <4> QED BY <3>2, <3>3, <4>1 DEF MASTER, SLAVE
    <3>4. CASE t # s
      <4>1. related[s][t] = MASTER <=> related[t][s] = SLAVE
        BY <3>4, <1>3 DEF IDInv, MatrixInv
      <4> QED BY <3>2, <3>4, <4>1, Zenon
    <3> QED BY <3>3, <3>4
  <2>6. depends'[t] = IF t # s /\ related[s][t] = MASTER THEN depends[t] - 1 ELSE depends[t]
    BY <1>1
  <2>7. depends'[t] = Cardinality(Pending(t)')
    <3>1. CASE s \in Pending(t)
      BY <3>1, <2>1, <2>4, <2>5, <2>6, <1>4
    <3>2. CASE s \notin Pending(t)
      BY <3>2, <2>1, <2>4, <2>5, <2>6, <1>4
    <3> QED BY <3>1, <3>2
  <2>8. nextfid'[t] # UNKNOWN => depends'[t] = 0
    <3>1. t = s \/ nextfid'[t] = nextfid[t]
      BY <1>3 DEF IDInv, TypeOK
    <3>2. t = s \/ nextfid[t] # UNKNOWN => Pending(t) = {}
      BY <1>3, AssignedScope
    <3>3. Pending(t) = {} => Pending(t)' = {}
      BY <2>1
    <3>4. Cardinality({}) = 0
      BY FS_EmptySet
    <3> QED BY <3>1, <3>2, <3>3, <3>4, <2>7
  <2> QED BY <2>3, <2>7, <2>8
<1>6. /\ \A g \in {firstfid', firsteid', nextfid', nexteid'} : g \in [Scope -> Nat \cup {UNKNOWN}]
      /\ \A t \in Scope : /\ (firstfid'[t] = UNKNOWN <=> nextfid'[t] = UNKNOWN)
                           /\ (firsteid'[t] = UNKNOWN <=> nextfid'[t] = UNKNOWN)
                           /\ (nexteid'[t] = UNKNOWN <=> nextfid'[t] = UNKNOWN)
  <2>1. \A g \in {firstfid, firsteid, nextfid, nexteid} : g \in [Scope -> Nat \cup {UNKNOWN}]
    BY DEF IDInv, TypeOK
  <2>2. \A t \in Scope : /\ (firstfid[t] = UNKNOWN <=> nextfid[t] = UNKNOWN)
                         /\ (firsteid[t] = UNKNOWN <=> nextfid[t] = UNKNOWN)
                         /\ (nexteid[t] = UNKNOWN <=> nextfid[t] = UNKNOWN)
    BY DEF IDInv, SortInv
  <2>3. f # UNKNOWN /\ e # UNKNOWN /\ nf # UNKNOWN /\ ne # UNKNOWN
    BY DEF UNKNOWN
  <2>4. \A g \in {firstfid', firsteid', nextfid', nexteid'} : g \in [Scope -> Nat \cup {UNKNOWN}]
    BY <2>1, <1>3
  <2>5. ASSUME NEW t \in Scope
        PROVE  /\ (firstfid'[t] = UNKNOWN <=> nextfid'[t] = UNKNOWN)
               /\ (firsteid'[t] = UNKNOWN <=> nextfid'[t] = UNKNOWN)
               /\ (nexteid'[t] = UNKNOWN <=> nextfid'[t] = UNKNOWN)
    <3>1. CASE t = s
      BY <3>1, <2>1, <2>3, <1>3
    <3>2. CASE t # s
      <4>1. firstfid'[t] = firstfid[t] /\ firsteid'[t] = firsteid[t]
            /\ nextfid'[t] = nextfid[t] /\ nexteid'[t] = nexteid[t]
        BY <3>2, <2>1, <1>3
      <4> QED BY <4>1, <2>2, Zenon
    <3> QED BY <3>1, <3>2
  <2> QED BY <2>4, <2>5
<1>7. TypeOK'
  <2>1. depends' \in [Scope -> 0 .. Len(prog)]
    <3>1. depends' = [t \in Scope |-> depends'[t]]
      BY <1>1
    <3> QED BY <3>1, <1>5
  <2>2. pos' \in 1 .. Len(prog) + 1
    BY <1>1, ProgramFacts DEF IDInv, TypeOK
  <2>3. /\ phase' \in {"claim", "masters", "cross", "count", "sort", "done", "assertion"}
        /\ claimed \in 0 .. Len(prog) /\ constraints \subseteq Scope \X Scope
        /\ related \in [Scope -> [Scope -> Relation]] /\ at \in Triples \cup {Start}
    BY <1>3 DEF IDInv, TypeOK
  <2>4. {stable', progress', done'} \subseteq BOOLEAN
    <3>1. stable \in BOOLEAN /\ done \in BOOLEAN
      BY DEF IDInv, TypeOK
    <3> QED BY <3>1, <1>1, Zenon
  <2> QED BY <2>1, <2>2, <2>3, <2>4, <1>1, <1>2, <1>6 DEF TypeOK
<1>8. ClaimInv'
  BY <1>1, <1>3, Rigid DEF IDInv, ClaimInv
<1>9. MatrixInv'
  BY <1>1, <1>2, <1>3 DEF IDInv, MatrixInv
<1>10. ClosureInv'
  BY <1>1, <1>2, <1>3 DEF IDInv, ClosureInv, Connected
<1>11. SortInv'
  BY <1>2, <1>3, <1>5, <1>6 DEF SortInv
<1> QED BY <1>1, <1>7, <1>8, <1>9, <1>10, <1>11 DEF IDInv

LEMMA NextID == IDInv /\ [Next]_vars => IDInv'
<1> SUFFICES ASSUME IDInv, [Next]_vars  PROVE IDInv'
  OBVIOUS
<1>1. CASE ClaimIDs
  BY <1>1, ClaimStep
<1>2. CASE EstablishConstraints
  BY <1>2, EstablishStep
<1>3. CASE InheritMasters
  BY <1>3, InheritStep
<1>4. CASE MarkCross
  BY <1>4, CrossStep
<1>5. CASE CountDependencies
  BY <1>5, CountStep
<1>6. CASE AssignIDs
  BY <1>6, AssignStep
<1>7. CASE SkipScope
  BY <1>7, SkipStep
<1>8. CASE EndSortingPass
  BY <1>8, EndSortingStep
<1>9. CASE UNCHANGED vars
  <2>1. /\ UNCHANGED <<phase, prog, claimed, constraints, related, at, stable>>
        /\ UNCHANGED <<depends, pos, progress, done, firstfid, firsteid, nextfid, nexteid>>
    BY <1>9 DEF vars, claims, closure, sorting, numbers
  <2>2. Scope' = Scope /\ Below' = Below /\ Triples' = Triples
    BY <2>1, Rigid
  <2>3. TypeOK'
    BY <2>1, <2>2 DEF IDInv, TypeOK
  <2>4. ClaimInv'
    BY <2>1, Rigid DEF IDInv, ClaimInv
  <2>5. MatrixInv'
    BY <2>1, <2>2 DEF IDInv, MatrixInv
  <2>6. ClosureInv'
    BY <2>1, <2>2 DEF IDInv, ClosureInv, Connected
  <2>7. SortInv'
    BY <2>1, <2>2 DEF IDInv, SortInv, Pending, Masters
  <2> QED BY <2>1, <2>3, <2>4, <2>5, <2>6, <2>7 DEF IDInv
<1> QED BY <1>1, <1>2, <1>3, <1>4, <1>5, <1>6, <1>7, <1>8, <1>9
        DEF Next, Step, Close, Sort, Finished

(* Every variable of the assignment has its type, for every program:       *)
(* be/source.cc, commit.                                                   *)
THEOREM IDTypeCorrect == Spec => []TypeOK
<1>1. IDInv => TypeOK
  BY DEF IDInv
<1> QED BY InitID, NextID, <1>1, PTL DEF Spec

-----------------------------------------------------------------------------
(* The assignment implements IDAllocation                                  *)

(* Scopes that must be kept apart are connected in the finished matrix:    *)
(* what a scope is connected to is closed under the constraints.           *)
LEMMA ApartConnected ==
  ASSUME IDInv, phase = "sort", NEW s, NEW t, <<s, t>> \in Apart
  PROVE  s \in Scope /\ t \in Scope /\ s # t /\ Connected(s, t)
<1>1. prog \in Programs
  BY DEF IDInv
<1>2. s \in Scope /\ t \in Scope /\ s # t
  BY DEF Apart
<1> DEFINE C == {u \in Scope : Connected(s, u)}
<1>3. \A i, j, k \in Scope : Connected(i, j) /\ Connected(j, k) => Connected(i, k)
  BY DEF IDInv, ClosureInv
<1>4. ASSUME NEW pair \in Below  PROVE pair[1] \in C <=> pair[2] \in C
  <2>1. PICK m, u \in Scope : pair = <<m, u>> /\ m # u
    BY <1>1, BelowFacts
  <2>2. related[u][m] = SLAVE
    BY <2>1 DEF IDInv, MatrixInv
  <2>3. related[m][u] = MASTER
    BY <2>1, <2>2 DEF IDInv, MatrixInv
  <2>4. Connected(m, u) /\ Connected(u, m)
    BY <2>2, <2>3 DEF Connected, MASTER, SLAVE, UNRELATED
  <2>5. Connected(s, m) <=> Connected(s, u)
    BY <2>1, <2>4, <1>2, <1>3
  <2> QED BY <2>1, <2>5
<1>5. s \in C
  BY <1>2 DEF IDInv, MatrixInv, Connected, MASTER, UNRELATED
<1>6. C \in SUBSET Scope
  OBVIOUS
<1>7. t \in C
  <2> HIDE DEF C
  <2>1. C \in {D \in SUBSET Scope : \A pair \in Below : pair[1] \in D <=> pair[2] \in D}
    BY <1>4, <1>6
  <2>2. \A D \in {D \in SUBSET Scope : \A pair \in Below : pair[1] \in D <=> pair[2] \in D} :
          s \in D => t \in D
    BY DEF Apart
  <2> QED BY <2>1, <2>2, <1>5
<1> QED BY <1>2, <1>7

(* The next range lies behind those of the scope's masters, which have     *)
(* them, and of all scopes it must be kept apart from.                     *)
LEMMA RangesApart ==
  ASSUME IDInv, phase = "sort", NEW s \in Scope, Ready(s), NEW start \in Nat,
         NEW next \in [Scope -> Nat \cup {UNKNOWN}],
         \A t \in Scope : next[t] = UNKNOWN <=> nextfid[t] = UNKNOWN
  PROVE  /\ \A t \in Scope : <<t, s>> \in Below =>
                next[t] # UNKNOWN /\ next[t] <= Behind(s, start, next)
         /\ \A t \in Scope : <<t, s>> \in Apart /\ next[t] # UNKNOWN =>
                next[t] <= Behind(s, start, next)
<1>1. prog \in Programs
  BY DEF IDInv
<1>2. \A t \in Scope \ {s} : related[s][t] \in {SLAVE, CROSS} => next[t] <= Behind(s, start, next)
  BY <1>1, BehindAll
<1>3. ASSUME NEW t \in Scope, <<t, s>> \in Below
      PROVE  next[t] # UNKNOWN /\ next[t] <= Behind(s, start, next)
  <2>1. t # s
    BY <1>1, <1>3, BelowFacts
  <2>2. related[s][t] = SLAVE
    BY <1>3 DEF IDInv, MatrixInv
  <2>3. nextfid[t] # UNKNOWN
    BY <2>1, <2>2, AssignedScope DEF MastersDone
  <2> QED BY <2>1, <2>2, <2>3, <1>2
<1>4. ASSUME NEW t \in Scope, <<t, s>> \in Apart, next[t] # UNKNOWN
      PROVE  next[t] <= Behind(s, start, next)
  <2>1. t # s /\ Connected(t, s)
    BY <1>4, ApartConnected
  <2>2. related[s][t] # MASTER
    BY <1>4, <2>1, AssignedScope
  <2>3. related[t][s] # SLAVE
    BY <2>1, <2>2 DEF IDInv, MatrixInv
  <2>4. related[t][s] \in {MASTER, CROSS}
    BY <2>1, <2>3 DEF IDInv, TypeOK, Relation, Connected
  <2>5. related[s][t] \in {SLAVE, CROSS}
    BY <2>1, <2>4 DEF IDInv, MatrixInv
  <2> QED BY <2>1, <2>5, <1>2
<1> QED BY <1>3, <1>4

(* A step of the code that assigns numbers assigns a range, and the others *)
(* leave the ranges alone.                                                 *)
LEMMA FunctionStep ==
  IDInv /\ [Next]_vars => [FunctionIDs!Next]_<<firstfid, nextfid>>
<1> SUFFICES ASSUME IDInv, [Next]_vars
             PROVE  [FunctionIDs!Next]_<<firstfid, nextfid>>
  OBVIOUS
<1>1. CASE AssignIDs
  <2> DEFINE s == RequestAt(pos)
             f == Behind(s, 0, nextfid)
  <2>1. /\ s \in Scope /\ Ready(s) /\ phase = "sort"
        /\ firstfid' = [firstfid EXCEPT ![s] = f]
        /\ nextfid' = [nextfid EXCEPT ![s] = f + Len(prog[s].ops)]
        /\ f \in Nat
    <3> HIDE DEF s
    <3>1. s = RequestAt(pos)
      BY DEF s
    <3> QED BY <3>1, <1>1, AssignFacts
  <2>2. /\ firstfid \in [Scope -> Nat \cup {UNKNOWN}] /\ nextfid \in [Scope -> Nat \cup {UNKNOWN}]
        /\ \A t \in Scope : firstfid[t] = UNKNOWN <=> nextfid[t] = UNKNOWN
    BY DEF IDInv, TypeOK, SortInv
  <2>3. /\ \A t \in Scope : <<t, s>> \in Below => nextfid[t] # UNKNOWN /\ nextfid[t] <= f
        /\ \A t \in Scope : <<t, s>> \in Apart /\ nextfid[t] # UNKNOWN => nextfid[t] <= f
    <3> HIDE DEF s
    <3>1. 0 \in Nat
      OBVIOUS
    <3> QED BY <3>1, <2>1, <2>2, RangesApart
  <2>4. prog' = prog
    BY <1>1 DEF AssignIDs, claims
  <2>5. Scope' = Scope /\ Apart' = Apart /\ Below' = Below
    BY <2>4, Rigid
  <2> HIDE DEF s, f
  <2>6. firstfid'[s] = f /\ nextfid'[s] = f + Len(prog[s].ops)
    BY <2>1, <2>2
  <2>7. firstfid[s] = UNKNOWN
    BY <2>1, <2>2 DEF Ready
  <2>8. FunctionIDs!Assign(s)
    <3>1. DOMAIN [x \in Scope |-> Len(prog[x].ops)] = Scope
      OBVIOUS
    <3>2. [x \in Scope |-> Len(prog[x].ops)][s] = Len(prog[s].ops)
      BY <2>1
    <3>3. [x \in Scope |-> Len(prog[x].ops)]' = [x \in Scope |-> Len(prog[x].ops)]
      BY <2>4, <2>5
    <3>4. ~FunctionIDs!Assigned(s) /\ firstfid'[s] \in Nat
      BY <2>1, <2>6, <2>7 DEF FunctionIDs!Assigned, FunctionIDs!UNKNOWN, UNKNOWN
    <3>5. \A t \in Scope : <<t, s>> \in Below => FunctionIDs!Assigned(t) /\ nextfid[t] <= firstfid'[s]
      BY <2>2, <2>3, <2>6 DEF FunctionIDs!Assigned, FunctionIDs!UNKNOWN, UNKNOWN
    <3>6. \A t \in Scope : <<t, s>> \in Apart /\ FunctionIDs!Assigned(t)
                          => nextfid[t] <= firstfid'[s] \/ nextfid'[s] <= firstfid[t]
      BY <2>2, <2>3, <2>6 DEF FunctionIDs!Assigned, FunctionIDs!UNKNOWN, UNKNOWN
    <3>7. firstfid' = [firstfid EXCEPT ![s] = firstfid'[s]] /\ nextfid' = [nextfid EXCEPT ![s] = nextfid'[s]]
      BY <2>1, <2>6
    <3>8. UNCHANGED <<[x \in Scope |-> Len(prog[x].ops)], Apart, Below>>
      BY <3>3, <2>5
    <3> QED BY <3>1, <3>2, <3>4, <3>5, <3>6, <3>7, <3>8, <2>6 DEF FunctionIDs!Assign
  <2> QED BY <2>1, <2>8 DEF FunctionIDs!Next
<1>2. CASE ~AssignIDs
  <2>1. UNCHANGED <<firstfid, nextfid>>
    BY <1>2 DEF Next, Step, Close, Sort, Finished, ClaimIDs, EstablishConstraints, InheritMasters,
       MarkCross, CountDependencies, SkipScope, EndSortingPass, numbers, vars
  <2> QED BY <2>1
<1> QED BY <1>1, <1>2

(* Function numbers: the code's matrix, closures and sorting implement     *)
(* IDAllocation for every program (be/source.cc, commit).                  *)
THEOREM FunctionsAllocated == Spec => FunctionNumbers
<1>1. Init => FunctionIDs!Init
  BY DEF Init, FunctionIDs!Init, FunctionIDs!UNKNOWN, UNKNOWN
<1>2. IDInv /\ [Next]_vars => [FunctionIDs!Next]_(FunctionIDs!ranges)
  BY FunctionStep DEF FunctionIDs!ranges
<1> QED BY InitID, NextID, <1>1, <1>2, PTL DEF Spec, FunctionNumbers, FunctionIDs!Spec

(* The same for exceptions.                                                *)
LEMMA ExceptionStep ==
  IDInv /\ [Next]_vars => [ExceptionIDs!Next]_<<firsteid, nexteid>>
<1> SUFFICES ASSUME IDInv, [Next]_vars
             PROVE  [ExceptionIDs!Next]_<<firsteid, nexteid>>
  OBVIOUS
<1>1. CASE AssignIDs
  <2> DEFINE s == RequestAt(pos)
             f == Behind(s, 1, nexteid)
  <2>1. /\ s \in Scope /\ Ready(s) /\ phase = "sort"
        /\ firsteid' = [firsteid EXCEPT ![s] = f]
        /\ nexteid' = [nexteid EXCEPT ![s] = f + prog[s].excs]
        /\ f \in Nat
    <3> HIDE DEF s
    <3>1. s = RequestAt(pos)
      BY DEF s
    <3> QED BY <3>1, <1>1, AssignFacts
  <2>2. /\ firsteid \in [Scope -> Nat \cup {UNKNOWN}] /\ nexteid \in [Scope -> Nat \cup {UNKNOWN}]
        /\ \A t \in Scope : firsteid[t] = UNKNOWN <=> nexteid[t] = UNKNOWN
        /\ \A t \in Scope : nexteid[t] = UNKNOWN <=> nextfid[t] = UNKNOWN
    BY DEF IDInv, TypeOK, SortInv
  <2>3. /\ \A t \in Scope : <<t, s>> \in Below => nexteid[t] # UNKNOWN /\ nexteid[t] <= f
        /\ \A t \in Scope : <<t, s>> \in Apart /\ nexteid[t] # UNKNOWN => nexteid[t] <= f
    <3> HIDE DEF s
    <3>1. 1 \in Nat
      OBVIOUS
    <3> QED BY <3>1, <2>1, <2>2, RangesApart
  <2>4. prog' = prog
    BY <1>1 DEF AssignIDs, claims
  <2>5. Scope' = Scope /\ Apart' = Apart /\ Below' = Below
    BY <2>4, Rigid
  <2> HIDE DEF s, f
  <2>6. firsteid'[s] = f /\ nexteid'[s] = f + prog[s].excs
    BY <2>1, <2>2
  <2>7. firsteid[s] = UNKNOWN
    BY <2>1, <2>2 DEF Ready
  <2>8. ExceptionIDs!Assign(s)
    <3>1. DOMAIN [x \in Scope |-> prog[x].excs] = Scope
      OBVIOUS
    <3>2. [x \in Scope |-> prog[x].excs][s] = prog[s].excs
      BY <2>1
    <3>3. [x \in Scope |-> prog[x].excs]' = [x \in Scope |-> prog[x].excs]
      BY <2>4, <2>5
    <3>4. ~ExceptionIDs!Assigned(s) /\ firsteid'[s] \in Nat
      BY <2>1, <2>6, <2>7 DEF ExceptionIDs!Assigned, ExceptionIDs!UNKNOWN, UNKNOWN
    <3>5. \A t \in Scope : <<t, s>> \in Below => ExceptionIDs!Assigned(t) /\ nexteid[t] <= firsteid'[s]
      BY <2>2, <2>3, <2>6 DEF ExceptionIDs!Assigned, ExceptionIDs!UNKNOWN, UNKNOWN
    <3>6. \A t \in Scope : <<t, s>> \in Apart /\ ExceptionIDs!Assigned(t)
                          => nexteid[t] <= firsteid'[s] \/ nexteid'[s] <= firsteid[t]
      BY <2>2, <2>3, <2>6 DEF ExceptionIDs!Assigned, ExceptionIDs!UNKNOWN, UNKNOWN
    <3>7. firsteid' = [firsteid EXCEPT ![s] = firsteid'[s]] /\ nexteid' = [nexteid EXCEPT ![s] = nexteid'[s]]
      BY <2>1, <2>6
    <3>8. UNCHANGED <<[x \in Scope |-> prog[x].excs], Apart, Below>>
      BY <3>3, <2>5
    <3> QED BY <3>1, <3>2, <3>4, <3>5, <3>6, <3>7, <3>8, <2>6 DEF ExceptionIDs!Assign
  <2> QED BY <2>1, <2>8 DEF ExceptionIDs!Next
<1>2. CASE ~AssignIDs
  <2>1. UNCHANGED <<firsteid, nexteid>>
    BY <1>2 DEF Next, Step, Close, Sort, Finished, ClaimIDs, EstablishConstraints, InheritMasters,
       MarkCross, CountDependencies, SkipScope, EndSortingPass, numbers, vars
  <2> QED BY <2>1
<1> QED BY <1>1, <1>2

(* Exception numbers: the same for them (be/source.cc, commit).            *)
THEOREM ExceptionsAllocated == Spec => ExceptionNumbers
<1>1. Init => ExceptionIDs!Init
  BY DEF Init, ExceptionIDs!Init, ExceptionIDs!UNKNOWN, UNKNOWN
<1>2. IDInv /\ [Next]_vars => [ExceptionIDs!Next]_(ExceptionIDs!ranges)
  BY ExceptionStep DEF ExceptionIDs!ranges
<1> QED BY InitID, NextID, <1>1, <1>2, PTL DEF Spec, ExceptionNumbers, ExceptionIDs!Spec

-----------------------------------------------------------------------------
(* What is above an interface                                              *)

(* The supers reached after every round of the recursion.                  *)
Reached(p, s) ==
  CHOOSE up : up = [k \in 0 .. Len(p) |->
                      IF k = 0 THEN p[s].supers
                      ELSE up[k - 1] \cup UNION {p[b].supers : b \in up[k - 1]}]

(* The recursion is well founded.                                          *)
LEMMA ReachedEquation ==
  ASSUME NEW p, Len(p) \in Nat, NEW s
  PROVE  /\ Ancestors(p, s) = Reached(p, s)[Len(p)]
         /\ Reached(p, s)[0] = p[s].supers
         /\ \A k \in 1 .. Len(p) :
              Reached(p, s)[k] = Reached(p, s)[k - 1]
                                   \cup UNION {p[b].supers : b \in Reached(p, s)[k - 1]}
<1> DEFINE n == Len(p)
           Then(S) == S \cup UNION {p[b].supers : b \in S}
           Def(up) == [k \in 0 .. n |-> IF k = 0 THEN p[s].supers ELSE Then(up[k - 1])]
           Rule(up, k) == up[0] = p[s].supers /\ \A i \in 1 .. k : up[i] = Then(up[i - 1])
           G == {k \in Nat : \E up : up = [i \in 0 .. k |-> up[i]] /\ Rule(up, k)}
<1> HIDE DEF Then
<1>1. 0 \in G
  <2>1. Rule([i \in 0 .. 0 |-> p[s].supers], 0)
    OBVIOUS
  <2>2. [i \in 0 .. 0 |-> p[s].supers] = [i \in 0 .. 0 |-> [j \in 0 .. 0 |-> p[s].supers][i]]
    OBVIOUS
  <2> QED BY <2>1, <2>2
<1>2. ASSUME NEW k \in Nat, k \in G  PROVE k + 1 \in G
  <2>1. PICK up : up = [i \in 0 .. k |-> up[i]] /\ Rule(up, k)
    BY <1>2
  <2> DEFINE next == [i \in 0 .. k + 1 |-> IF i = k + 1 THEN Then(up[k]) ELSE up[i]]
  <2>2. next[0] = p[s].supers /\ \A i \in 0 .. k : next[i] = up[i]
    BY <2>1
  <2>3. next[k + 1] = Then(up[k])
    OBVIOUS
  <2>4. next = [i \in 0 .. k + 1 |-> next[i]]
    OBVIOUS
  <2> HIDE DEF next
  <2>5. ASSUME NEW i \in 1 .. k + 1  PROVE next[i] = Then(next[i - 1])
    <3>1. CASE i = k + 1
      BY <3>1, <2>2, <2>3
    <3>2. CASE i # k + 1
      <4>1. i \in 1 .. k /\ i \in 0 .. k /\ i - 1 \in 0 .. k
        BY <3>2
      <4> QED BY <4>1, <2>1, <2>2
    <3> QED BY <3>1, <3>2
  <2>6. Rule(next, k + 1)
    BY <2>2, <2>5
  <2>7. \E g : g = [i \in 0 .. k + 1 |-> g[i]] /\ Rule(g, k + 1)
    <3> HIDE DEF Rule
    <3> QED BY <2>4, <2>6
  <2> HIDE DEF Rule
  <2>8. k + 1 \in Nat
    OBVIOUS
  <2> QED BY <2>7, <2>8
<1>3. n \in G
  <2> HIDE DEF G
  <2>1. Nat \subseteq G
    BY <1>1, <1>2, NatSetInduction
  <2> QED BY <2>1
<1>4. PICK up : up = [i \in 0 .. n |-> up[i]] /\ Rule(up, n)
  BY <1>3
<1>5. up = Def(up)
  <2>1. \A k \in 0 .. n : up[k] = IF k = 0 THEN p[s].supers ELSE Then(up[k - 1])
    BY <1>4, SMTT(60)
  <2> QED BY <1>4, <2>1
<1>6. Reached(p, s) = Def(Reached(p, s))
  <2>1. \E g : g = Def(g)
    BY <1>5
  <2>2. Reached(p, s) = CHOOSE g : g = Def(g)
    BY DEF Reached, Then
  <2> QED BY <2>1, <2>2
<1>7. /\ Reached(p, s)[0] = p[s].supers
      /\ \A k \in 1 .. n : Reached(p, s)[k] = Then(Reached(p, s)[k - 1])
  <2>1. \A k \in 0 .. n : Reached(p, s)[k] = IF k = 0 THEN p[s].supers ELSE Then(Reached(p, s)[k - 1])
    BY <1>6, Zenon
  <2> QED BY <2>1
<1>8. Ancestors(p, s) = Reached(p, s)[n]
  BY DEF Ancestors, Reached
<1> QED BY <1>7, <1>8 DEF Then

(* Every round keeps what the rounds before it reached.                    *)
LEMMA ReachedGrows ==
  ASSUME NEW p, Len(p) \in Nat, NEW s
  PROVE  \A k \in 0 .. Len(p) : Reached(p, s)[k] \subseteq Ancestors(p, s)
<1> DEFINE n == Len(p)
           up == Reached(p, s)
           S == {j \in Nat : j <= n => \A k \in 0 .. j : up[k] \subseteq up[j]}
<1>0. \A k \in 1 .. n : up[k - 1] \subseteq up[k]
  BY ReachedEquation
<1> HIDE DEF up
<1>1. 0 \in S
  OBVIOUS
<1>2. ASSUME NEW j \in Nat, j \in S  PROVE j + 1 \in S
  <2>1. ASSUME j + 1 <= n, NEW k \in 0 .. j + 1  PROVE up[k] \subseteq up[j + 1]
    <3>1. CASE k = j + 1
      BY <3>1
    <3>2. CASE k # j + 1
      <4>1. j <= n /\ k \in 0 .. j /\ j + 1 \in 1 .. n /\ (j + 1) - 1 = j
        BY <2>1, <3>2
      <4> QED BY <4>1, <1>0, <1>2
    <3> QED BY <3>1, <3>2
  <2> QED BY <2>1
<1>3. n \in S
  <2> HIDE DEF S
  <2>1. Nat \subseteq S
    BY <1>1, <1>2, NatSetInduction
  <2> QED BY <2>1
<1>4. up[n] = Ancestors(p, s)
  BY ReachedEquation DEF up
<1> QED BY <1>3, <1>4 DEF up

(* A round that adds nothing is the last that does; a round that adds      *)
(* something adds one at least, so Len(p) rounds are enough.               *)
LEMMA AncestorsClosed ==
  ASSUME NEW p \in Program, NEW s \in DOMAIN p
  PROVE  \A a \in Ancestors(p, s) : p[a].supers \subseteq Ancestors(p, s)
<1> DEFINE n == Len(p)
           up == Reached(p, s)
           Closed(k) == \A a \in up[k] : p[a].supers \subseteq up[k]
           S == {k \in Nat : k <= n => Closed(k) \/ Cardinality(up[k]) >= k}
<1>1. /\ n \in Nat /\ DOMAIN p = 1 .. n
      /\ \A t \in DOMAIN p : Ancestors(p, t) \subseteq DOMAIN p
  BY DEF Program
<1>2. /\ \A k \in 1 .. n : up[k] = up[k - 1] \cup UNION {p[b].supers : b \in up[k - 1]}
      /\ \A k \in 0 .. n : up[k] \subseteq Ancestors(p, s)
      /\ up[n] = Ancestors(p, s)
  BY <1>1, ReachedEquation, ReachedGrows
<1> HIDE DEF up
<1>3. IsFiniteSet(DOMAIN p) /\ Cardinality(DOMAIN p) = n
  <2>1. 1 \in Int /\ n \in Int
    BY <1>1
  <2>2. IsFiniteSet(1 .. n) /\ Cardinality(1 .. n) = IF 1 > n THEN 0 ELSE n - 1 + 1
    BY ONLY <2>1, FS_Interval
  <2>3. (IF 1 > n THEN 0 ELSE n - 1 + 1) = n
    BY <1>1
  <2> QED BY <2>2, <2>3, <1>1
<1>4. \A k \in 0 .. n : up[k] \subseteq DOMAIN p /\ IsFiniteSet(up[k]) /\ Cardinality(up[k]) \in Nat
  <2>1. ASSUME NEW k \in 0 .. n
        PROVE  up[k] \subseteq DOMAIN p /\ IsFiniteSet(up[k]) /\ Cardinality(up[k]) \in Nat
    <3>1. up[k] \in SUBSET DOMAIN p
      BY <1>1, <1>2
    <3> QED BY <3>1, <1>3, FS_Subset, FS_CardinalityType
  <2> QED BY <2>1
<1>5. 0 \in S
  BY <1>1, <1>4
<1>6. ASSUME NEW k \in Nat, k \in S  PROVE k + 1 \in S
  <2> SUFFICES ASSUME k + 1 <= n  PROVE Closed(k + 1) \/ Cardinality(up[k + 1]) >= k + 1
    OBVIOUS
  <2>1. k \in 0 .. n /\ k + 1 \in 1 .. n /\ k + 1 \in 0 .. n /\ (k + 1) - 1 = k
    BY <1>1
  <2>2. up[k + 1] = up[k] \cup UNION {p[b].supers : b \in up[k]}
    BY <2>1, <1>2
  <2>3. CASE Closed(k)
    <3>1. up[k + 1] = up[k]
      BY <2>2, <2>3
    <3> QED BY <3>1, <2>3
  <2>4. CASE ~Closed(k)
    <3>1. Cardinality(up[k]) >= k
      BY <2>1, <2>4, <1>6
    <3>2. up[k] # up[k + 1] /\ up[k] \in SUBSET up[k + 1]
      BY <2>2, <2>4
    <3>3. Cardinality(up[k]) <= Cardinality(up[k + 1]) /\ Cardinality(up[k]) # Cardinality(up[k + 1])
      BY <3>2, <2>1, <1>4, FS_Subset
    <3>4. Cardinality(up[k]) \in Nat /\ Cardinality(up[k + 1]) \in Nat
      BY <2>1, <1>4
    <3> QED BY <3>1, <3>3, <3>4
  <2> QED BY <2>3, <2>4
<1>7. Closed(n) \/ Cardinality(up[n]) >= n
  <2> HIDE DEF S
  <2>1. Nat \subseteq S
    BY <1>5, <1>6, NatSetInduction
  <2>2. n \in S
    BY <2>1, <1>1
  <2> QED BY <2>2, <1>1 DEF S
<1>8. CASE Closed(n)
  BY <1>8, <1>2
<1>9. CASE Cardinality(up[n]) >= n
  <2>1. up[n] \in SUBSET DOMAIN p /\ Cardinality(up[n]) \in Nat
    BY <1>1, <1>4
  <2>2. Cardinality(up[n]) = Cardinality(DOMAIN p)
    <3>1. Cardinality(up[n]) <= Cardinality(DOMAIN p)
      BY <2>1, <1>3, FS_Subset
    <3> QED BY <3>1, <2>1, <1>1, <1>3, <1>9
  <2>3. up[n] = DOMAIN p
    BY <2>1, <2>2, <1>3, FS_Subset
  <2>4. ASSUME NEW a \in DOMAIN p  PROVE p[a].supers \subseteq DOMAIN p
    <3>1. Reached(p, a)[0] = p[a].supers /\ Reached(p, a)[0] \subseteq Ancestors(p, a)
      BY <1>1, ReachedEquation, ReachedGrows
    <3> QED BY <3>1, <1>1
  <2> QED BY <2>3, <2>4, <1>2
<1> QED BY <1>7, <1>8, <1>9

(* Inheritance is transitive.                                              *)
LEMMA AncestorsTransitive ==
  ASSUME NEW p \in Program, NEW s \in DOMAIN p, NEW a \in Ancestors(p, s)
  PROVE  Ancestors(p, a) \subseteq Ancestors(p, s)
<1> DEFINE n == Len(p)
           up == Reached(p, a)
           S == {k \in Nat : k <= n => up[k] \subseteq Ancestors(p, s)}
<1>1. n \in Nat
  BY DEF Program
<1>2. \A b \in Ancestors(p, s) : p[b].supers \subseteq Ancestors(p, s)
  BY AncestorsClosed
<1>3. /\ up[0] = p[a].supers /\ up[n] = Ancestors(p, a)
      /\ \A k \in 1 .. n : up[k] = up[k - 1] \cup UNION {p[b].supers : b \in up[k - 1]}
  BY <1>1, ReachedEquation
<1> HIDE DEF up
<1>4. 0 \in S
  BY <1>2, <1>3
<1>5. ASSUME NEW k \in Nat, k \in S  PROVE k + 1 \in S
  <2> SUFFICES ASSUME k + 1 <= n  PROVE up[k + 1] \subseteq Ancestors(p, s)
    OBVIOUS
  <2>1. k <= n /\ k + 1 \in 1 .. n /\ (k + 1) - 1 = k
    BY <1>1
  <2>2. up[k] \subseteq Ancestors(p, s)
    BY <2>1, <1>5
  <2>3. up[k + 1] = up[k] \cup UNION {p[b].supers : b \in up[k]}
    BY <2>1, <1>3
  <2> QED BY <2>2, <2>3, <1>2
<1>6. n \in S
  <2> HIDE DEF S
  <2>1. Nat \subseteq S
    BY <1>4, <1>5, NatSetInduction
  <2> QED BY <2>1, <1>1
<1> QED BY <1>3, <1>6

(* The scopes an interface must not conflict with are those above it: what *)
(* is above one of them is one of them.                                    *)
LEMMA BossesTransitive ==
  ASSUME prog \in Programs, NEW s \in Scope, NEW m \in Bosses(s)
  PROVE  m \in Scope /\ Bosses(m) \subseteq Bosses(s) /\ m \notin Bosses(m)
<1>1. prog \in Program /\ s \in DOMAIN prog
  BY ProgramAssumption DEF Scope
<1>2. m \in Scope /\ m \in Ancestors(prog, s) /\ prog[m].iid = prog[s].iid
  BY ProgramFacts DEF Bosses
<1>3. Ancestors(prog, m) \subseteq Ancestors(prog, s)
  BY <1>1, <1>2, AncestorsTransitive
<1>4. m \notin Bosses(m)
  BY <1>2, ProgramFacts
<1> QED BY <1>2, <1>3, <1>4 DEF Bosses

-----------------------------------------------------------------------------
(* commit gets through                                                     *)

(* Nobody but the interfaces above a scope is its master: the closure of   *)
(* the masters adds nothing to the constraints.                            *)
MasterInv ==
  \A i, j \in Scope : i # j /\ related[i][j] = MASTER => i \in Bosses(j)

(* A sorting pass that believes to be done has only met scopes with        *)
(* numbers, and one that has made no progress only such that must wait.    *)
Met == {RequestAt(i) : i \in 1 .. pos - 1}

PassInv ==
  /\ phase \notin {"sort", "done", "assertion"} => pos = 1 /\ ~progress /\ done
  /\ phase = "sort" =>
       /\ done => \A s \in Met : nextfid[s] # UNKNOWN
       /\ ~progress => \A s \in Met : ~Ready(s)
       /\ ~done => progress \/ \E s \in Scope : nextfid[s] = UNKNOWN
  /\ phase = "done" => \A s \in Scope : nextfid[s] # UNKNOWN
  /\ phase # "assertion"

(* A scope's numbers are a range, and ranges that must be kept apart are.  *)
RangeInv ==
  /\ \A s \in Scope : nextfid[s] # UNKNOWN => nextfid[s] = firstfid[s] + Len(prog[s].ops)
  /\ \A pair \in Apart :
       LET s == pair[1]
           t == pair[2]
       IN  nextfid[s] # UNKNOWN /\ nextfid[t] # UNKNOWN =>
             nextfid[s] <= firstfid[t] \/ nextfid[t] <= firstfid[s]

NumbersInv == IDInv /\ MasterInv /\ PassInv /\ RangeInv

LEMMA InitNumbers == Init => NumbersInv
<1> SUFFICES ASSUME Init  PROVE NumbersInv
  OBVIOUS
<1>1. IDInv
  BY InitID
<1>2. /\ prog \in Programs /\ phase = "claim" /\ pos = 1 /\ progress = FALSE /\ done = TRUE
      /\ related = [i \in Scope |-> [j \in Scope |-> IF i = j THEN MASTER ELSE UNRELATED]]
      /\ nextfid = [i \in Scope |-> UNKNOWN]
  BY DEF Init
<1>3. MasterInv
  BY <1>2 DEF MasterInv, MASTER, UNRELATED
<1>4. PassInv
  BY <1>2 DEF PassInv
<1>5. RangeInv
  BY <1>2 DEF RangeInv, Apart
<1> QED BY <1>1, <1>3, <1>4, <1>5 DEF NumbersInv

(* The first loop never finds anything: the interfaces above those above a *)
(* scope are above it and were claimed with it.                            *)
LEMMA NothingInherited ==
  ASSUME IDInv, MasterInv, phase # "claim"
  PROVE  Inheriting = {}
<1>1. SUFFICES ASSUME NEW t \in Triples, Related(t, 1, 2) = MASTER, Related(t, 2, 3) = MASTER,
                      Related(t, 1, 3) = UNRELATED
               PROVE  FALSE
  BY DEF Inheriting
<1> DEFINE i == RequestAt(t[1])
           j == RequestAt(t[2])
           k == RequestAt(t[3])
<1>2. prog \in Programs /\ i \in Scope /\ j \in Scope /\ k \in Scope
  <2>1. t[1] \in 1 .. Len(prog) /\ t[2] \in 1 .. Len(prog) /\ t[3] \in 1 .. Len(prog)
    BY DEF Triples
  <2> QED BY <2>1, RequestAtFacts DEF IDInv
<1>3. related[i][j] = MASTER /\ related[j][k] = MASTER /\ related[i][k] = UNRELATED
  BY <1>1 DEF Related
<1> HIDE DEF i, j, k
<1>4. i # j /\ j # k
  BY <1>2, <1>3 DEF IDInv, MatrixInv, MASTER, UNRELATED
<1>5. i \in Bosses(j) /\ j \in Bosses(k)
  BY <1>2, <1>3, <1>4 DEF MasterInv
<1>6. i \in Bosses(k) /\ i # k
  BY <1>2, <1>5, BossesTransitive, ProgramFacts
<1>7. <<i, k>> \in Below
  BY <1>2, <1>6 DEF Below
<1>8. related[k][i] = SLAVE
  BY <1>7 DEF IDInv, MatrixInv
<1>9. related[i][k] = MASTER
  BY <1>2, <1>6, <1>8 DEF IDInv, MatrixInv
<1> QED BY <1>3, <1>9 DEF MASTER, UNRELATED

LEMMA MasterStep == IDInv /\ MasterInv /\ [Next]_vars => MasterInv'
<1> SUFFICES ASSUME IDInv, MasterInv, [Next]_vars  PROVE MasterInv'
  OBVIOUS
<1>1. prog \in Programs /\ prog' = prog
  BY DEF IDInv, Next, Step, Close, Sort, Finished, ClaimIDs, EstablishConstraints, InheritMasters,
     MarkCross, CountDependencies, AssignIDs, SkipScope, EndSortingPass, claims, vars
<1>2. Scope' = Scope /\ \A s : Bosses(s)' = Bosses(s)
  BY <1>1, Rigid
<1>3. CASE related' = related
  BY <1>2, <1>3 DEF MasterInv
<1>4. CASE EstablishConstraints
  <2>1. constraints = Below
    BY <1>1, <1>4, AllClaimed DEF IDInv, EstablishConstraints
  <2>2. ASSUME NEW i \in Scope, NEW j \in Scope, i # j, related'[i][j] = MASTER
        PROVE  i \in Bosses(j)
    <3>1. related'[i][j] = Explicit(i, j)
      BY <1>4 DEF EstablishConstraints
    <3>2. related[i][j] = UNRELATED
      BY <1>4, <2>2 DEF IDInv, MatrixInv, EstablishConstraints
    <3>3. <<i, j>> \in Below
      BY <2>1, <2>2, <3>1, <3>2 DEF Explicit, MASTER, SLAVE, UNRELATED
    <3> QED BY <3>3 DEF Below
  <2> QED BY <2>2, <1>2 DEF MasterInv
<1>5. CASE InheritMasters
  <2>1. Inheriting = {}
    BY <1>5, NothingInherited DEF InheritMasters
  <2>2. related' = related
    BY <2>1, <1>5 DEF InheritMasters, EndPass
  <2> QED BY <2>2, <1>3
<1>6. CASE MarkCross /\ Connecting # {}
  <2>1. PICK t \in Connecting :
          related' = [related EXCEPT ![RequestAt(t[1])][RequestAt(t[3])] = CROSS,
                                     ![RequestAt(t[3])][RequestAt(t[1])] = CROSS]
    BY <1>6 DEF MarkCross, Extend
  <2>2. RequestAt(t[1]) \in Scope /\ RequestAt(t[3]) \in Scope
    <3>1. t[1] \in 1 .. Len(prog) /\ t[3] \in 1 .. Len(prog)
      BY DEF Connecting, Triples
    <3> QED BY <3>1, <1>1, RequestAtFacts
  <2>3. related \in [Scope -> [Scope -> Relation]]
    BY DEF IDInv, TypeOK
  <2>4. \A i, j \in Scope : related'[i][j] = related[i][j] \/ related'[i][j] = CROSS
    BY <2>1, <2>2, <2>3
  <2>5. \A i, j \in Scope : related'[i][j] = MASTER => related[i][j] = MASTER
    BY <2>4 DEF CROSS, MASTER
  <2> QED BY <2>5, <1>2 DEF MasterInv
<1>7. CASE MarkCross /\ Connecting = {}
  BY <1>7, <1>3 DEF MarkCross, EndPass
<1>8. CASE ~(EstablishConstraints \/ InheritMasters \/ MarkCross)
  <2>1. related' = related
    BY <1>8 DEF Next, Step, Close, Sort, Finished, ClaimIDs, CountDependencies, AssignIDs, SkipScope,
       EndSortingPass, closure, vars
  <2> QED BY <2>1, <1>3
<1> QED BY <1>4, <1>5, <1>6, <1>7, <1>8

(* Among the scopes without numbers there is one that only has to wait for *)
(* scopes with numbers: the one with the fewest above it.                  *)
LEMMA SomeReady ==
  ASSUME IDInv, MasterInv, phase = "sort", NEW s \in Scope, nextfid[s] = UNKNOWN
  PROVE  \E m \in Scope : Ready(m)
<1> DEFINE U == {m \in Scope : nextfid[m] = UNKNOWN}
           T == {Cardinality(Bosses(m)) : m \in U}
<1>1. /\ prog \in Programs
      /\ \A m \in Scope : depends[m] = Cardinality(Pending(m))
  BY DEF IDInv, SortInv
<1>2. \A m \in Scope : IsFiniteSet(Bosses(m)) /\ Cardinality(Bosses(m)) \in Nat
  <2>1. ASSUME NEW m \in Scope  PROVE IsFiniteSet(Bosses(m)) /\ Cardinality(Bosses(m)) \in Nat
    <3>1. Bosses(m) \in SUBSET Scope
      BY <1>1, ProgramFacts
    <3> QED BY <3>1, <1>1, CountType, FS_CardinalityType
  <2> QED BY <2>1
<1>3. T \in SUBSET Nat /\ T # {}
  BY <1>2
<1>4. PICK n \in T : \A k \in T : n <= k
  <2> HIDE DEF T
  <2> QED BY <1>3, NatMin
<1>5. PICK m \in U : n = Cardinality(Bosses(m))
  BY <1>4
<1>6. Pending(m) = {}
  <2>1. SUFFICES ASSUME NEW b \in Pending(m)  PROVE FALSE
    OBVIOUS
  <2>2. b \in Scope /\ related[m][b] = SLAVE /\ nextfid[b] = UNKNOWN
    BY DEF Pending, Masters
  <2>3. b # m
    BY <2>2 DEF IDInv, MatrixInv, MASTER, SLAVE
  <2>4. related[b][m] = MASTER
    BY <2>2, <2>3 DEF IDInv, MatrixInv
  <2>5. b \in Bosses(m)
    BY <2>2, <2>3, <2>4 DEF MasterInv
  <2>6. Bosses(b) \in SUBSET Bosses(m) /\ Bosses(b) # Bosses(m)
    BY <2>5, <1>1, BossesTransitive
  <2>7. Cardinality(Bosses(b)) <= Cardinality(Bosses(m)) /\ Cardinality(Bosses(b)) # Cardinality(Bosses(m))
    BY <2>6, <1>2, FS_Subset
  <2>8. Cardinality(Bosses(b)) \in T
    BY <2>2
  <2>9. Cardinality(Bosses(m)) <= Cardinality(Bosses(b))
    BY <2>8, <1>4, <1>5
  <2>10. Cardinality(Bosses(m)) \in Nat /\ Cardinality(Bosses(b)) \in Nat
    BY <2>2, <1>2
  <2> QED BY <2>7, <2>9, <2>10
<1>7. depends[m] = 0
  BY <1>1, <1>6, FS_EmptySet
<1> QED BY <1>7 DEF Ready

LEMMA MetFacts ==
  ASSUME prog \in Programs, pos \in 1 .. Len(prog) + 1
  PROVE  /\ Met \subseteq Scope
         /\ pos > Len(prog) => Met = Scope
         /\ pos <= Len(prog) /\ prog' = prog /\ pos' = pos + 1 => Met' = Met \cup {RequestAt(pos)}
         /\ prog' = prog /\ pos' = 1 => Met' = {}
<1>1. Len(prog) \in Nat /\ Scope = 1 .. Len(prog)
  BY ProgramFacts
<1>2. Met \subseteq Scope
  BY <1>1, RequestAtFacts DEF Met
<1>3. ASSUME pos > Len(prog), NEW s \in Scope  PROVE s \in Met
  <2>1. RequestAt(s) \in 1 .. pos - 1 /\ RequestAt(RequestAt(s)) = s
    BY <1>1, <1>3, RequestAtFacts
  <2> QED BY <2>1 DEF Met
<1>4. ASSUME pos <= Len(prog), prog' = prog, pos' = pos + 1  PROVE Met' = Met \cup {RequestAt(pos)}
  <2>1. 1 .. pos' - 1 = (1 .. pos - 1) \cup {pos}
    BY <1>4, <1>1
  <2>2. Met' = {RequestAt(i) : i \in 1 .. pos' - 1}
    BY <1>4 DEF Met, RequestAt
  <2> QED BY <2>1, <2>2 DEF Met
<1>5. ASSUME prog' = prog, pos' = 1  PROVE Met' = {}
  BY <1>5 DEF Met
<1> QED BY <1>2, <1>3, <1>4, <1>5

LEMMA PassStep == NumbersInv /\ [Next]_vars => PassInv'
<1> SUFFICES ASSUME NumbersInv, [Next]_vars  PROVE PassInv'
  OBVIOUS
<1>1. /\ prog \in Programs /\ Len(prog) \in Nat /\ Scope = 1 .. Len(prog)
      /\ pos \in 1 .. Len(prog) + 1
      /\ nextfid \in [Scope -> Nat \cup {UNKNOWN}]
      /\ progress \in BOOLEAN /\ done \in BOOLEAN
      /\ IDInv /\ MasterInv /\ PassInv
  BY ProgramFacts DEF NumbersInv, IDInv, TypeOK
<1>2. prog' = prog
  BY DEF Next, Step, Close, Sort, Finished, ClaimIDs, EstablishConstraints, InheritMasters,
     MarkCross, CountDependencies, AssignIDs, SkipScope, EndSortingPass, claims, vars
<1>3. Scope' = Scope
  BY <1>2, Rigid
<1>4. CASE AssignIDs
  <2> DEFINE s == RequestAt(pos)
  <2>1. /\ s \in Scope /\ phase = "sort" /\ phase' = "sort"
        /\ nextfid' = [nextfid EXCEPT ![s] = Behind(s, 0, nextfid) + Len(prog[s].ops)]
        /\ Behind(s, 0, nextfid) + Len(prog[s].ops) \in Nat
    <3> HIDE DEF s
    <3>1. s = RequestAt(pos)
      BY DEF s
    <3> QED BY <3>1, <1>1, <1>4, AssignFacts
  <2>2. progress' = TRUE /\ done' = done /\ pos' = pos + 1 /\ pos <= Len(prog)
    BY <1>4 DEF AssignIDs
  <2>3. Met' = Met \cup {s} /\ Met \subseteq Scope
    BY <1>1, <1>2, <2>2, MetFacts
  <2> HIDE DEF s
  <2>4. nextfid'[s] # UNKNOWN /\ \A t \in Scope : t # s => nextfid'[t] = nextfid[t]
    BY <1>1, <2>1 DEF UNKNOWN
  <2>5. done' => \A t \in Met' : nextfid'[t] # UNKNOWN
    BY <1>1, <2>1, <2>2, <2>3, <2>4 DEF PassInv
  <2> QED BY <2>1, <2>2, <2>5 DEF PassInv
<1>5. CASE SkipScope
  <2> DEFINE s == RequestAt(pos)
  <2>1. /\ phase = "sort" /\ phase' = "sort" /\ pos <= Len(prog) /\ pos' = pos + 1
        /\ ~Ready(s) /\ done' = (done /\ depends[s] = 0) /\ progress' = progress
        /\ depends' = depends /\ nextfid' = nextfid
    BY <1>5 DEF SkipScope, numbers
  <2>2. Met' = Met \cup {s} /\ s \in Scope
    <3>1. pos \in 1 .. Len(prog)
      BY <1>1, <2>1
    <3> QED BY <1>1, <1>2, <2>1, <3>1, MetFacts, RequestAtFacts
  <2> HIDE DEF s
  <2>3. \A t : Ready(t)' <=> Ready(t)
    BY <2>1 DEF Ready
  <2>4. done' => \A t \in Met' : nextfid'[t] # UNKNOWN
    BY <1>1, <2>1, <2>2 DEF PassInv, Ready
  <2>5. ~progress' => \A t \in Met' : ~Ready(t)'
    BY <1>1, <2>1, <2>2, <2>3 DEF PassInv
  <2>6. ~done' => progress' \/ \E t \in Scope : nextfid'[t] = UNKNOWN
    <3>1. CASE done
      <4>1. ASSUME ~done'  PROVE nextfid[s] = UNKNOWN
        <5>1. depends[s] # 0
          BY <2>1, <3>1, <4>1
        <5>2. nextfid[s] # UNKNOWN => depends[s] = 0
          BY <1>1, <2>1, <2>2 DEF IDInv, SortInv
        <5> QED BY <5>1, <5>2
      <4> QED BY <4>1, <2>1, <2>2
    <3>2. CASE ~done
      BY <1>1, <2>1, <3>2 DEF PassInv
    <3> QED BY <3>1, <3>2
  <2> QED BY <2>1, <2>4, <2>5, <2>6, <1>3 DEF PassInv
<1>6. CASE EndSortingPass
  <2>1. /\ phase = "sort" /\ pos > Len(prog) /\ pos' = 1 /\ progress' = FALSE /\ done' = TRUE
        /\ phase' = (IF done THEN "done" ELSE IF progress THEN phase ELSE "assertion")
        /\ depends' = depends /\ nextfid' = nextfid
    BY <1>6 DEF EndSortingPass, numbers
  <2>2. Met = Scope /\ Met' = {}
    BY <1>1, <1>2, <2>1, MetFacts
  <2>3. CASE done
    BY <1>1, <1>3, <2>1, <2>2, <2>3 DEF PassInv
  <2>4. CASE ~done /\ progress
    BY <1>1, <1>3, <2>1, <2>2, <2>4 DEF PassInv
  <2>5. CASE ~done /\ ~progress
    <3>1. PICK s \in Scope : nextfid[s] = UNKNOWN
      BY <1>1, <2>1, <2>5 DEF PassInv
    <3>2. \E m \in Scope : Ready(m)
      BY <1>1, <2>1, <3>1, SomeReady
    <3>3. \A m \in Scope : ~Ready(m)
      BY <1>1, <2>1, <2>2, <2>5 DEF PassInv
    <3> QED BY <3>2, <3>3
  <2> QED BY <2>3, <2>4, <2>5
<1>7. CASE CountDependencies
  <2>1. phase = "count" /\ phase' = "sort" /\ pos' = pos /\ progress' = progress /\ done' = done
    BY <1>7 DEF CountDependencies
  <2>2. pos' = 1 /\ progress' = FALSE /\ done' = TRUE
    BY <1>1, <2>1 DEF PassInv
  <2>3. Met' = {}
    BY <1>1, <1>2, <2>2, MetFacts
  <2> QED BY <2>1, <2>2, <2>3 DEF PassInv
<1>8. CASE ClaimIDs \/ EstablishConstraints \/ InheritMasters \/ MarkCross
  <2>1. /\ phase \in {"claim", "masters", "cross"} /\ phase' \in {"claim", "masters", "cross", "count"}
        /\ UNCHANGED sorting
    BY <1>8 DEF ClaimIDs, EstablishConstraints, InheritMasters, MarkCross, Extend, EndPass
  <2>2. pos' = pos /\ progress' = progress /\ done' = done
    BY <2>1 DEF sorting
  <2> QED BY <1>1, <2>1, <2>2 DEF PassInv
<1>9. CASE UNCHANGED vars
  <2>1. /\ phase' = phase /\ pos' = pos /\ progress' = progress /\ done' = done
        /\ depends' = depends /\ nextfid' = nextfid
    BY <1>9 DEF vars, sorting, numbers
  <2>2. Met' = Met /\ \A t : Ready(t)' <=> Ready(t)
    BY <1>2, <2>1 DEF Met, RequestAt, Ready
  <2> QED BY <1>1, <1>3, <2>1, <2>2 DEF PassInv
<1> QED BY <1>4, <1>5, <1>6, <1>7, <1>8, <1>9 DEF Next, Step, Close, Sort, Finished

(* Being apart goes both ways: what a closed set leaves out is closed.     *)
LEMMA ApartSymmetric ==
  ASSUME NEW s, NEW t, <<s, t>> \in Apart, prog \in Programs
  PROVE  <<t, s>> \in Apart /\ s \in Scope /\ t \in Scope /\ s # t
<1>1. s \in Scope /\ t \in Scope /\ s # t
  BY DEF Apart
<1> DEFINE Closed(C) == \A pair \in Below : pair[1] \in C <=> pair[2] \in C
<1>2. ASSUME NEW C \in SUBSET Scope, Closed(C), t \in C  PROVE s \in C
  <2>1. Scope \ C \in SUBSET Scope /\ Closed(Scope \ C)
    BY <1>2, BelowFacts
  <2>2. s \in Scope \ C => t \in Scope \ C
    <3>1. Scope \ C \in {D \in SUBSET Scope : Closed(D)}
      BY <2>1
    <3> QED BY <3>1 DEF Apart
  <2> QED BY <2>2, <1>1, <1>2
<1>3. <<t, s>> \in Scope \X Scope /\ \A C \in {D \in SUBSET Scope : Closed(D)} : t \in C => s \in C
  BY <1>1, <1>2
<1> QED BY <1>1, <1>3 DEF Apart

LEMMA RangeStep == NumbersInv /\ [Next]_vars => RangeInv'
<1> SUFFICES ASSUME NumbersInv, [Next]_vars  PROVE RangeInv'
  OBVIOUS
<1>1. /\ prog \in Programs /\ IDInv /\ RangeInv
      /\ firstfid \in [Scope -> Nat \cup {UNKNOWN}] /\ nextfid \in [Scope -> Nat \cup {UNKNOWN}]
  BY DEF NumbersInv, IDInv, TypeOK
<1>2. prog' = prog
  BY DEF Next, Step, Close, Sort, Finished, ClaimIDs, EstablishConstraints, InheritMasters,
     MarkCross, CountDependencies, AssignIDs, SkipScope, EndSortingPass, claims, vars
<1>3. Scope' = Scope /\ Apart' = Apart
  BY <1>2, Rigid
<1>4. CASE AssignIDs
  <2> DEFINE s == RequestAt(pos)
             f == Behind(s, 0, nextfid)
  <2>1. /\ s \in Scope /\ Ready(s) /\ phase = "sort"
        /\ firstfid' = [firstfid EXCEPT ![s] = f]
        /\ nextfid' = [nextfid EXCEPT ![s] = f + Len(prog[s].ops)]
        /\ f \in Nat
    <3> HIDE DEF s
    <3>1. s = RequestAt(pos)
      BY DEF s
    <3> QED BY <3>1, <1>1, <1>4, AssignFacts
  <2>2. \A t \in Scope : <<t, s>> \in Apart /\ nextfid[t] # UNKNOWN => nextfid[t] <= f
    <3> HIDE DEF s
    <3>1. 0 \in Nat
      OBVIOUS
    <3> QED BY <3>1, <1>1, <2>1, RangesApart
  <2> HIDE DEF s, f
  <2>3. /\ firstfid'[s] = f /\ nextfid'[s] = f + Len(prog[s].ops)
        /\ \A t \in Scope : t # s => firstfid'[t] = firstfid[t] /\ nextfid'[t] = nextfid[t]
    BY <1>1, <2>1
  <2>4. \A t \in Scope : nextfid'[t] # UNKNOWN => nextfid'[t] = firstfid'[t] + Len(prog[t].ops)
    BY <1>1, <2>3 DEF RangeInv
  <2>5. ASSUME NEW pair \in Apart, nextfid'[pair[1]] # UNKNOWN, nextfid'[pair[2]] # UNKNOWN
        PROVE  nextfid'[pair[1]] <= firstfid'[pair[2]] \/ nextfid'[pair[2]] <= firstfid'[pair[1]]
    <3>1. PICK a, b \in Scope : pair = <<a, b>>
      BY DEF Apart
    <3>2. a # b /\ <<b, a>> \in Apart /\ <<a, b>> \in Apart
      BY <1>1, <3>1, ApartSymmetric
    <3>3. CASE a = s
      <4>1. nextfid'[b] = nextfid[b] /\ nextfid[b] # UNKNOWN
        BY <2>3, <2>5, <3>1, <3>2, <3>3
      <4> QED BY <4>1, <2>2, <2>3, <3>1, <3>2, <3>3
    <3>4. CASE b = s
      <4>1. nextfid'[a] = nextfid[a] /\ nextfid[a] # UNKNOWN
        BY <2>3, <2>5, <3>1, <3>2, <3>4
      <4> QED BY <4>1, <2>2, <2>3, <3>1, <3>2, <3>4
    <3>5. CASE a # s /\ b # s
      <4>1. /\ firstfid'[a] = firstfid[a] /\ nextfid'[a] = nextfid[a]
            /\ firstfid'[b] = firstfid[b] /\ nextfid'[b] = nextfid[b]
        BY <2>3, <3>5
      <4>2. nextfid[a] <= firstfid[b] \/ nextfid[b] <= firstfid[a]
        BY <4>1, <1>1, <2>5, <3>1 DEF RangeInv
      <4> QED BY <4>1, <4>2, <3>1
    <3> QED BY <3>3, <3>4, <3>5
  <2> QED BY <2>4, <2>5, <1>2, <1>3 DEF RangeInv
<1>5. CASE ~AssignIDs
  <2>1. UNCHANGED <<firstfid, nextfid>>
    BY <1>5 DEF Next, Step, Close, Sort, Finished, ClaimIDs, EstablishConstraints, InheritMasters,
       MarkCross, CountDependencies, SkipScope, EndSortingPass, numbers, vars
  <2> QED BY <2>1, <1>1, <1>2, <1>3 DEF RangeInv
<1> QED BY <1>4, <1>5

LEMMA NextNumbers == NumbersInv /\ [Next]_vars => NumbersInv'
BY NextID, MasterStep, PassStep, RangeStep DEF NumbersInv

(* commit's assertions hold for every program, however its interfaces      *)
(* inherit from each other (be/source.cc:164, 190).                        *)
THEOREM AssertionsHold == Spec => []NoAssertion
<1>1. NumbersInv => NoAssertion
  BY DEF NumbersInv, PassInv, NoAssertion
<1> QED BY InitNumbers, NextNumbers, <1>1, PTL DEF Spec

-----------------------------------------------------------------------------
(* A server tells its methods apart                                        *)

(* When all have numbers the scopes one server implements have disjoint    *)
(* ranges, if they have one interface number.                              *)
LEMMA FamilyApart ==
  ASSUME prog \in Programs, NEW s \in Scope, Interfaces(s) = {prog[s].iid},
         NEW b \in Family(s), NEW c \in Family(s), b # c
  PROVE  <<b, c>> \in Apart
<1>1. Ancestors(prog, s) \subseteq Scope
  BY ProgramAssumption DEF Program, Scope
<1>2. \A f \in Family(s) : prog[f].iid = prog[s].iid
  BY DEF Interfaces
<1>3. \A f \in Family(s) : f \in Scope /\ (f = s \/ <<f, s>> \in Below)
  BY <1>1, <1>2 DEF Family, Below, Bosses
<1>4. ASSUME NEW C \in SUBSET Scope, \A pair \in Below : pair[1] \in C <=> pair[2] \in C, b \in C
      PROVE  c \in C
  <2>1. b \in C <=> s \in C
    BY <1>3, <1>4
  <2>2. c \in C <=> s \in C
    BY <1>3, <1>4
  <2> QED BY <2>1, <2>2, <1>4
<1>5. <<b, c>> \in Scope \X Scope
  BY <1>3
<1> QED BY <1>4, <1>5 DEF Apart

LEMMA OperationFacts ==
  ASSUME prog \in Programs, NEW s \in Scope, NEW o \in Operations(s)
  PROVE  /\ o = <<o[1], o[2]>> /\ o[1] \in Family(s) /\ o[1] \in Scope
         /\ o[2] \in 1 .. Len(prog[o[1]].ops) /\ Len(prog[o[1]].ops) \in Nat
         /\ prog[o[1]].iid \in Interfaces(s)
         /\ Attributes(o).fid \in Nat \cup {UNKNOWN} /\ Attributes(o).kernel \in BOOLEAN
<1>1. PICK b \in Family(s) : o \in {b} \X DOMAIN prog[b].ops
  BY DEF Operations
<1>2. o = <<o[1], o[2]>> /\ o[1] = b /\ o[2] \in DOMAIN prog[b].ops
  BY <1>1
<1>3. b \in Scope
  BY ProgramAssumption DEF Program, Scope, Family
<1>4. prog[b].ops \in Seq(Operation)
  <2>1. prog \in Seq(Declaration)
    BY ProgramAssumption DEF Program
  <2>2. prog[b] \in Declaration
    BY <2>1, <1>3 DEF Scope
  <2> QED BY <2>2 DEF Declaration
<1>5. Len(prog[b].ops) \in Nat /\ o[2] \in 1 .. Len(prog[b].ops) /\ prog[b].ops[o[2]] \in Operation
  BY <1>2, <1>4
<1>6. Attributes(o) \in Operation
  BY <1>2, <1>5 DEF Attributes
<1>7. prog[b].iid \in Interfaces(s)
  BY DEF Interfaces
<1> QED BY <1>2, <1>3, <1>5, <1>6, <1>7 DEF Operation

(* An operation's number when all scopes have theirs.                      *)
LEMMA IDFacts ==
  ASSUME NumbersInv, phase = "done", NEW s \in Scope, NEW o \in Operations(s)
  PROVE  /\ ID(o) \in Nat
         /\ Attributes(o).fid = UNKNOWN =>
              /\ ID(o) = firstfid[o[1]] + o[2] - 1
              /\ firstfid[o[1]] <= ID(o) /\ ID(o) < nextfid[o[1]]
<1>1. prog \in Programs
  BY DEF NumbersInv, IDInv
<1>2. /\ o[1] \in Scope /\ o[2] \in 1 .. Len(prog[o[1]].ops) /\ Len(prog[o[1]].ops) \in Nat
      /\ Attributes(o).fid \in Nat \cup {UNKNOWN}
  BY <1>1, OperationFacts
<1>3. nextfid[o[1]] # UNKNOWN /\ firstfid[o[1]] # UNKNOWN
  BY <1>2 DEF NumbersInv, PassInv, IDInv, SortInv
<1>4. firstfid[o[1]] \in Nat
  BY <1>2, <1>3 DEF NumbersInv, IDInv, TypeOK
<1>5. nextfid[o[1]] = firstfid[o[1]] + Len(prog[o[1]].ops)
  BY <1>2, <1>3 DEF NumbersInv, RangeInv
<1>6. ID(o) = IF Attributes(o).fid # UNKNOWN THEN Attributes(o).fid ELSE firstfid[o[1]] + o[2] - 1
  BY DEF ID
<1> QED BY <1>2, <1>4, <1>5, <1>6

LEMMA NoCollision ==
  ASSUME NumbersInv, phase = "done", NEW s \in Scope, Interfaces(s) = {prog[s].iid},
         \A o \in Operations(s) : Attributes(o).fid = UNKNOWN
  PROVE  ~Collision(s)
<1>1. SUFFICES ASSUME NEW o \in Operations(s), NEW q \in Operations(s), q # o, ID(q) = ID(o)
               PROVE  FALSE
  BY DEF Collision, FunctionForID
<1>2. prog \in Programs
  BY DEF NumbersInv, IDInv
<1>3. /\ o = <<o[1], o[2]>> /\ o[1] \in Family(s) /\ o[1] \in Scope /\ o[2] \in Nat
      /\ q = <<q[1], q[2]>> /\ q[1] \in Family(s) /\ q[1] \in Scope /\ q[2] \in Nat
  BY <1>2, OperationFacts
<1>4. /\ ID(o) \in Nat /\ ID(o) = firstfid[o[1]] + o[2] - 1
      /\ firstfid[o[1]] <= ID(o) /\ ID(o) < nextfid[o[1]]
  BY IDFacts
<1>5. /\ ID(q) = firstfid[q[1]] + q[2] - 1
      /\ firstfid[q[1]] <= ID(q) /\ ID(q) < nextfid[q[1]]
  BY IDFacts
<1>6. /\ nextfid[o[1]] # UNKNOWN /\ nextfid[q[1]] # UNKNOWN
      /\ firstfid[o[1]] \in Nat \cup {UNKNOWN} /\ nextfid[o[1]] \in Nat \cup {UNKNOWN}
      /\ firstfid[q[1]] \in Nat \cup {UNKNOWN} /\ nextfid[q[1]] \in Nat \cup {UNKNOWN}
  BY <1>3 DEF NumbersInv, PassInv, IDInv, TypeOK
<1>7. CASE o[1] = q[1]
  <2>1. o[2] = q[2]
    BY <1>1, <1>3, <1>4, <1>5, <1>6, <1>7 DEF UNKNOWN
  <2> QED BY <2>1, <1>1, <1>3, <1>7
<1>8. CASE o[1] # q[1]
  <2>1. <<o[1], q[1]>> \in Apart
    BY <1>2, <1>3, <1>8, FamilyApart
  <2>2. nextfid[o[1]] <= firstfid[q[1]] \/ nextfid[q[1]] <= firstfid[o[1]]
    BY <2>1, <1>6 DEF NumbersInv, RangeInv
  <2> QED BY <2>2, <1>1, <1>4, <1>5, <1>6 DEF UNKNOWN
<1> QED BY <1>7, <1>8

(* A server whose interface and everything it inherits from share one      *)
(* number, with no numbers given by hand, tells all its methods apart, for *)
(* every program (be/source.cc, commit; be/interface.cc, getFunctionForID).*)
THEOREM MethodsDistinguished == Spec => []SameInterfaceNumber
<1>1. NumbersInv => SameInterfaceNumber
  BY NoCollision DEF SameInterfaceNumber
<1> QED BY InitNumbers, NextNumbers, <1>1, PTL DEF Spec

-----------------------------------------------------------------------------
(* A call reaches its function                                             *)

TableSizes ==
  {1, 2, 4, 8, 16, 32, 64, 128, 256, 512, 1024, 2048, 4096, 8192, 16384, 32768, 65536}

LEMMA PowersOfTwo == {2 ^ i : i \in 0 .. 16} = TableSizes
<1>1. 0 .. 16 = {0, 1, 2, 3, 4, 5, 6, 7, 8, 9, 10, 11, 12, 13, 14, 15, 16}
  OBVIOUS
<1>2. /\ 2 ^ 0 = 1 /\ 2 ^ 1 = 2 /\ 2 ^ 2 = 4 /\ 2 ^ 3 = 8 /\ 2 ^ 4 = 16 /\ 2 ^ 5 = 32
      /\ 2 ^ 6 = 64 /\ 2 ^ 7 = 128 /\ 2 ^ 8 = 256 /\ 2 ^ 9 = 512 /\ 2 ^ 10 = 1024
      /\ 2 ^ 11 = 2048 /\ 2 ^ 12 = 4096 /\ 2 ^ 13 = 8192 /\ 2 ^ 14 = 16384
      /\ 2 ^ 15 = 32768 /\ 2 ^ 16 = 65536
  OBVIOUS
<1>3. {2 ^ i : i \in 0 .. 16} =
        {2 ^ 0, 2 ^ 1, 2 ^ 2, 2 ^ 3, 2 ^ 4, 2 ^ 5, 2 ^ 6, 2 ^ 7, 2 ^ 8, 2 ^ 9, 2 ^ 10, 2 ^ 11,
         2 ^ 12, 2 ^ 13, 2 ^ 14, 2 ^ 15, 2 ^ 16}
  BY ONLY <1>1, SMTT(60)
<1> QED BY ONLY <1>2, <1>3 DEF TableSizes

(* The loop finds the smallest table that has an entry for the number.     *)
LEMMA PowerAbove ==
  ASSUME NEW n \in Nat, n < 2 ^ 16
  PROVE  /\ PowerOfTwoAbove(n) \in TableSizes /\ PowerOfTwoAbove(n) > n
         /\ \A k \in TableSizes : k > n => PowerOfTwoAbove(n) <= k
<1> DEFINE S == {k \in TableSizes : k > n}
<1>1. S \in SUBSET Nat /\ S # {}
  <2>1. 65536 \in S
    BY DEF TableSizes
  <2>2. TableSizes \subseteq Nat
    BY DEF TableSizes
  <2>3. S \subseteq TableSizes
    OBVIOUS
  <2> HIDE DEF S
  <2> QED BY ONLY <2>1, <2>2, <2>3
<1>2. PICK m \in S : \A k \in S : m <= k
  <2> HIDE DEF S
  <2> QED BY <1>1, NatMin
<1>3. PowerOfTwoAbove(n) = Min(S)
  BY PowersOfTwo DEF PowerOfTwoAbove
<1> HIDE DEF S
<1>4. Min(S) \in S /\ \A k \in S : Min(S) <= k
  BY <1>2 DEF Min
<1> QED BY <1>3, <1>4 DEF S

(* The greatest number of a table, of those below a bound.                 *)
LEMMA IDMaxFacts ==
  ASSUME NEW ops, NEW n \in Nat, n > 0, \A o \in ops : ID(o) \in Nat /\ ID(o) < n
  PROVE  IDMax(ops) \in Nat /\ IDMax(ops) < n /\ \A o \in ops : ID(o) <= IDMax(ops)
<1> DEFINE S == {0} \cup {ID(o) : o \in ops}
<1>1. S \in SUBSET (0 .. n - 1)
  OBVIOUS
<1>2. IsFiniteSet(0 .. n - 1)
  BY FS_Interval
<1>3. IsFiniteSet(S) /\ S \in SUBSET Int /\ S # {}
  <2>1. IsFiniteSet(S)
    <3> HIDE DEF S
    <3> QED BY <1>1, <1>2, FS_Subset
  <2> QED BY <1>1, <2>1
<1>4. Max(S) \in S /\ \A y \in S : y <= Max(S)
  <2> HIDE DEF S
  <2> QED BY <1>3, MaxExists
<1>5. IDMax(ops) = Max(S)
  BY DEF IDMax
<1>6. IDMax(ops) \in 0 .. n - 1
  <2> HIDE DEF S
  <2> QED BY <1>1, <1>4, <1>5
<1>7. \A o \in ops : ID(o) <= IDMax(ops)
  BY <1>4, <1>5
<1> QED BY <1>6, <1>7

LEMMA IIDMaxFacts ==
  ASSUME prog \in Programs, NEW s \in Scope, \A iid \in Interfaces(s) : iid < 2 ^ 16
  PROVE  /\ Interfaces(s) \subseteq Nat /\ IsFiniteSet(Interfaces(s))
         /\ prog[s].iid \in Interfaces(s)
         /\ Max(Interfaces(s)) \in Nat /\ Max(Interfaces(s)) < 2 ^ 16
         /\ \A iid \in Interfaces(s) : iid <= Max(Interfaces(s))
<1>1. \A b \in Family(s) : prog[b].iid \in Nat
  <2>1. prog \in Seq(Declaration) /\ Family(s) \subseteq DOMAIN prog
    BY ProgramAssumption DEF Program, Family, Scope
  <2>2. \A b \in Family(s) : prog[b] \in Declaration
    BY <2>1
  <2> QED BY <2>2 DEF Declaration
<1>2. Interfaces(s) \subseteq Nat /\ prog[s].iid \in Interfaces(s)
  BY <1>1 DEF Interfaces, Family
<1>3. IsFiniteSet(Interfaces(s))
  <2>1. 2 ^ 16 = 65536
    OBVIOUS
  <2>2. \A iid \in Interfaces(s) : iid <= 65536
    BY <1>2, <2>1
  <2>3. Interfaces(s) \in SUBSET Nat /\ 65536 \in Nat
    BY <1>2
  <2> QED BY ONLY <2>2, <2>3, FS_BoundedSetOfNaturals
<1>4. IsFiniteSet(Interfaces(s)) /\ Interfaces(s) \in SUBSET Int /\ Interfaces(s) # {}
  BY <1>2, <1>3
<1>5. Max(Interfaces(s)) \in Interfaces(s) /\ \A y \in Interfaces(s) : y <= Max(Interfaces(s))
  BY <1>4, MaxExists
<1> QED BY <1>2, <1>4, <1>5

LEMMA SmallRemainder ==
  ASSUME NEW d \in Nat, NEW k \in Nat, d < k
  PROVE  d % k = d
OBVIOUS

(* A user operation's label leads to its entry.                            *)
LEMMA UserLabel ==
  ASSUME NEW d \in Nat, d < 2 ^ FID_SIZE, NEW f \in Nat, f <= 1000, NEW label,
         label = (d + f * 2 ^ FID_SIZE) % 2 ^ 16
  PROVE  ~IsKernelMessage(label) /\ FunctionID(label) = d /\ InterfaceID(label) = f
<1>1. 2 ^ 6 = 64 /\ 2 ^ 8 = 256 /\ 2 ^ 10 = 1024 /\ 2 ^ 16 = 65536
  OBVIOUS
<1>2. d < 64 /\ label = (d + f * 64) % 65536
  BY <1>1 DEF FID_SIZE
<1>3. d + f * 64 \in Nat /\ d + f * 64 < 65280
  BY <1>2
<1>4. label = d + f * 64
  BY <1>2, <1>3
<1>5. label \div 256 # 255
  BY <1>3, <1>4
<1>6. label % 64 = d /\ label \div 64 = f
  BY <1>2, <1>4
<1>7. f % 1024 = f
  OBVIOUS
<1> QED BY <1>1, <1>5, <1>6, <1>7 DEF IsKernelMessage, FunctionID, InterfaceID, FID_SIZE, IID_BITS

(* So does a kernel message's, whatever the access rights.                 *)
LEMMA KernelLabel ==
  ASSUME NEW d \in 1 .. 16, NEW privileges \in 0 .. 7, NEW label, NEW k \in TableSizes,
         label = ((2 ^ 12 - 1 - (d - 1)) * 16 + privileges) % 2 ^ 16,
         d < k, k <= 2 ^ 12
  PROVE  IsKernelMessage(label) /\ KernelMessageID(label) % k = d
<1>1. 2 ^ 8 = 256 /\ 2 ^ 12 = 4096 /\ 2 ^ 16 = 65536
  OBVIOUS
<1>2. label = ((4096 - d) * 16 + privileges) % 65536
  BY <1>1
<1>3. (4096 - d) * 16 + privileges \in 65280 .. 65535
  OBVIOUS
<1>4. label = (4096 - d) * 16 + privileges
  BY <1>2, <1>3
<1>5. label \div 256 = 255
  BY <1>3, <1>4
<1>6. label \div 16 = 4096 - d
  BY <1>4
<1>7. (-(4096 - d)) % k = d
  <2>1. k \in {1, 2, 4, 8, 16, 32, 64, 128, 256, 512, 1024, 2048, 4096}
    BY <1>1 DEF TableSizes
  <2> QED BY <2>1
<1> QED BY <1>1, <1>5, <1>6, <1>7 DEF IsKernelMessage, KernelMessageID

LEMMA CallDispatched ==
  ASSUME NumbersInv, phase = "done", NEW s \in Scope, ~Collision(s), Tabulated(s),
         NEW o \in Operations(s), Supported(o), NEW label \in Labels(o)
  PROVE  Process(s, label) = {o}
<1>1. prog \in Programs
  BY DEF NumbersInv, IDInv
<1>2. FunctionForID(s, ID(o), Interface(o)) = {o}
  BY DEF Collision
<1>3. \A q \in Operations(s) : ID(q) \in Nat
  BY IDFacts
<1>4. Attributes(o).kernel \in BOOLEAN /\ prog[o[1]].iid \in Interfaces(s)
  BY <1>1, OperationFacts
<1>5. KernelOperations(s) \subseteq Operations(s) /\ UserOperations(s) \subseteq Operations(s)
  BY DEF KernelOperations, UserOperations
<1>6. CASE ~Attributes(o).kernel
  <2> DEFINE d == ID(o)
             f == prog[o[1]].iid
  <2>1. o \in UserOperations(s)
    BY <1>6 DEF UserOperations, KernelOperations
  <2>2. d \in Nat /\ d < 2 ^ FID_SIZE /\ f <= 1000 /\ label = (d + f * 2 ^ FID_SIZE) % 2 ^ 16
    BY <1>3, <1>6 DEF Supported, Labels
  <2>3. /\ Interfaces(s) \subseteq Nat /\ IsFiniteSet(Interfaces(s)) /\ prog[s].iid \in Interfaces(s)
        /\ Max(Interfaces(s)) \in Nat /\ Max(Interfaces(s)) < 2 ^ 16
        /\ \A iid \in Interfaces(s) : iid <= Max(Interfaces(s))
    BY <1>1, IIDMaxFacts DEF Tabulated
  <2>4. f \in Nat /\ f <= Max(Interfaces(s))
    BY <1>4, <2>3
  <2>5. ~IsKernelMessage(label) /\ FunctionID(label) = d /\ InterfaceID(label) = f
    <3> HIDE DEF d, f
    <3> QED BY <2>2, <2>4, UserLabel
  <2>6. VtableSize(s) \in Nat /\ d < VtableSize(s)
    <3>1. 2 ^ 16 \in Nat /\ 2 ^ 16 > 0
      OBVIOUS
    <3>2. \A q \in UserOperations(s) : ID(q) \in Nat /\ ID(q) < 2 ^ 16
      BY <1>3, <1>5 DEF Tabulated
    <3>3. /\ IDMax(UserOperations(s)) \in Nat /\ IDMax(UserOperations(s)) < 2 ^ 16
          /\ d <= IDMax(UserOperations(s))
      BY <2>1, <3>1, <3>2, IDMaxFacts
    <3>4. VtableSize(s) \in TableSizes /\ VtableSize(s) > IDMax(UserOperations(s))
      BY <3>3, PowerAbove DEF VtableSize
    <3>5. VtableSize(s) \in Nat
      BY <3>4 DEF TableSizes
    <3> HIDE DEF d
    <3> QED BY <2>2, <3>3, <3>4, <3>5
  <2>7. ItableSize(s) \in Nat /\ f < ItableSize(s)
    <3>1. ItableSize(s) \in TableSizes /\ ItableSize(s) > Max(Interfaces(s))
      BY <2>3, PowerAbove DEF ItableSize
    <3>2. ItableSize(s) \in Nat
      BY <3>1 DEF TableSizes
    <3> HIDE DEF f
    <3> QED BY <2>3, <2>4, <3>1, <3>2
  <2> HIDE DEF d, f
  <2>8. d % VtableSize(s) = d /\ f % ItableSize(s) = f
    BY <2>2, <2>4, <2>6, <2>7, SmallRemainder
  <2>9. Cardinality(Interfaces(s)) = 1 => prog[s].iid = f
    <3>1. ASSUME Cardinality(Interfaces(s)) = 1  PROVE prog[s].iid = f
      <4>1. PICK x : Interfaces(s) = {x}
        BY <2>3, <3>1, FS_Singleton
      <4> QED BY <4>1, <2>3, <1>4 DEF f
    <3> QED BY <3>1
  <2>10. Process(s, label) = FunctionForID(s, d, f)
    BY <2>1, <2>5, <2>8, <2>9 DEF Process
  <2>11. Interface(o) = f
    BY <1>6 DEF Interface, f
  <2> QED BY <2>10, <2>11, <1>2 DEF d
<1>7. CASE Attributes(o).kernel
  <2> DEFINE d == ID(o)
  <2>1. o \in KernelOperations(s)
    BY <1>7 DEF KernelOperations
  <2>2. d \in 1 .. 16
    BY <1>7 DEF Supported
  <2>3. PICK privileges \in 0 .. 7 : label = ((2 ^ 12 - 1 - (d - 1)) * 16 + privileges) % 2 ^ 16
    <3>1. d # 0
      BY <2>2
    <3> HIDE DEF d
    <3>2. Labels(o) = {((2 ^ 12 - 1 - (d - 1)) * 16 + privileges) % 2 ^ 16 : privileges \in 0 .. 7}
      BY <1>7, <3>1 DEF Labels, d
    <3> QED BY <3>2
  <2>4. KtableSize(s) \in TableSizes /\ d < KtableSize(s) /\ KtableSize(s) <= 2 ^ 12
    <3>1. 2 ^ 12 = 4096 /\ 2 ^ 16 = 65536
      OBVIOUS
    <3>2. \A q \in KernelOperations(s) : ID(q) \in Nat /\ ID(q) < 4096
      BY <1>3, <1>5, <3>1 DEF Tabulated
    <3>3. /\ IDMax(KernelOperations(s)) \in Nat /\ IDMax(KernelOperations(s)) < 4096
          /\ d <= IDMax(KernelOperations(s))
      BY <2>1, <3>2, IDMaxFacts
    <3>4. IDMax(KernelOperations(s)) < 2 ^ 16
      BY <3>1, <3>3
    <3>5. /\ KtableSize(s) \in TableSizes /\ KtableSize(s) > IDMax(KernelOperations(s))
          /\ \A k \in TableSizes : k > IDMax(KernelOperations(s)) => KtableSize(s) <= k
      BY <3>3, <3>4, PowerAbove DEF KtableSize
    <3>6. KtableSize(s) <= 4096
      <4>1. 4096 \in TableSizes
        BY DEF TableSizes
      <4> QED BY <4>1, <3>3, <3>5
    <3>7. KtableSize(s) \in Nat
      BY <3>5 DEF TableSizes
    <3> HIDE DEF d
    <3> QED BY <2>2, <3>1, <3>3, <3>5, <3>6, <3>7
  <2> HIDE DEF d
  <2>5. IsKernelMessage(label) /\ KernelMessageID(label) % KtableSize(s) = d
    BY <2>2, <2>3, <2>4, KernelLabel
  <2>6. Process(s, label) = FunctionForID(s, d, IID_KERNEL)
    BY <2>1, <2>5 DEF Process
  <2>7. Interface(o) = IID_KERNEL
    BY <1>7 DEF Interface
  <2> QED BY <2>6, <2>7, <1>2 DEF d
<1> QED BY <1>4, <1>6, <1>7

(* A call within the limits of the format reaches its function in every    *)
(* server that implements it, for every program (arch/v4/clientcall.cc,    *)
(* buildMessageTag; arch/v4/serverloop.cc).                                *)
THEOREM CallsDispatched == Spec => []CallsReachTheirFunction
<1>1. NumbersInv => CallsReachTheirFunction
  BY CallDispatched DEF CallsReachTheirFunction
<1> QED BY InitNumbers, NextNumbers, <1>1, PTL DEF Spec
=============================================================================
