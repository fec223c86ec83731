------------------------- MODULE V4ServerLoopProofs -------------------------
(***************************************************************************)
(* Proofs about the generated server loop, for any number of clients, of   *)
(* string buffers and of requests, any nested calls, and both ways to      *)
(* combine the counts of buffer registers to restore.                      *)
(***************************************************************************)
EXTENDS V4ServerLoop, FiniteSetTheorems, TLAPS

-----------------------------------------------------------------------------
(* Counting buffer registers                                               *)

(* Half of the buffer registers beside BR0.                                *)
LEMMA HalfRegisters == \E h \in Nat \ {0} : LastBR = 2 * h /\ LastBR \div 2 = h
  BY ServerAssumption

(* Combined counts are counts, and cover both.                             *)
LEMMA JoinedCounts ==
  ASSUME NEW a \in 0 .. MaxCount, NEW b \in 0 .. MaxCount
  PROVE  Joined(a, b) \in 0 .. MaxCount /\ Joined(a, b) >= a /\ Joined(a, b) >= b
  BY JoinAssumption

(* A nested call reports as many registers as it loads, and they are the   *)
(* first ones.                                                             *)
LEMMA LoadsCounted ==
  ASSUME NEW call \in Call
  PROVE  /\ UsedBRs(call) \in 0 .. MaxCount
         /\ Loads(call) \subseteq Register
         /\ \A i \in Register : i \in Loads(call) <=> i < UsedBRs(call)
<1>1. PICK h \in Nat \ {0} : LastBR = 2 * h /\ LastBR \div 2 = h
  BY HalfRegisters
<1>2. call.buffers \in 0 .. h /\ call.window \in BOOLEAN
  BY <1>1 DEF Call
<1>3. MaxCount \in Nat /\ LastBR + 1 <= MaxCount
  BY JoinAssumption
<1>4. CASE call.buffers > 0
  <2>1. Loads(call) = 0 .. 2 * call.buffers
    BY <1>4 DEF Loads
  <2>2. Cardinality(0 .. 2 * call.buffers) = 2 * call.buffers + 1
    <3>1. 0 \in Int /\ 2 * call.buffers \in Int /\ 0 <= 2 * call.buffers
      BY <1>2
    <3>2. Cardinality(0 .. 2 * call.buffers) = 2 * call.buffers - 0 + 1
      BY <3>1, FS_Interval
    <3> QED BY <3>2, <1>2
  <2> QED BY <2>1, <2>2, <1>1, <1>2, <1>3 DEF UsedBRs, Register
<1>5. CASE ~(call.buffers > 0) /\ call.window
  <2>1. Loads(call) = {0} BY <1>5 DEF Loads
  <2>2. Cardinality({0}) = 1 BY FS_Singleton
  <2> QED BY <2>1, <2>2, <1>1, <1>3 DEF UsedBRs, Register
<1>6. CASE ~(call.buffers > 0) /\ ~call.window
  <2>1. Loads(call) = {} BY <1>6 DEF Loads
  <2>2. Cardinality({}) = 0 BY FS_EmptySet
  <2> QED BY <2>1, <2>2, <1>1, <1>3 DEF UsedBRs, Register
<1> QED BY <1>4, <1>5, <1>6

(* The words nested calls load are words.                                  *)
LEMMA ClientWordType ==
  ASSUME NEW call \in Call, NEW i \in Register
  PROVE  ClientWord(call, i) \in Word
<1>1. (IF i = 0 THEN call.buffers > 0
       ELSE i % 2 = 1 /\ (i + 1) \div 2 < call.buffers) \in BOOLEAN
  <2>1. (call.buffers > 0) \in BOOLEAN
    BY DEF Call
  <2>2. (i % 2 = 1 /\ (i + 1) \div 2 < call.buffers) \in BOOLEAN
    BY Zenon
  <2> QED BY <2>1, <2>2, Zenon
<1> QED BY <1>1 DEF ClientWord, Word

-----------------------------------------------------------------------------
(* The chain of string buffers                                             *)

(* Where the word is that says whether buffer k exists.                    *)
ChainPos(k) == IF k = 0 THEN LastBR ELSE LastBR + 1 - 2 * k

Pointer(k) == [more |-> FALSE, what |-> "pointer", num |-> k]

(* The buffers added so far are linked, and the last one ends the chain.   *)
ChainInv ==
  pc # "init" =>
    /\ \A k \in 0 .. cnt : rbuf[ChainPos(k)].more <=> k < cnt
    /\ \A k \in 1 .. cnt : rbuf[LastBR - 2 * k] = Pointer(k - 1)

(* Whatever differs from the message buffer is going to be restored.       *)
RestoreInv ==
  /\ pc # "init" => \A i \in 0 .. 2 * cnt : i < counter \/ BR[i] = rbuf[LastBR - i]
  /\ pc \in {"reply", "receive"} => counter = 0

SetupInv ==
  /\ pc = "init" => cnt = 0
  /\ pc \notin {"init", "buffers"} => cnt = NumBuffers

ServerInv == TypeOK /\ ChainInv /\ RestoreInv /\ SetupInv

(* The positions of the chain words are distinct registers.                *)
LEMMA ChainPositions ==
  ASSUME NEW n \in Nat, 2 * n <= LastBR
  PROVE  /\ ChainPos(n) \in ChainWords
         /\ ChainPos(n) \in Register
         /\ AfterWord(ChainPos(n)) = LastBR - 2 * n - 1
         /\ \A k \in 0 .. n : ChainPos(k) \in Register /\ (k # n => ChainPos(k) > ChainPos(n))
<1>1. PICK h \in Nat \ {0} : LastBR = 2 * h
  BY HalfRegisters
<1> QED BY <1>1 DEF ChainPos, ChainWords, Register, AfterWord

(* Every chain word is the position of some buffer.                        *)
LEMMA ChainIndex ==
  ASSUME NEW i \in ChainWords
  PROVE  \E k \in Nat : 2 * k <= LastBR /\ i = ChainPos(k)
<1>1. PICK h \in Nat \ {0} : LastBR = 2 * h
  BY HalfRegisters
<1>2. CASE i = LastBR
  <2>1. 0 \in Nat /\ 2 * 0 <= LastBR /\ i = ChainPos(0)
    BY <1>1, <1>2 DEF ChainPos
  <2> QED BY <2>1
<1>3. CASE i # LastBR
  <2>1. i \in 1 .. LastBR - 1 /\ i % 2 = 1
    BY <1>3 DEF ChainWords
  <2>2. PICK m \in Nat : i = 2 * m + 1
    <3>1. i = 2 * (i \div 2) + 1 /\ i \div 2 \in Nat BY <2>1
    <3> QED BY <3>1
  <2>3. h - m \in Nat /\ h - m # 0 /\ 2 * (h - m) <= LastBR /\ i = ChainPos(h - m)
    BY <1>1, <2>1, <2>2 DEF ChainPos
  <2> QED BY <2>3
<1> QED BY <1>2, <1>3

(* The walk of idl4_msgbuf_add_buffer ends behind the buffers added so far. *)
LEMMA ChainEnd ==
  ASSUME ServerInv, pc = "buffers", cnt < NumBuffers,
         NEW i \in Register, IsChainEnd(i)
  PROVE  i = ChainPos(cnt)
<1>1. cnt \in Nat /\ 2 * cnt <= LastBR
  BY ServerAssumption DEF ServerInv, TypeOK
<1>2. i \in ChainWords /\ ~rbuf[i].more /\ \A j \in ChainWords : j > i => rbuf[j].more
  BY DEF IsChainEnd
<1>3. PICK k \in Nat : 2 * k <= LastBR /\ i = ChainPos(k)
  BY <1>2, ChainIndex
<1>4. \A m \in 0 .. cnt : rbuf[ChainPos(m)].more <=> m < cnt
  BY DEF ServerInv, ChainInv
<1>5. ~(k < cnt)
  BY <1>1, <1>2, <1>3, <1>4
<1>6. ~(k > cnt)
  <2> SUFFICES ASSUME k > cnt  PROVE FALSE
    OBVIOUS
  <2>1. ChainPos(cnt) \in ChainWords
    BY <1>1, ChainPositions
  <2>2. ChainPos(cnt) > i
    BY <1>1, <1>3, ChainPositions
  <2>3. ~rbuf[ChainPos(cnt)].more
    BY <1>1, <1>4
  <2> QED BY <1>2, <2>1, <2>2, <2>3
<1> QED BY <1>1, <1>3, <1>5, <1>6

-----------------------------------------------------------------------------
(* Each step preserves the invariant                                       *)

LEMMA InitServerInv == Init => ServerInv
<1> SUFFICES ASSUME Init  PROVE ServerInv
  OBVIOUS
<1>1. junk \in Word
  BY DEF junk, Word
<1>2. counter \in 0 .. MaxCount
  BY ServerAssumption, JoinAssumption DEF Init
<1>3. TypeOK
  <2>1. NoRequest \in Request
    BY DEF Request, NoRequest
  <2>2. cnt \in 0 .. NumBuffers
    BY ServerAssumption DEF Init
  <2>3. rbuf \in [Register -> Word] /\ BR \in [Register -> Word]
    BY <1>1 DEF Init
  <2>4. client \in [Client -> {"idle", "sending", "sending_oneway", "waiting"}]
    BY DEF Init
  <2>5. req \in [Client -> Nat] /\ answer \in [Client -> Request]
    BY <2>1 DEF Init
  <2> QED BY <1>2, <2>1, <2>2, <2>3, <2>4, <2>5 DEF Init, TypeOK
<1> QED BY <1>3 DEF Init, ServerInv, ChainInv, RestoreInv, SetupInv

LEMMA MsgbufInitStep ==
  ASSUME ServerInv, MsgbufInit
  PROVE  ServerInv'
<1>1. PICK h \in Nat \ {0} : LastBR = 2 * h
  BY HalfRegisters
<1> DEFINE window == [more |-> FALSE, what |-> "window", num |-> 0]
<1>2. window \in Word /\ window.more = FALSE
  BY DEF Word
<1>3. rbuf' = [rbuf EXCEPT ![LastBR] = window] /\ counter' = 1 /\ pc' = "buffers"
  BY DEF MsgbufInit
<1> HIDE DEF window
<1>4. LastBR \in Register
  BY <1>1 DEF Register
<1>5. rbuf' \in [Register -> Word]
  BY <1>2, <1>3, <1>4 DEF ServerInv, TypeOK
<1>6. 1 \in 0 .. MaxCount
  BY <1>1, JoinAssumption
<1>7. TypeOK'
  BY <1>3, <1>5, <1>6 DEF ServerInv, TypeOK, MsgbufInit, clientVars, request
<1>8. cnt' = cnt
  BY DEF MsgbufInit
<1>9. cnt = 0
  BY DEF MsgbufInit, ServerInv, SetupInv
<1>10. ChainInv'
  <2>1. rbuf'[LastBR] = window
    BY <1>3, <1>4 DEF ServerInv, TypeOK
  <2> QED BY <1>2, <1>8, <1>9, <2>1 DEF ChainInv, ChainPos
<1>11. RestoreInv'
  BY <1>3, <1>8, <1>9 DEF RestoreInv
<1> QED BY <1>3, <1>7, <1>10, <1>11 DEF ServerInv, SetupInv

LEMMA AddBufferStep ==
  ASSUME ServerInv, AddBuffer
  PROVE  ServerInv'
<1>1. PICK h \in Nat \ {0} : LastBR = 2 * h
  BY HalfRegisters
<1> DEFINE p == ChainPos(cnt)
           q == LastBR - 2 * cnt - 1
           length == [more |-> FALSE, what |-> "length", num |-> 0]
<1>2. pc = "buffers" /\ cnt < NumBuffers /\ cnt' = cnt + 1 /\ pc' = pc /\ BR' = BR
  BY DEF AddBuffer
<1>3. cnt \in Nat /\ NumBuffers \in Nat /\ 2 * (cnt + 1) <= LastBR
  BY <1>2, ServerAssumption DEF ServerInv, TypeOK
<1>4. PICK i \in Register :
        /\ IsChainEnd(i)
        /\ rbuf' = [rbuf EXCEPT
             ![i].more = TRUE,
             ![AfterWord(i)] = length,
             ![AfterWord(i) - 1] = [more |-> FALSE, what |-> "pointer", num |-> cnt]]
        /\ counter' = Joined(counter, LastBR - (AfterWord(i) - 2))
  BY DEF AddBuffer, SetCounterMinimum
<1>5. i = p
  BY <1>2, <1>4, ChainEnd
<1>6. p \in Register /\ q \in Register /\ q - 1 \in Register /\ p # q /\ p # q - 1
     /\ q # q - 1
  BY <1>1, <1>3 DEF Register, ChainPos
<1>7. AfterWord(p) = q
  <2>1. 2 * cnt <= LastBR
    BY <1>1, <1>3
  <2> QED BY <1>3, <2>1, ChainPositions
<1>8. rbuf \in [Register -> Word] /\ rbuf[p] \in Word
  BY <1>6 DEF ServerInv, TypeOK
<1>9. length \in Word /\ length.more = FALSE /\ Pointer(cnt) \in Word
  BY <1>3 DEF Word, Pointer
<1>10. [rbuf[p] EXCEPT !.more = TRUE] \in Word /\ [rbuf[p] EXCEPT !.more = TRUE].more
  BY <1>8 DEF Word
<1>11. rbuf' = [rbuf EXCEPT ![p].more = TRUE, ![q] = length, ![q - 1] = Pointer(cnt)]
  BY <1>4, <1>5, <1>7 DEF Pointer
<1> HIDE DEF length
<1>12. /\ rbuf' \in [Register -> Word]
       /\ rbuf'[p].more
       /\ rbuf'[q] = length
       /\ rbuf'[q - 1] = Pointer(cnt)
       /\ \A j \in Register : j \notin {p, q, q - 1} => rbuf'[j] = rbuf[j]
  <2> DEFINE r == [rbuf[p] EXCEPT !.more = TRUE]
  <2>1. rbuf' = [j \in Register |-> IF j = q - 1 THEN Pointer(cnt) ELSE
                   IF j = q THEN length ELSE IF j = p THEN r ELSE rbuf[j]]
    <3> HIDE DEF p, q
    <3> QED BY <1>6, <1>8, <1>11
  <2>2. r \in Word /\ r.more
    BY <1>10
  <2> HIDE DEF p, q, r
  <2>3. \A j \in Register : rbuf'[j] \in Word
    BY <1>8, <1>9, <2>1, <2>2, Zenon
  <2> QED BY <1>6, <2>1, <2>2, <2>3
<1>13. counter' \in 0 .. MaxCount /\ counter' >= 2 * cnt + 3
  <2>1. counter \in 0 .. MaxCount
    BY DEF ServerInv, TypeOK
  <2>2. LastBR - (AfterWord(i) - 2) = 2 * cnt + 3
    BY <1>1, <1>3, <1>5, <1>7
  <2>3. 2 * cnt + 3 \in 0 .. MaxCount
    BY <1>3, ServerAssumption, JoinAssumption
  <2> QED BY <1>4, <2>1, <2>2, <2>3, JoinedCounts
<1>14. TypeOK'
  <2>1. cnt' \in 0 .. NumBuffers
    BY <1>2, <1>3
  <2> QED BY <1>2, <1>12, <1>13, <2>1
       DEF ServerInv, TypeOK, AddBuffer, clientVars, request
<1>15. ChainInv'
  <2>1. ASSUME NEW k \in 0 .. cnt + 1  PROVE rbuf'[ChainPos(k)].more <=> k < cnt + 1
    <3>1. CASE k = cnt + 1
      <4>1. ChainPos(k) = q
        BY <1>1, <1>3, <3>1 DEF ChainPos
      <4> QED BY <1>3, <1>9, <1>12, <3>1, <4>1
    <3>2. CASE k = cnt
      BY <1>3, <1>12, <3>2
    <3>3. CASE k < cnt
      <4>1. ChainPos(k) \in Register /\ ChainPos(k) \notin {p, q, q - 1}
        BY <1>1, <1>3, <3>3 DEF ChainPos, Register
      <4>2. rbuf[ChainPos(k)].more
        BY <1>2, <1>3, <3>3 DEF ServerInv, ChainInv
      <4>3. rbuf'[ChainPos(k)] = rbuf[ChainPos(k)]
        BY <1>12, <4>1
      <4>4. k < cnt + 1
        BY <1>3, <3>3
      <4> QED BY <4>2, <4>3, <4>4
    <3> QED BY <1>3, <3>1, <3>2, <3>3
  <2>2. ASSUME NEW k \in 1 .. cnt + 1  PROVE rbuf'[LastBR - 2 * k] = Pointer(k - 1)
    <3>1. CASE k = cnt + 1
      <4>1. LastBR - 2 * k = q - 1 /\ k - 1 = cnt
        BY <1>1, <1>3, <3>1
      <4> QED BY <1>12, <4>1
    <3>2. CASE k # cnt + 1
      <4>1. k \in 1 .. cnt
        BY <1>3, <3>2
      <4>2. LastBR - 2 * k \in Register /\ LastBR - 2 * k \notin {p, q, q - 1}
        BY <1>1, <1>3, <4>1 DEF ChainPos, Register
      <4>3. rbuf[LastBR - 2 * k] = Pointer(k - 1)
        BY <1>2, <4>1 DEF ServerInv, ChainInv
      <4> QED BY <1>12, <4>2, <4>3
    <3> QED BY <3>1, <3>2
  <2> QED BY <1>2, <2>1, <2>2 DEF ChainInv
<1>16. RestoreInv'
  BY <1>2, <1>3, <1>13 DEF RestoreInv
<1> QED BY <1>2, <1>14, <1>15, <1>16 DEF ServerInv, SetupInv

LEMMA SetRcvWindowStep ==
  ASSUME ServerInv, SetRcvWindow
  PROVE  ServerInv'
<1>1. PICK h \in Nat \ {0} : LastBR = 2 * h
  BY HalfRegisters
<1>2. pc = "buffers" /\ cnt = NumBuffers /\ cnt' = cnt /\ pc' = "outer" /\ BR' = BR
  BY DEF SetRcvWindow
<1>3. cnt \in Nat /\ 2 * cnt <= LastBR /\ LastBR \in Register /\ counter \in 0 .. MaxCount
  BY <1>1, <1>2, ServerAssumption DEF ServerInv, TypeOK, Register
<1>4. rbuf \in [Register -> Word] /\ rbuf[LastBR] \in Word
  BY <1>3 DEF ServerInv, TypeOK
<1> DEFINE window == [[rbuf[LastBR] EXCEPT !.what = "window"] EXCEPT !.num = 1]
<1>5. window \in Word /\ window.more = rbuf[LastBR].more
  BY <1>4 DEF Word
<1>6. CASE UNCHANGED <<rbuf, counter>>
  <2>1. TypeOK'
    BY <1>2, <1>6 DEF SetRcvWindow, ServerInv, TypeOK, clientVars, request
  <2>2. ChainInv' /\ RestoreInv'
    BY <1>2, <1>6 DEF ServerInv, ChainInv, RestoreInv
  <2> QED BY <1>2, <2>1, <2>2 DEF ServerInv, SetupInv
<1>7. CASE /\ rbuf' = [rbuf EXCEPT ![LastBR].what = "window", ![LastBR].num = 1]
           /\ SetCounterMinimum(1)
  <2>1. counter' \in 0 .. MaxCount /\ counter' >= counter /\ counter' >= 1
    <3>1. 1 \in 0 .. MaxCount
      BY <1>1, JoinAssumption
    <3> QED BY <1>3, <1>7, <3>1, JoinedCounts DEF SetCounterMinimum
  <2>2. /\ rbuf' \in [Register -> Word]
        /\ rbuf'[LastBR].more = rbuf[LastBR].more
        /\ \A j \in Register : j # LastBR => rbuf'[j] = rbuf[j]
    <3>1. rbuf' = [rbuf EXCEPT ![LastBR] = window]
      BY <1>3, <1>4, <1>7
    <3> HIDE DEF window
    <3> QED BY <1>3, <1>4, <1>5, <3>1
  <2>3. TypeOK'
    BY <1>2, <2>1, <2>2 DEF SetRcvWindow, ServerInv, TypeOK, clientVars, request
  <2>4. ChainInv'
    <3>1. ASSUME NEW k \in 0 .. cnt  PROVE rbuf'[ChainPos(k)].more <=> k < cnt
      <4>1. rbuf[ChainPos(k)].more <=> k < cnt
        BY <1>2 DEF ServerInv, ChainInv
      <4>2. ChainPos(k) \in Register
        BY <1>1, <1>3 DEF ChainPos, Register
      <4> QED BY <2>2, <4>1, <4>2
    <3>2. ASSUME NEW k \in 1 .. cnt  PROVE rbuf'[LastBR - 2 * k] = Pointer(k - 1)
      <4>1. rbuf[LastBR - 2 * k] = Pointer(k - 1)
        BY <1>2 DEF ServerInv, ChainInv
      <4>2. LastBR - 2 * k \in Register /\ LastBR - 2 * k # LastBR
        BY <1>1, <1>3 DEF Register
      <4> QED BY <2>2, <4>1, <4>2
    <3> QED BY <1>2, <3>1, <3>2 DEF ChainInv
  <2>5. RestoreInv'
    <3>1. ASSUME NEW i \in 0 .. 2 * cnt  PROVE i < counter' \/ BR'[i] = rbuf'[LastBR - i]
      <4>1. i < counter \/ BR[i] = rbuf[LastBR - i]
        BY <1>2 DEF ServerInv, RestoreInv
      <4>2. CASE i = 0
        BY <1>3, <2>1, <4>2
      <4>3. CASE i # 0
        <5>1. LastBR - i \in Register /\ LastBR - i # LastBR
          BY <1>1, <1>3, <4>3 DEF Register
        <5> QED BY <1>2, <1>3, <2>1, <2>2, <4>1, <5>1
      <4> QED BY <4>2, <4>3
    <3> QED BY <1>2, <3>1 DEF RestoreInv
  <2> QED BY <1>2, <2>3, <2>4, <2>5 DEF ServerInv, SetupInv
<1> QED BY <1>6, <1>7 DEF SetRcvWindow

LEMMA MsgbufSyncStep ==
  ASSUME ServerInv, MsgbufSync
  PROVE  ServerInv'
<1>1. PICK h \in Nat \ {0} : LastBR = 2 * h
  BY HalfRegisters
<1>2. /\ pc = "sync" /\ pc' = "reply"
      /\ BR' = [i \in Register |-> IF i < counter THEN rbuf[LastBR - i] ELSE BR[i]]
      /\ counter' = 0 /\ rbuf' = rbuf /\ cnt' = cnt
  BY DEF MsgbufSync, Restored
<1>3. cnt = NumBuffers /\ cnt \in Nat /\ 2 * cnt <= LastBR
  BY <1>2, ServerAssumption DEF ServerInv, SetupInv
<1>4. rbuf \in [Register -> Word] /\ BR \in [Register -> Word]
  BY DEF ServerInv, TypeOK
<1>5. BR' \in [Register -> Word]
  <2>1. \A i \in Register : LastBR - i \in Register
    BY <1>1 DEF Register
  <2> QED BY <1>2, <1>4, <2>1
<1>6. 0 \in 0 .. MaxCount
  BY JoinAssumption
<1>7. TypeOK'
  BY <1>2, <1>5, <1>6 DEF MsgbufSync, ServerInv, TypeOK, clientVars, request
<1>8. ChainInv'
  BY <1>2 DEF ServerInv, ChainInv
<1>9. RestoreInv'
  <2>1. ASSUME NEW i \in 0 .. 2 * cnt  PROVE BR'[i] = rbuf'[LastBR - i]
    <3>1. i < counter \/ BR[i] = rbuf[LastBR - i]
      BY <1>2 DEF ServerInv, RestoreInv
    <3>2. i \in Register
      BY <1>1, <1>3 DEF Register
    <3> QED BY <1>2, <3>1, <3>2
  <2> QED BY <1>2, <2>1 DEF RestoreInv
<1> QED BY <1>2, <1>3, <1>7, <1>8, <1>9 DEF ServerInv, SetupInv

LEMMA NestedCallStep ==
  ASSUME ServerInv, NestedCall
  PROVE  ServerInv'
<1>1. PICK h \in Nat \ {0} : LastBR = 2 * h
  BY HalfRegisters
<1>2. PICK call \in Calls :
        /\ BR' = [i \in Register |->
                    IF i \in Loads(call) THEN ClientWord(call, i) ELSE BR[i]]
        /\ IF UsedBRs(call) > 0 THEN SetCounterMinimum(UsedBRs(call))
           ELSE UNCHANGED counter
  BY DEF NestedCall
<1>3. pc = "serving" /\ pc' = pc /\ rbuf' = rbuf /\ cnt' = cnt
  BY DEF NestedCall, serverVars
<1>4. call \in Call
  BY ServerAssumption
<1>5. UsedBRs(call) \in 0 .. MaxCount /\ \A i \in Register : i \in Loads(call) <=> i < UsedBRs(call)
  BY <1>4, LoadsCounted
<1>6. counter \in 0 .. MaxCount /\ BR \in [Register -> Word]
  BY DEF ServerInv, TypeOK
<1>7. counter' \in 0 .. MaxCount /\ counter' >= counter /\ counter' >= UsedBRs(call)
  <2>1. CASE UsedBRs(call) > 0
    BY <1>2, <1>5, <1>6, <2>1, JoinedCounts DEF SetCounterMinimum
  <2>2. CASE ~(UsedBRs(call) > 0)
    BY <1>2, <1>5, <1>6, <2>2
  <2> QED BY <2>1, <2>2
<1>8. BR' \in [Register -> Word]
  BY <1>2, <1>4, <1>6, ClientWordType
<1>9. TypeOK'
  BY <1>3, <1>7, <1>8 DEF NestedCall, ServerInv, TypeOK, clientVars, serverVars, request
<1>10. cnt \in Nat /\ 2 * cnt <= LastBR
  BY <1>3, ServerAssumption DEF ServerInv, SetupInv
<1>11. RestoreInv'
  <2>1. ASSUME NEW i \in 0 .. 2 * cnt  PROVE i < counter' \/ BR'[i] = rbuf[LastBR - i]
    <3>1. i < counter \/ BR[i] = rbuf[LastBR - i]
      BY <1>3 DEF ServerInv, RestoreInv
    <3>2. i \in Register
      BY <1>1, <1>10 DEF Register
    <3>3. CASE i < UsedBRs(call)
      BY <1>5, <1>7, <3>2, <3>3
    <3>4. CASE ~(i < UsedBRs(call))
      <4>1. BR'[i] = BR[i]
        BY <1>2, <1>5, <3>2, <3>4
      <4> QED BY <1>6, <1>7, <3>1, <4>1
    <3> QED BY <3>3, <3>4
  <2> QED BY <1>3, <2>1 DEF RestoreInv
<1>12. ChainInv'
  BY <1>3 DEF ServerInv, ChainInv
<1> QED BY <1>3, <1>9, <1>11, <1>12 DEF ServerInv, SetupInv

(* Steps that touch neither the message buffer nor the registers.          *)
LEMMA BuffersUntouched ==
  ASSUME ServerInv, UNCHANGED bufferVars, TypeOK',
         \/ pc' = pc
         \/ /\ {pc, pc'} \cap {"init", "buffers"} = {}
            /\ pc' \in {"reply", "receive"} => pc \in {"reply", "receive"}
  PROVE  ServerInv'
<1>1. rbuf' = rbuf /\ BR' = BR /\ counter' = counter /\ cnt' = cnt
  BY DEF bufferVars
<1>2. pc # "init" \/ pc' = pc
  OBVIOUS
<1>3. ChainInv'
  BY <1>1, <1>2 DEF ServerInv, ChainInv
<1>4. RestoreInv'
  BY <1>1, <1>2 DEF ServerInv, RestoreInv
<1>5. SetupInv'
  BY <1>1 DEF ServerInv, SetupInv
<1> QED BY <1>3, <1>4, <1>5 DEF ServerInv

(* An answer that is handed over leaves well-formed clients.               *)
LEMMA DeliverType ==
  ASSUME TypeOK, NEW c, NEW r \in Request, Deliver(c, r)
  PROVE  /\ client' \in [Client -> {"idle", "sending", "sending_oneway", "waiting"}]
         /\ answer' \in [Client -> Request]
         /\ req' = req
  BY DEF TypeOK, Deliver

LEMMA ReplyStep ==
  ASSUME ServerInv, Reply
  PROVE  ServerInv'
<1>1. pc = "reply" /\ UNCHANGED <<bufferVars, partner, request, obuf, pending>>
  BY DEF Reply
<1>2. TypeOK /\ obuf \in Request
  BY DEF ServerInv, TypeOK
<1>3. CASE pc' = "receive" /\ UNCHANGED <<failed, clientVars>>
  <2>1. TypeOK'
    BY <1>1, <1>2, <1>3 DEF TypeOK, bufferVars, clientVars, request
  <2> QED BY <1>1, <1>3, <2>1, BuffersUntouched
<1>4. CASE Deliver(partner, obuf) /\ pc' = "receive" /\ UNCHANGED failed
  <2>1. TypeOK'
    BY <1>1, <1>2, <1>4, DeliverType DEF TypeOK, bufferVars, request
  <2> QED BY <1>1, <1>4, <2>1, BuffersUntouched
<1>5. CASE failed' = TRUE /\ pc' = "test" /\ UNCHANGED clientVars
  <2>1. TypeOK'
    BY <1>1, <1>2, <1>5 DEF TypeOK, bufferVars, clientVars, request
  <2> QED BY <1>1, <1>5, <2>1, BuffersUntouched
<1> QED BY <1>3, <1>4, <1>5 DEF Reply

LEMMA KernelStep ==
  ASSUME ServerInv, NEW c \in Client, Kernel(c)
  PROVE  ServerInv'
<1>1. TypeOK /\ <<c, req[c]>> \in Request
  BY DEF ServerInv, TypeOK, Request
<1>2. CASE Receive(c)
  <2>1. (client[c] = "sending_oneway") \in BOOLEAN
    OBVIOUS
  <2>2. oneway' \in BOOLEAN
    BY <1>2, <2>1, Zenon DEF Receive
  <2>3. TypeOK'
    BY <1>1, <1>2, <2>2 DEF Receive, TypeOK, bufferVars
  <2> QED BY <1>2, <2>3, BuffersUntouched DEF Receive
<1>3. CASE ReceiveFails(c)
  <2>1. TypeOK'
    BY <1>1, <1>3 DEF ReceiveFails, TypeOK, bufferVars, request
  <2> QED BY <1>3, <2>1, BuffersUntouched DEF ReceiveFails
<1> QED BY <1>2, <1>3 DEF Kernel

LEMMA ProcessStep ==
  ASSUME ServerInv, Process
  PROVE  ServerInv'
<1>1. TypeOK
  BY DEF ServerInv
<1>2. CASE ProcessReply
  <2>1. TypeOK'
    BY <1>1, <1>2 DEF ProcessReply, TypeOK, bufferVars, clientVars, request
  <2> QED BY <1>2, <2>1, BuffersUntouched DEF ProcessReply
<1>3. CASE ProcessAbort
  <2>1. TypeOK'
    BY <1>1, <1>3 DEF ProcessAbort, Abort, TypeOK, bufferVars, clientVars, request
  <2> QED BY <1>3, <2>1, BuffersUntouched DEF ProcessAbort, Abort
<1>4. CASE ProcessDeferred
  <2>1. TypeOK'
    BY <1>1, <1>4 DEF ProcessDeferred, Abort, TypeOK, bufferVars, clientVars, request
  <2> QED BY <1>4, <2>1, BuffersUntouched DEF ProcessDeferred, Abort
<1> QED BY <1>2, <1>3, <1>4 DEF Process

LEMMA OtherSteps ==
  ASSUME ServerInv,
         \/ EnterLoop \/ TestError \/ ReplyStub
         \/ \E c \in Client : CallServer(c) \/ TimesOut(c)
         \/ UNCHANGED vars
  PROVE  ServerInv'
<1>1. TypeOK
  BY DEF ServerInv
<1>2. CASE EnterLoop
  <2>1. TypeOK'
    BY <1>1, <1>2 DEF EnterLoop, TypeOK, bufferVars, clientVars, request
  <2> QED BY <1>2, <2>1, BuffersUntouched DEF EnterLoop
<1>3. CASE TestError
  <2>1. TypeOK'
    BY <1>1, <1>3 DEF TestError, TypeOK, bufferVars, clientVars, request
  <2> QED BY <1>3, <2>1, BuffersUntouched DEF TestError
<1>4. CASE ReplyStub
  <2>1. PICK r \in pending : SendReply(r[1], r) /\ pending' = pending \ {r}
    BY <1>4 DEF ReplyStub
  <2>2. r \in Request /\ pending' \in SUBSET Request
    BY <1>1, <2>1 DEF TypeOK
  <2>3. /\ client' \in [Client -> {"idle", "sending", "sending_oneway", "waiting"}]
        /\ answer' \in [Client -> Request]
        /\ req' = req
    <3>1. CASE Deliver(r[1], r)
      BY <1>1, <2>2, <3>1, DeliverType
    <3>2. CASE UNCHANGED clientVars
      BY <1>1, <3>2 DEF TypeOK, clientVars
    <3> QED BY <2>1, <3>1, <3>2 DEF SendReply
  <2>4. TypeOK'
    BY <1>1, <1>4, <2>2, <2>3 DEF ReplyStub, TypeOK, bufferVars, request
  <2> QED BY <1>4, <2>4, BuffersUntouched DEF ReplyStub
<1>5. ASSUME NEW c \in Client, CallServer(c)  PROVE ServerInv'
  <2>1. NoRequest \in Request
    BY DEF Request
  <2>2. TypeOK'
    BY <1>1, <1>5, <2>1 DEF CallServer, TypeOK, serverVars, bufferVars, request
  <2> QED BY <1>5, <2>2, BuffersUntouched DEF CallServer, serverVars
<1>6. ASSUME NEW c \in Client, TimesOut(c)  PROVE ServerInv'
  <2>1. TypeOK'
    BY <1>1, <1>6 DEF TimesOut, TypeOK, serverVars, bufferVars, request
  <2> QED BY <1>6, <2>1, BuffersUntouched DEF TimesOut, serverVars
<1>7. CASE UNCHANGED vars
  <2>1. TypeOK'
    BY <1>1, <1>7 DEF vars, TypeOK, serverVars, bufferVars, clientVars, request
  <2> QED BY <1>7, <2>1, BuffersUntouched DEF vars, serverVars
<1> QED BY <1>2, <1>3, <1>4, <1>5, <1>6, <1>7

LEMMA ServerStep == ServerInv /\ [Next]_vars => ServerInv'
<1> SUFFICES ASSUME ServerInv, [Next]_vars  PROVE ServerInv'
  OBVIOUS
<1>1. CASE Setup
  BY <1>1, MsgbufInitStep, AddBufferStep, SetRcvWindowStep DEF Setup
<1>2. CASE Loop
  BY <1>2, MsgbufSyncStep, ReplyStep, ProcessStep, OtherSteps DEF Loop
<1>3. CASE NestedCall
  BY <1>3, NestedCallStep
<1>4. CASE ReplyStub \/ UNCHANGED vars
  BY <1>4, OtherSteps
<1>5. CASE \E c \in Client : Kernel(c) \/ CallServer(c) \/ TimesOut(c)
  BY <1>5, KernelStep, OtherSteps
<1> QED BY <1>1, <1>2, <1>3, <1>4, <1>5 DEF Next

LEMMA ServerInvariant == Spec => []ServerInv
<1> QED BY InitServerInv, ServerStep, PTL DEF Spec

-----------------------------------------------------------------------------
(* What follows from it                                                    *)

(* Every variable of the server loop has its type; in particular the       *)
(* restore counter stays a count, whichever way counts are combined.       *)
THEOREM ServerTypeCorrect == Spec => []TypeOK
<1>1. ServerInv => TypeOK
  BY DEF ServerInv
<1> QED BY <1>1, ServerInvariant, PTL

(* After any sequence of nested calls the server waits with its own values *)
(* in all buffer registers it uses (idl4_msgbuf_sync).                     *)
THEOREM BuffersAlwaysRestored == Spec => []BuffersRestored
<1>1. ServerInv => BuffersRestored
  <2> SUFFICES ASSUME ServerInv, pc \in {"reply", "receive"},
                      NEW i \in 0 .. 2 * NumBuffers
               PROVE  BR[i] = rbuf[LastBR - i]
    BY DEF BuffersRestored
  <2>1. cnt = NumBuffers /\ counter = 0 /\ (i < counter \/ BR[i] = rbuf[LastBR - i])
    BY DEF ServerInv, SetupInv, RestoreInv
  <2>2. i \in Nat
    BY ServerAssumption
  <2> QED BY <2>1, <2>2
<1> QED BY <1>1, ServerInvariant, PTL

(* Every string item of an accepted message lands in the server buffer in  *)
(* which the stubs look for it: the kernel finds exactly the server's      *)
(* buffers, in their order.                                                *)
THEOREM StringsReachServer == Spec => []StringsInServerBuffers
<1>1. ServerInv => StringsInServerBuffers
  <2> SUFFICES ASSUME ServerInv, pc = "receive"
               PROVE  KernelBuffers = [k \in 1 .. NumBuffers |-> Pointer(k - 1)]
    BY DEF StringsInServerBuffers, Pointer
  <2>1. PICK h \in Nat \ {0} : LastBR = 2 * h /\ LastBR \div 2 = h
    BY HalfRegisters
  <2>2. cnt = NumBuffers /\ NumBuffers \in 0 .. h
    BY <2>1, ServerAssumption DEF ServerInv, SetupInv
  <2>3. \A i \in 0 .. 2 * NumBuffers : BR[i] = rbuf[LastBR - i]
    <3>1. counter = 0 /\ \A i \in 0 .. 2 * NumBuffers : i < counter \/ BR[i] = rbuf[LastBR - i]
      BY <2>2 DEF ServerInv, RestoreInv
    <3> QED BY <2>2, <3>1
  <2> DEFINE more(k) == BR[IF k = 0 THEN 0 ELSE 2 * k - 1].more
             IsChain(n) == /\ \A k \in 0 .. n - 1 : more(k)
                           /\ n < h => ~more(n)
  <2>4. \A k \in 0 .. NumBuffers : more(k) <=> k < NumBuffers
    <3> TAKE k \in 0 .. NumBuffers
    <3>1. BR[IF k = 0 THEN 0 ELSE 2 * k - 1] = rbuf[ChainPos(k)]
      BY <2>1, <2>2, <2>3 DEF ChainPos
    <3>2. rbuf[ChainPos(k)].more <=> k < NumBuffers
      BY <2>2 DEF ServerInv, ChainInv
    <3> QED BY <3>1, <3>2
  <2>5. KernelBuffers = [k \in 1 .. (CHOOSE n \in 0 .. h : IsChain(n)) |-> BR[2 * k]]
    BY <2>1 DEF KernelBuffers
  <2> HIDE DEF more
  <2>6. IsChain(NumBuffers)
    BY <2>1, <2>2, <2>4
  <2>7. \A n \in 0 .. h : IsChain(n) => n = NumBuffers
    <3> TAKE n \in 0 .. h
    <3> HAVE IsChain(n)
    <3>1. ~(n > NumBuffers)
      BY <2>2, <2>4
    <3>2. ~(n < NumBuffers)
      BY <2>2, <2>4
    <3> QED BY <2>2, <3>1, <3>2
  <2> HIDE DEF IsChain
  <2>8. (CHOOSE n \in 0 .. h : IsChain(n)) = NumBuffers
    BY <2>2, <2>6, <2>7
  <2>9. ASSUME NEW k \in 1 .. NumBuffers  PROVE BR[2 * k] = Pointer(k - 1)
    <3>1. BR[2 * k] = rbuf[LastBR - 2 * k]
      BY <2>2, <2>3
    <3>2. rbuf[LastBR - 2 * k] = Pointer(k - 1)
      BY <2>2 DEF ServerInv, ChainInv
    <3> QED BY <3>1, <3>2
  <2> QED BY <2>5, <2>8, <2>9
<1> QED BY <1>1, ServerInvariant, PTL

-----------------------------------------------------------------------------
(* Answers and requests                                                    *)

(* Messages carry no request number.  An answer that is deferred while the *)
(* client gives up could reach the client's next call, so no client may do *)
(* both: give up and have its answers deferred.                            *)
NoLateAnswers == Impatient \cap Deferrable = {}

(* The request in the loop's hands is the partner's latest, if the partner *)
(* still waits.                                                            *)
CurrentFits ==
  /\ partner \in Client
  /\ current[1] = partner
  /\ client[partner] = "waiting" => current = <<partner, req[partner]>>
  /\ current \notin pending

InService == pc = "serving" \/ (pc = "test" /\ ~failed)

CurrentInv ==
  /\ InService => CurrentFits
  /\ InService /\ ~oneway /\ partner \notin Impatient => client[partner] = "waiting"
  /\ pc \in {"sync", "reply"} /\ partner # Nil => CurrentFits /\ obuf = current

(* Whoever was promised an answer still waits for it.                      *)
PendingInv ==
  \A r \in pending :
       r[1] \in Client \cap Deferrable /\ client[r[1]] = "waiting" /\ r = <<r[1], req[r[1]]>>

AnswerInv == AnswerMatches /\ CurrentInv /\ PendingInv

LEMMA InitAnswerInv == Init => AnswerInv
  BY DEF Init, AnswerInv, AnswerMatches, CurrentInv, PendingInv, InService

LEMMA AnswerReply ==
  ASSUME TypeOK, AnswerInv, Reply
  PROVE  AnswerInv'
<1>1. pc = "reply" /\ UNCHANGED <<bufferVars, partner, request, obuf, pending>>
  BY DEF Reply
<1>2. CASE partner = Nil
  <2>1. pc' = "receive" /\ UNCHANGED <<failed, clientVars>>
    BY <1>2 DEF Reply
  <2> QED BY <1>1, <2>1
       DEF AnswerInv, AnswerMatches, CurrentInv, PendingInv, InService, clientVars
<1>3. CASE partner # Nil /\ Deliver(partner, obuf) /\ pc' = "receive"
  <2>1. CurrentFits /\ obuf = current
    BY <1>1, <1>3 DEF AnswerInv, CurrentInv
  <2>2. /\ partner \in Client /\ client[partner] = "waiting" /\ req' = req
        /\ client' = [client EXCEPT ![partner] = "idle"]
        /\ answer' = [answer EXCEPT ![partner] = <<partner, req[partner]>>]
    BY <1>3, <2>1 DEF Deliver, CurrentFits
  <2>3. AnswerMatches'
    BY <2>2 DEF AnswerInv, AnswerMatches, TypeOK
  <2>4. PendingInv'
    <3>1. \A r \in pending : r[1] # partner
      BY <2>1, <2>2 DEF AnswerInv, PendingInv, CurrentFits
    <3> QED BY <1>1, <2>2, <3>1 DEF AnswerInv, PendingInv, TypeOK
  <2>5. CurrentInv'
    BY <1>3 DEF CurrentInv, InService
  <2> QED BY <2>3, <2>4, <2>5 DEF AnswerInv
<1>4. CASE failed' = TRUE /\ pc' = "test" /\ UNCHANGED clientVars
  BY <1>1, <1>4 DEF AnswerInv, AnswerMatches, CurrentInv, PendingInv, InService, clientVars
<1> QED BY <1>2, <1>3, <1>4 DEF Reply

LEMMA AnswerKernel ==
  ASSUME TypeOK, AnswerInv, NEW c \in Client, Kernel(c)
  PROVE  AnswerInv'
<1>1. /\ pc = "receive" /\ client[c] \in {"sending", "sending_oneway"}
      /\ pc' = "test" /\ partner' = c
      /\ UNCHANGED <<bufferVars, obuf, pending, req, answer>>
  BY DEF Kernel, Receive, ReceiveFails
<1>2. \E how \in {"waiting", "idle"} : client' = [client EXCEPT ![c] = how]
  BY DEF Kernel, Receive, ReceiveFails
<1>3. \A r \in pending : r[1] # c
  BY <1>1 DEF AnswerInv, PendingInv
<1>4. AnswerMatches'
  BY <1>1 DEF AnswerInv, AnswerMatches
<1>5. PendingInv'
  BY <1>1, <1>2, <1>3 DEF AnswerInv, PendingInv, TypeOK
<1>6. CASE Receive(c)
  <2>1. current' = <<c, req[c]>> /\ oneway' = (client[c] = "sending_oneway")
    BY <1>6 DEF Receive
  <2>2. client'[c] = IF client[c] = "sending" THEN "waiting" ELSE "idle"
    BY <1>6 DEF Receive, TypeOK
  <2>3. current' \notin pending
    BY <1>3, <2>1
  <2>4. CurrentFits'
    BY <1>1, <2>1, <2>3 DEF CurrentFits
  <2>5. CurrentInv'
    BY <1>1, <2>1, <2>2, <2>4 DEF CurrentInv
  <2> QED BY <1>4, <1>5, <2>5 DEF AnswerInv
<1>7. CASE ReceiveFails(c)
  <2>1. CurrentInv'
    BY <1>1, <1>7 DEF ReceiveFails, CurrentInv, InService
  <2> QED BY <1>4, <1>5, <2>1 DEF AnswerInv
<1> QED BY <1>6, <1>7 DEF Kernel

LEMMA AnswerProcess ==
  ASSUME NoLateAnswers, ServerAssumption, TypeOK, AnswerInv, Process
  PROVE  AnswerInv'
<1>1. pc = "serving" /\ pc' = "sync" /\ UNCHANGED <<clientVars, request>>
  BY DEF Process, ProcessReply, ProcessAbort, ProcessDeferred, Abort
<1>2. InService /\ CurrentFits
  BY <1>1 DEF AnswerInv, CurrentInv, InService
<1>3. AnswerMatches'
  BY <1>1 DEF AnswerInv, AnswerMatches, clientVars
<1>4. CASE ProcessReply
  <2>1. obuf' = current /\ partner' = partner /\ pending' = pending
    BY <1>4 DEF ProcessReply
  <2>2. CurrentInv'
    BY <1>1, <1>2, <2>1 DEF CurrentInv, CurrentFits, InService, clientVars, request
  <2>3. PendingInv'
    BY <1>1, <2>1 DEF AnswerInv, PendingInv, clientVars
  <2> QED BY <1>3, <2>2, <2>3 DEF AnswerInv
<1>5. CASE ProcessAbort
  <2>1. partner' = Nil /\ pending' = pending
    BY <1>5 DEF ProcessAbort, Abort
  <2>2. CurrentInv'
    BY <1>1, <2>1 DEF CurrentInv, InService
  <2>3. PendingInv'
    BY <1>1, <2>1 DEF AnswerInv, PendingInv, clientVars
  <2> QED BY <1>3, <2>2, <2>3 DEF AnswerInv
<1>6. CASE ProcessDeferred
  <2>1. partner' = Nil /\ pending' = pending \cup {current} /\ ~oneway /\ partner \in Deferrable
    BY <1>6 DEF ProcessDeferred, Abort
  <2>2. CurrentInv'
    BY <1>1, <2>1 DEF CurrentInv, InService
  <2>3. client[partner] = "waiting"
    BY <1>2, <2>1 DEF AnswerInv, CurrentInv, NoLateAnswers
  <2>4. PendingInv'
    BY <1>1, <1>2, <2>1, <2>3 DEF AnswerInv, PendingInv, CurrentFits, clientVars
  <2> QED BY <1>3, <2>2, <2>4 DEF AnswerInv
<1> QED BY <1>4, <1>5, <1>6 DEF Process

LEMMA AnswerReplyStub ==
  ASSUME TypeOK, AnswerInv, ReplyStub
  PROVE  AnswerInv'
<1>1. PICK r \in pending : SendReply(r[1], r) /\ pending' = pending \ {r}
  BY DEF ReplyStub
<1>2. pc = "serving" /\ UNCHANGED <<pc, bufferVars, partner, failed, request, obuf>>
  BY DEF ReplyStub
<1>3. r[1] \in Client /\ client[r[1]] = "waiting" /\ r = <<r[1], req[r[1]]>>
  BY DEF AnswerInv, PendingInv
<1>4. /\ client' = [client EXCEPT ![r[1]] = "idle"]
      /\ answer' = [answer EXCEPT ![r[1]] = r]
      /\ req' = req
  BY <1>1, <1>3 DEF SendReply, Deliver
<1>5. AnswerMatches'
  BY <1>3, <1>4 DEF AnswerInv, AnswerMatches, TypeOK
<1>6. PendingInv'
  <2>1. \A s \in pending' : s \in pending /\ s[1] # r[1]
    BY <1>1, <1>3 DEF AnswerInv, PendingInv
  <2> QED BY <1>1, <1>4, <2>1 DEF AnswerInv, PendingInv, TypeOK
<1>7. CurrentFits /\ (~oneway /\ partner \notin Impatient => client[partner] = "waiting")
  BY <1>2 DEF AnswerInv, CurrentInv, InService
<1>8. CurrentFits'
  <2>1. client'[partner] = "waiting" => client[partner] = "waiting"
    BY <1>4, <1>7 DEF CurrentFits, TypeOK
  <2> QED BY <1>1, <1>2, <1>4, <1>7, <2>1 DEF CurrentFits, request
<1>9. ~oneway /\ partner \notin Impatient => client'[partner] = "waiting"
  <2> SUFFICES ASSUME ~oneway, partner \notin Impatient  PROVE client'[partner] = "waiting"
    OBVIOUS
  <2>1. current = <<partner, req[partner]>> /\ client[partner] = "waiting"
    BY <1>7 DEF CurrentFits
  <2>2. r[1] # partner
    BY <1>3, <1>7, <2>1 DEF CurrentFits
  <2> QED BY <1>4, <1>7, <2>1, <2>2 DEF CurrentFits, TypeOK
<1>10. CurrentInv'
  BY <1>2, <1>8, <1>9 DEF CurrentInv, InService, request
<1> QED BY <1>5, <1>6, <1>10 DEF AnswerInv

LEMMA AnswerClients ==
  ASSUME NoLateAnswers, TypeOK, AnswerInv, NEW c \in Client, CallServer(c) \/ TimesOut(c)
  PROVE  AnswerInv'
<1>1. UNCHANGED <<pc, partner, failed, current, oneway, obuf, pending>>
  BY DEF CallServer, TimesOut, serverVars, request
<1>2. CASE CallServer(c)
  <2>1. /\ client[c] = "idle"
        /\ req' = [req EXCEPT ![c] = req[c] + 1]
        /\ answer' = [answer EXCEPT ![c] = NoRequest]
    BY <1>2 DEF CallServer
  <2>2. PICK how \in {"sending", "sending_oneway"} : client' = [client EXCEPT ![c] = how]
    BY <1>2 DEF CallServer
  <2>3. AnswerMatches'
    BY <2>1 DEF AnswerInv, AnswerMatches, TypeOK
  <2>4. \A d \in Client : /\ client'[d] = "waiting" => client[d] = "waiting" /\ req'[d] = req[d]
                          /\ client[d] = "waiting" => client'[d] = "waiting" /\ req'[d] = req[d]
    BY <2>1, <2>2 DEF TypeOK
  <2>5. PendingInv'
    BY <1>1, <2>4 DEF AnswerInv, PendingInv
  <2>6. CurrentFits => CurrentFits'
    BY <1>1, <2>4 DEF CurrentFits
  <2>7. CurrentInv'
    BY <1>1, <2>4, <2>6 DEF AnswerInv, CurrentInv, InService, CurrentFits
  <2> QED BY <2>3, <2>5, <2>7 DEF AnswerInv
<1>3. CASE TimesOut(c)
  <2>1. c \in Impatient /\ client' = [client EXCEPT ![c] = "idle"] /\ req' = req /\ answer' = answer
    BY <1>3 DEF TimesOut
  <2>2. \A r \in pending : r[1] # c
    BY <2>1 DEF NoLateAnswers, AnswerInv, PendingInv
  <2>3. AnswerMatches'
    BY <2>1 DEF AnswerInv, AnswerMatches
  <2>4. \A d \in Client : client'[d] = "waiting" => client[d] = "waiting"
    BY <2>1 DEF TypeOK
  <2>5. CurrentFits => CurrentFits'
    BY <1>1, <2>1, <2>4 DEF CurrentFits
  <2>6. CurrentInv'
    <3>1. InService' /\ ~oneway' /\ partner' \notin Impatient => client'[partner'] = "waiting"
      BY <1>1, <2>1 DEF AnswerInv, CurrentInv, InService, CurrentFits, TypeOK
    <3> QED BY <1>1, <2>5, <3>1 DEF AnswerInv, CurrentInv, InService
  <2>7. PendingInv'
    BY <1>1, <2>1, <2>2 DEF AnswerInv, PendingInv, TypeOK
  <2> QED BY <2>3, <2>6, <2>7 DEF AnswerInv
<1> QED BY <1>2, <1>3

LEMMA AnswerStep ==
  ASSUME NoLateAnswers, ServerInv, AnswerInv, [Next]_vars
  PROVE  AnswerInv'
<1>1. TypeOK
  BY DEF ServerInv
<1>2. CASE Setup \/ EnterLoop \/ MsgbufSync \/ TestError
  <2>1. UNCHANGED <<clientVars, request, obuf, pending>>
    BY <1>2 DEF Setup, MsgbufInit, AddBuffer, SetRcvWindow, EnterLoop, MsgbufSync, TestError
  <2>2. AnswerMatches' /\ PendingInv'
    BY <2>1 DEF AnswerInv, AnswerMatches, PendingInv, clientVars
  <2>3. CurrentFits /\ partner' = partner => CurrentFits'
    BY <2>1 DEF CurrentFits, clientVars, request
  <2>4. CASE EnterLoop
    <3>1. CurrentInv'
      BY <2>4 DEF EnterLoop, CurrentInv, InService
    <3> QED BY <2>2, <3>1 DEF AnswerInv
  <2>5. CASE MsgbufSync
    <3>1. CurrentInv'
      BY <2>1, <2>3, <2>5 DEF MsgbufSync, AnswerInv, CurrentInv, InService, clientVars, request
    <3> QED BY <2>2, <3>1 DEF AnswerInv
  <2>6. CASE TestError
    <3>1. CurrentInv'
      BY <2>1, <2>3, <2>6 DEF TestError, AnswerInv, CurrentInv, InService, clientVars, request
    <3> QED BY <2>2, <3>1 DEF AnswerInv
  <2>7. CASE Setup
    <3>1. CurrentInv'
      BY <2>7 DEF Setup, MsgbufInit, AddBuffer, SetRcvWindow, CurrentInv, InService
    <3> QED BY <2>2, <3>1 DEF AnswerInv
  <2> QED BY <1>2, <2>4, <2>5, <2>6, <2>7
<1>3. CASE NestedCall \/ UNCHANGED vars
  <2>1. UNCHANGED <<pc, partner, failed, current, oneway, obuf, pending, client, req, answer>>
    BY <1>3 DEF NestedCall, vars, serverVars, clientVars, request
  <2> QED BY <2>1
       DEF AnswerInv, AnswerMatches, CurrentInv, PendingInv, InService, CurrentFits
<1>4. CASE Reply
  BY <1>1, <1>4, AnswerReply
<1>5. CASE Process
  BY <1>1, <1>5, AnswerProcess, ServerAssumption
<1>6. CASE ReplyStub
  BY <1>1, <1>6, AnswerReplyStub
<1>7. CASE \E c \in Client : Kernel(c) \/ CallServer(c) \/ TimesOut(c)
  BY <1>1, <1>7, AnswerKernel, AnswerClients
<1> QED BY <1>2, <1>3, <1>4, <1>5, <1>6, <1>7 DEF Next, Loop

(* A client gets the answer to its latest request and to no other, however *)
(* refused and deferred answers, failed sends and cut off messages         *)
(* interleave, unless the same client gives up and has answers deferred.   *)
THEOREM AnswersMatchRequests ==
  ASSUME NoLateAnswers
  PROVE  Spec => []AnswerMatches
<1>1. ServerInv /\ AnswerInv /\ [Next]_vars => AnswerInv'
  BY AnswerStep
<1>2. AnswerInv => AnswerMatches
  BY DEF AnswerInv
<1> QED BY InitAnswerInv, <1>1, <1>2, ServerInvariant, PTL DEF Spec

(* What the loop is about to send is the answer to the request it took     *)
(* last, and nobody else is going to answer that.                          *)
THEOREM NeverAnsweredTwice ==
  ASSUME NoLateAnswers
  PROVE  Spec => []NotAnsweredTwice
<1>1. ServerInv /\ AnswerInv /\ [Next]_vars => AnswerInv'
  BY AnswerStep
<1>2. AnswerInv => NotAnsweredTwice
  BY DEF AnswerInv, CurrentInv, CurrentFits, NotAnsweredTwice
<1> QED BY InitAnswerInv, <1>1, <1>2, ServerInvariant, PTL DEF Spec

-----------------------------------------------------------------------------
(* No caller is forgotten                                                  *)

(* When the loop starts again or takes a message, it has nobody to answer  *)
(* who still waits.                                                        *)
PartnerServed == partner = Nil \/ client[partner] # "waiting"

PartnerInv ==
  /\ pc \in {"init", "buffers"} => partner = Nil
  /\ pc \in {"outer", "receive"} => PartnerServed
  /\ pc = "test" /\ failed => PartnerServed

(* There is nobody to answer in the beginning.                             *)
LEMMA InitPartnerInv == Init => PartnerInv
  BY DEF Init, PartnerInv

(* A client begins to wait only when the loop has taken its message, and   *)
(* waits no more when it was answered or its message was cut off.          *)
LEMMA PartnerStep == TypeOK /\ PartnerInv /\ [Next]_vars => PartnerInv'
<1> SUFFICES ASSUME TypeOK, PartnerInv, [Next]_vars  PROVE PartnerInv'
  OBVIOUS
<1>1. CASE MsgbufInit \/ AddBuffer \/ SetRcvWindow
  <2>1. /\ pc \in {"init", "buffers"} /\ pc' \in {"buffers", "outer"}
        /\ UNCHANGED <<partner, failed, client>>
    BY <1>1 DEF MsgbufInit, AddBuffer, SetRcvWindow, clientVars
  <2> QED BY <2>1 DEF PartnerInv, PartnerServed
<1>2. CASE EnterLoop \/ MsgbufSync \/ Process
  <2>1. pc' \in {"sync", "reply"}
    BY <1>2 DEF EnterLoop, MsgbufSync, Process, ProcessReply, ProcessAbort, ProcessDeferred, Abort
  <2> QED BY <2>1 DEF PartnerInv
<1>3. CASE Reply
  <2>1. pc' \in {"receive", "test"} /\ UNCHANGED partner
    BY <1>3 DEF Reply
  <2>2. CASE partner = Nil
    BY <2>1, <2>2 DEF PartnerInv, PartnerServed
  <2>3. CASE partner # Nil /\ Deliver(partner, obuf)
    <3>1. partner \in Client
      BY <2>3 DEF TypeOK
    <3>2. client'[partner] = "idle"
      BY <2>3, <3>1 DEF Deliver, TypeOK
    <3> QED BY <2>1, <3>2 DEF PartnerInv, PartnerServed
  <2>4. CASE client[partner] # "waiting" /\ UNCHANGED clientVars
    BY <2>1, <2>4 DEF PartnerInv, PartnerServed, clientVars
  <2> QED BY <1>3, <2>2, <2>3, <2>4 DEF Reply
<1>4. CASE TestError
  <2>1. /\ pc = "test" /\ pc' = (IF failed THEN "outer" ELSE "serving")
        /\ UNCHANGED <<partner, client>>
    BY <1>4 DEF TestError, clientVars
  <2> QED BY <2>1 DEF PartnerInv, PartnerServed
<1>5. CASE NestedCall \/ ReplyStub
  <2>1. pc = "serving" /\ pc' = pc
    BY <1>5 DEF NestedCall, ReplyStub, serverVars
  <2> QED BY <2>1 DEF PartnerInv
<1>6. ASSUME NEW c \in Client, Kernel(c)  PROVE PartnerInv'
  <2>1. CASE Receive(c)
    BY <2>1 DEF Receive, PartnerInv
  <2>2. CASE ReceiveFails(c)
    <3>1. pc' = "test" /\ partner' = c /\ client'[c] = "idle"
      BY <2>2 DEF ReceiveFails, TypeOK
    <3> QED BY <3>1 DEF PartnerInv, PartnerServed
  <2> QED BY <1>6, <2>1, <2>2 DEF Kernel
<1>7. ASSUME NEW c \in Client, CallServer(c) \/ TimesOut(c)  PROVE PartnerInv'
  <2>1. UNCHANGED <<pc, partner, failed>> /\ \A d \in Client : client'[d] = "waiting" => client[d] = "waiting"
    BY <1>7 DEF CallServer, TimesOut, serverVars, TypeOK
  <2>2. PartnerServed => PartnerServed'
    BY <2>1 DEF PartnerServed, TypeOK
  <2> QED BY <2>1, <2>2 DEF PartnerInv
<1>8. CASE UNCHANGED vars
  BY <1>8 DEF vars, serverVars, clientVars, PartnerInv, PartnerServed
<1> QED BY <1>1, <1>2, <1>3, <1>4, <1>5, <1>6, <1>7, <1>8 DEF Next, Loop, Setup

(* What CallersNotForgotten says of a step.                                *)
KeepsCallers ==
  \A c \in Client :
    client[c] = "waiting" /\ client'[c] = "waiting" /\ Expected(c) =>
      Expected(c)' \/ ProcessAbort

(* A step drops the partner only when it no longer waits or its function   *)
(* refuses, and a deferred request only when it is answered.               *)
LEMMA CallersKept ==
  ASSUME TypeOK, PartnerInv, [Next]_vars
  PROVE  KeepsCallers
<1> SUFFICES ASSUME NEW c \in Client, client[c] = "waiting", client'[c] = "waiting", Expected(c)
             PROVE  Expected(c)' \/ ProcessAbort
  BY DEF KeepsCallers
<1>1. c # Nil /\ client \in [Client -> {"idle", "sending", "sending_oneway", "waiting"}]
      /\ req \in [Client -> Nat]
  BY ServerAssumption DEF TypeOK
<1>2. CASE UNCHANGED <<partner, current, req, pending>>
  BY <1>2 DEF Expected
<1>3. CASE EnterLoop
  <2>1. partner # c
    BY <1>1, <1>3 DEF EnterLoop, PartnerInv, PartnerServed
  <2>2. UNCHANGED <<req, pending>>
    BY <1>3 DEF EnterLoop, clientVars
  <2> QED BY <2>1, <2>2 DEF Expected
<1>4. CASE ProcessDeferred
  <2>1. req' = req /\ pending' = pending \cup {current}
    BY <1>4 DEF ProcessDeferred, Abort, clientVars
  <2> QED BY <2>1 DEF Expected
<1>5. ASSUME NEW d \in Client, Kernel(d)  PROVE Expected(c)'
  <2>1. pc = "receive" /\ client[d] # "waiting" /\ UNCHANGED <<req, pending>>
    BY <1>5 DEF Kernel, Receive, ReceiveFails
  <2>2. partner # c
    BY <1>1, <2>1 DEF PartnerInv, PartnerServed
  <2> QED BY <2>1, <2>2 DEF Expected
<1>6. CASE ReplyStub
  <2>1. PICK r \in pending : SendReply(r[1], r) /\ pending' = pending \ {r}
    BY <1>6 DEF ReplyStub
  <2>2. UNCHANGED <<partner, current, req>>
    BY <1>6, <2>1 DEF ReplyStub, request, SendReply, Deliver, clientVars
  <2>3. r # <<c, req[c]>>
    <3>1. CASE r[1] = c
      <4>1. Deliver(c, r)
        BY <2>1, <3>1 DEF SendReply
      <4>2. client'[c] = "idle"
        BY <1>1, <4>1 DEF Deliver
      <4> QED BY <4>2
    <3>2. CASE r[1] # c
      BY <3>2
    <3> QED BY <3>1, <3>2
  <2> QED BY <2>1, <2>2, <2>3 DEF Expected
<1>7. ASSUME NEW d \in Client, CallServer(d)  PROVE Expected(c)'
  <2>1. d # c /\ req' = [req EXCEPT ![d] = @ + 1] /\ UNCHANGED <<partner, current, pending>>
    BY <1>7 DEF CallServer, serverVars, request
  <2>2. req'[c] = req[c]
    BY <1>1, <2>1
  <2> QED BY <2>1, <2>2 DEF Expected
<1>8. CASE Setup \/ MsgbufSync \/ Reply \/ TestError \/ ProcessReply \/ NestedCall
           \/ (\E d \in Client : TimesOut(d)) \/ UNCHANGED vars
  <2>1. UNCHANGED <<partner, current, req, pending>>
    BY <1>8 DEF Setup, MsgbufInit, AddBuffer, SetRcvWindow, MsgbufSync, Reply, Deliver, TestError,
       ProcessReply, NestedCall, TimesOut, vars, serverVars, clientVars, request
  <2> QED BY <1>2, <2>1
<1> QED BY <1>3, <1>4, <1>5, <1>6, <1>7, <1>8 DEF Next, Loop, Process

(* No step of the server, the kernel or another client makes the loop lose *)
(* track of a request somebody waits for, unless its function refuses the  *)
(* answer; whoever gives up, and whoever has answers deferred.             *)
THEOREM NoCallerForgotten == Spec => CallersNotForgotten
<1>1. ServerInv /\ PartnerInv /\ [Next]_vars => PartnerInv'
  BY PartnerStep DEF ServerInv
<1>2. ServerInv /\ PartnerInv /\ [Next]_vars => [KeepsCallers]_vars
  BY CallersKept DEF ServerInv
<1> QED
  BY InitPartnerInv, <1>1, <1>2, ServerInvariant, PTL
  DEF Spec, CallersNotForgotten, KeepsCallers
=============================================================================
