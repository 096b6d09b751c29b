----------------------- MODULE ExternalMemory_proofs ------------------------
(***************************************************************************)
(* Proofs about ExternalMemory, for every set of addresses and sizes and   *)
(* every number of calls.                                                  *)
(***************************************************************************)
EXTENDS ExternalMemory, TLAPS

(* The rest of a method other than the destructor: it does not end the     *)
(* object, and a report is never cut short.                                *)
Ordinary(rest) ==
  /\ \A i \in DOMAIN rest : rest[i] # "gone"
  /\ \A i \in DOMAIN rest : rest[i] = "exchange" => i < Len(rest)

(* What is left of the destructor. *)
Ending == {<<"end", "exchange", "tell", "gone">>, <<"exchange", "tell", "gone">>,
           <<"tell", "gone">>, <<"gone">>}

Alone == dropped /\ queued = 0 /\ finished = 0 /\ mutex # "worker"
Freed == \A b \in Blocks : heap[b] = 0

(* Where the object is in its life. *)
Life ==
  /\ Ordinary(todo) \/ todo \in Ending
  /\ todo \in Ending => Alone /\ ~gone
  /\ todo = <<"exchange", "tell", "gone">> => Freed
  /\ todo = <<"tell", "gone">> \/ todo = <<"gone">> => Freed /\ nonAdjusted = 0
  /\ gone => todo = <<>> /\ Alone /\ Freed /\ nonAdjusted = 0

IInv == TypeOK /\ header = heap /\ EveryByteCounted /\ Life

-----------------------------------------------------------------------------

LEMMA Joined ==
  ASSUME NEW a \in Seq(Statements), NEW b \in Seq(Statements), Ordinary(a), Ordinary(b)
  PROVE  a \o b \in Seq(Statements) /\ Ordinary(a \o b)
BY DEF Ordinary, Statements

LEMMA Pieces ==
  ASSUME NEW piece \in {<<>>, <<"lock">>, <<"unlock">>, <<"end">>, <<"lock", "code">>,
                        <<"unlock", "lock">>, <<"lock", "code", "unlock">>,
                        <<"lock", "queue", "unlock">>, Report}
  PROVE  piece \in Seq(Statements) /\ Ordinary(piece)
<1> USE DEF Ordinary, Statements, Report
<1>1. CASE piece = <<>>
  BY <1>1
<1>2. CASE piece = <<"lock">>
  BY <1>2
<1>3. CASE piece = <<"unlock">>
  BY <1>3
<1>4. CASE piece = <<"end">>
  BY <1>4
<1>5. CASE piece = <<"lock", "code">>
  BY <1>5
<1>6. CASE piece = <<"unlock", "lock">>
  BY <1>6
<1>7. CASE piece = <<"lock", "code", "unlock">>
  BY <1>7
<1>8. CASE piece = <<"lock", "queue", "unlock">>
  BY <1>8
<1>9. CASE piece = Report
  BY <1>9
<1> QED BY <1>1, <1>2, <1>3, <1>4, <1>5, <1>6, <1>7, <1>8, <1>9

(* Each native method is a sequence of statements, and an ordinary one. *)
LEMMA Methods ==
  ASSUME NEW m \in SetUp \cup CodeAsync \cup CodeSync \cup ResetUnderlying \cup Handlers
  PROVE  m \in Seq(Statements) /\ Ordinary(m)
<1>1. \A r \in MayReset : r \in Seq(Statements) /\ Ordinary(r)
  BY Pieces, Joined DEF MayReset, Reset
<1>2. CASE m \in SetUp
  BY <1>2, Pieces DEF SetUp
<1>3. CASE m \in CodeAsync
  BY <1>3, Pieces, Joined DEF CodeAsync
<1>4. CASE m \in ResetUnderlying
  <2> DEFINE s1 == <<"lock">> \o Reset
             s2 == s1 \o <<"unlock">>
  <2>1. s1 \in Seq(Statements) /\ Ordinary(s1)
    BY <1>1, Pieces, Joined DEF MayReset
  <2>2. s2 \in Seq(Statements) /\ Ordinary(s2)
    BY <2>1, Pieces, Joined
  <2>3. m = s2 \o Report
    BY <1>4 DEF ResetUnderlying
  <2> QED BY <2>2, <2>3, Pieces, Joined
<1>5. CASE m \in CodeSync
  <2>1. PICK r \in MayReset : m = <<"lock", "code">> \o r \o Report \o <<"unlock">> \o Report
    BY <1>5 DEF CodeSync
  <2> DEFINE s1 == <<"lock", "code">> \o r
             s2 == s1 \o Report
             s3 == s2 \o <<"unlock">>
  <2>2. s1 \in Seq(Statements) /\ Ordinary(s1)
    BY <1>1, Pieces, Joined
  <2>3. s2 \in Seq(Statements) /\ Ordinary(s2)
    BY <2>2, Pieces, Joined
  <2>4. s3 \in Seq(Statements) /\ Ordinary(s3)
    BY <2>3, Pieces, Joined
  <2> QED BY <2>1, <2>4, Pieces, Joined
<1>6. CASE m \in Handlers
  <2>1. PICK h \in MayReset \cup {BufferHandler, BufferHandler \o Reset} :
          m = <<"lock">> \o h \o <<"unlock">> \o Report
    BY <1>6 DEF Handlers
  <2>2. h \in Seq(Statements) /\ Ordinary(h)
    BY <1>1, Pieces, Joined DEF BufferHandler, MayReset
  <2> DEFINE s1 == <<"lock">> \o h
             s2 == s1 \o <<"unlock">>
  <2>3. s1 \in Seq(Statements) /\ Ordinary(s1)
    BY <2>2, Pieces, Joined
  <2>4. s2 \in Seq(Statements) /\ Ordinary(s2)
    BY <2>3, Pieces, Joined
  <2> QED BY <2>1, <2>4, Pieces, Joined
<1> QED BY <1>2, <1>3, <1>4, <1>5, <1>6

(* A statement that is done leaves an ordinary rest. *)
LEMMA RestIsOrdinary ==
  ASSUME NEW rest \in Seq(Statements), rest # <<>>, Ordinary(rest)
  PROVE  Tail(rest) \in Seq(Statements) /\ Ordinary(Tail(rest))
BY DEF Ordinary, Statements

(* So does a report that is left out. *)
LEMMA RestAfterReport ==
  ASSUME NEW rest \in Seq(Statements), rest # <<>>, Ordinary(rest), Head(rest) = "exchange"
  PROVE  Tail(Tail(rest)) \in Seq(Statements) /\ Ordinary(Tail(Tail(rest)))
<1>1. Len(rest) > 1
  BY DEF Ordinary
<1>2. Tail(rest) \in Seq(Statements) /\ Tail(rest) # <<>> /\ Ordinary(Tail(rest))
  BY <1>1, RestIsOrdinary
<1> QED BY <1>2, RestIsOrdinary

(* The allocator keeps the counter in step with what liblzma holds. *)
LEMMA AllocatorCounts ==
  ASSUME TypeOK, header = heap, EveryByteCounted, liblzma, UNCHANGED taken
  PROVE  /\ heap' \in [Blocks -> Nat] /\ header' \in [Blocks -> Nat]
         /\ live' \in Int /\ nonAdjusted' \in Int
         /\ header' = heap' /\ EveryByteCounted'
<1> USE DEF TypeOK, EveryByteCounted, adjustExternalMemory
<1>1. CASE \E b \in Blocks, size \in Sizes : Alloc(b, size)
  BY <1>1, MemoryAssumption DEF Alloc
<1>2. CASE \E b \in Blocks : Free(b)
  BY <1>2 DEF Free
<1> QED BY <1>1, <1>2 DEF liblzma

(* The destructor's statements, one after the other. *)
LEMMA EndingIsNotOrdinary ==
  ASSUME NEW rest \in Ending
  PROVE  rest \in Seq(Statements) /\ rest # <<>> /\ ~Ordinary(rest)
<1> USE DEF Statements, Ordinary
<1>1. CASE rest = <<"end", "exchange", "tell", "gone">>
  <2>1. 4 \in DOMAIN rest /\ rest[4] = "gone"
    BY <1>1
  <2> QED BY <1>1, <2>1
<1>2. CASE rest = <<"exchange", "tell", "gone">>
  <2>1. 3 \in DOMAIN rest /\ rest[3] = "gone"
    BY <1>2
  <2> QED BY <1>2, <2>1
<1>3. CASE rest = <<"tell", "gone">>
  <2>1. 2 \in DOMAIN rest /\ rest[2] = "gone"
    BY <1>3
  <2> QED BY <1>3, <2>1
<1>4. CASE rest = <<"gone">>
  <2>1. 1 \in DOMAIN rest /\ rest[1] = "gone"
    BY <1>4
  <2> QED BY <1>4, <2>1
<1> QED BY <1>1, <1>2, <1>3, <1>4 DEF Ending

LEMMA EndingSteps ==
  ASSUME NEW rest \in Ending
  PROVE  /\ Head(rest) \in {"end", "exchange", "tell", "gone"}
         /\ Head(rest) = "end" => Tail(rest) = <<"exchange", "tell", "gone">>
         /\ Head(rest) = "exchange" =>
              /\ rest = <<"exchange", "tell", "gone">>
              /\ Tail(rest) = <<"tell", "gone">> /\ Tail(Tail(rest)) = <<"gone">>
         /\ Head(rest) = "tell" => rest = <<"tell", "gone">> /\ Tail(rest) = <<"gone">>
         /\ Head(rest) = "gone" => rest = <<"gone">> /\ Tail(rest) = <<>>
<1>1. CASE rest = <<"end", "exchange", "tell", "gone">>
  BY <1>1
<1>2. CASE rest = <<"exchange", "tell", "gone">>
  BY <1>2
<1>3. CASE rest = <<"tell", "gone">>
  BY <1>3
<1>4. CASE rest = <<"gone">>
  BY <1>4
<1> QED BY <1>1, <1>2, <1>3, <1>4 DEF Ending

-----------------------------------------------------------------------------

LEMMA InitInv == Init => IInv
<1> SUFFICES ASSUME Init PROVE IInv OBVIOUS
<1>1. TypeOK
  <2>1. heap \in [Blocks -> Nat] /\ header \in [Blocks -> Nat]
    BY DEF Init
  <2>2. todo \in Seq(Statements)
    BY Pieces DEF Init
  <2>3. live \in Int /\ nonAdjusted \in Int /\ taken \in Int /\ told \in Int
        /\ calls \in 0 .. MaxCalls /\ queued \in Nat /\ finished \in Nat
    BY MemoryAssumption DEF Init
  <2>4. mutex \in {"free", "main", "worker"} /\ dropped \in BOOLEAN /\ gone \in BOOLEAN
    BY DEF Init
  <2> QED BY <2>1, <2>2, <2>3, <2>4 DEF TypeOK
<1>2. header = heap /\ EveryByteCounted
  BY DEF Init, EveryByteCounted
<1>3. Ordinary(todo) /\ todo \notin Ending
  BY Pieces, EndingIsNotOrdinary DEF Init
<1> QED BY <1>1, <1>2, <1>3, EndingIsNotOrdinary DEF IInv, Life, Init, Ending

(* A step of the main thread that is done with a statement of a method.    *)
LEMMA OrdinaryStep ==
  ASSUME TypeOK, Life, todo # <<>>, Head(todo) \notin {"end", "exchange", "tell", "gone"}
  PROVE  /\ todo \notin Ending /\ Tail(todo) \notin Ending
         /\ Tail(todo) \in Seq(Statements) /\ Ordinary(Tail(todo))
         /\ ~gone
<1>1. todo \notin Ending
  BY EndingSteps
<1>2. Ordinary(todo) /\ ~gone
  BY <1>1 DEF Life
<1> QED BY <1>1, <1>2, RestIsOrdinary, EndingIsNotOrdinary DEF TypeOK

LEMMA NextInv == IInv /\ [Next]_vars => IInv'
<1> SUFFICES ASSUME IInv, [Next]_vars PROVE IInv' OBVIOUS
<1> USE DEF IInv
<1>1. CASE Call
  <2>1. PICK m \in SetUp \cup CodeAsync \cup CodeSync \cup ResetUnderlying : todo' = m
    BY <1>1 DEF Call
  <2>2. todo' \in Seq(Statements) /\ Ordinary(todo') /\ todo' \notin Ending /\ ~gone'
    BY <1>1, <2>1, Methods, EndingIsNotOrdinary DEF Call, Life, Alone
  <2>3. TypeOK'
    BY <1>1, <2>2, MemoryAssumption
    DEF Call, TypeOK, heapVars, reportVars, threadVars
  <2>4. header' = heap' /\ EveryByteCounted'
    BY <1>1 DEF Call, heapVars, reportVars, EveryByteCounted
  <2> QED BY <2>2, <2>3, <2>4 DEF Life, Ending
<1>2. CASE OnOK
  <2>1. todo' \in Seq(Statements) /\ Ordinary(todo') /\ todo' \notin Ending
    BY <1>2, Methods, EndingIsNotOrdinary DEF OnOK
  <2>2. ~gone'
    BY <1>2 DEF OnOK, Life, Alone
  <2>3. TypeOK'
    BY <1>2, <2>1 DEF OnOK, TypeOK, heapVars, reportVars
  <2>4. header' = heap' /\ EveryByteCounted'
    BY <1>2 DEF OnOK, heapVars, reportVars, EveryByteCounted
  <2> QED BY <2>1, <2>2, <2>3, <2>4 DEF Life, Ending
<1>3. CASE Drop
  <2>1. TypeOK' /\ header' = heap' /\ EveryByteCounted'
    BY <1>3 DEF Drop, TypeOK, heapVars, reportVars, threadVars, EveryByteCounted
  <2> QED BY <1>3, <2>1 DEF Drop, Life, Alone, Freed, heapVars, threadVars
<1>4. CASE Destroy
  <2>1. todo' = <<"end", "exchange", "tell", "gone">>
    BY <1>4 DEF Destroy, Destructor
  <2>2. todo' \in Ending /\ todo' \in Seq(Statements)
    BY <2>1, EndingIsNotOrdinary DEF Ending
  <2>3. Alone' /\ ~gone'
    BY <1>4 DEF Destroy, Unreferenced, Alone, threadVars
  <2>4. TypeOK' /\ header' = heap' /\ EveryByteCounted'
    BY <1>4, <2>2 DEF Destroy, TypeOK, heapVars, reportVars, threadVars, EveryByteCounted
  <2> QED BY <2>1, <2>2, <2>3, <2>4 DEF Life
<1>5. CASE Lock \/ Unlock \/ Queue
  <2>1. todo # <<>> /\ Head(todo) \in {"lock", "unlock", "queue"} /\ todo' = Tail(todo)
    BY <1>5 DEF Lock, Unlock, Queue, At, Done
  <2>2. todo' \notin Ending /\ todo' \in Seq(Statements) /\ Ordinary(todo') /\ ~gone
    BY <2>1, OrdinaryStep
  <2>3. TypeOK' /\ header' = heap' /\ EveryByteCounted'
    <3>1. CASE Lock
      BY <2>2, <3>1 DEF Lock, TypeOK, heapVars, reportVars, threadVars, EveryByteCounted
    <3>2. CASE Unlock
      BY <2>2, <3>2 DEF Unlock, TypeOK, heapVars, reportVars, threadVars, EveryByteCounted
    <3>3. CASE Queue
      BY <2>2, <3>3 DEF Queue, TypeOK, heapVars, reportVars, threadVars, EveryByteCounted
    <3> QED BY <1>5, <3>1, <3>2, <3>3
  <2>4. ~gone'
    BY <1>5, <2>2 DEF Lock, Unlock, Queue
  <2> QED BY <2>2, <2>3, <2>4 DEF Life, Ending
<1>6. CASE Work
  <2>1. todo # <<>> /\ Head(todo) = "code"
    BY <1>6 DEF Work, At
  <2>2. /\ todo' \notin Ending /\ todo' \in Seq(Statements) /\ Ordinary(todo')
        /\ ~gone'
    BY <1>6, <2>1, OrdinaryStep DEF Work, Done, TypeOK, Life
  <2>3. TypeOK' /\ header' = heap' /\ EveryByteCounted'
    <3>1. CASE liblzma /\ UNCHANGED todo
      BY <1>6, <2>2, <3>1, AllocatorCounts DEF Work, TypeOK, reportVars, threadVars
    <3>2. CASE Done /\ UNCHANGED heapVars
      BY <1>6, <2>2, <3>2
      DEF Work, TypeOK, heapVars, reportVars, threadVars, EveryByteCounted
    <3> QED BY <1>6, <3>1, <3>2 DEF Work
  <2> QED BY <2>2, <2>3 DEF Life, Ending
<1>7. CASE End
  <2>1. CASE (\E b \in Blocks : Free(b)) /\ UNCHANGED todo
    <3>1. liblzma
      BY <2>1 DEF liblzma
    <3>2. TypeOK' /\ header' = heap' /\ EveryByteCounted'
      BY <1>7, <2>1, <3>1, AllocatorCounts DEF End, TypeOK, reportVars, threadVars
    <3>3. todo # <<>> /\ Head(todo) = "end" /\ UNCHANGED <<todo, gone, threadVars, mutex, dropped>>
      BY <1>7, <2>1 DEF End, At
    <3> QED BY <3>2, <3>3, EndingSteps DEF Life, Alone, threadVars, Ending
  <2>2. CASE (\A b \in Blocks : heap[b] = 0) /\ Done /\ UNCHANGED heapVars
    <3>1. todo # <<>> /\ Head(todo) = "end" /\ todo' = Tail(todo)
          /\ UNCHANGED <<gone, heapVars, reportVars, threadVars, mutex, dropped, calls>>
      BY <1>7, <2>2 DEF End, At, Done
    <3>2. ~gone' /\ Freed'
      BY <2>2, <3>1 DEF Life, Freed, heapVars
    <3>3. CASE todo \in Ending
      <4>1. todo' = <<"exchange", "tell", "gone">>
        BY <3>1, <3>3, EndingSteps
      <4>2. todo' \in Ending /\ todo' \in Seq(Statements)
        BY <4>1, EndingIsNotOrdinary DEF Ending
      <4>3. TypeOK' /\ header' = heap' /\ EveryByteCounted'
        BY <3>1, <4>2 DEF TypeOK, heapVars, reportVars, threadVars, EveryByteCounted
      <4> QED BY <3>1, <3>2, <3>3, <4>1, <4>2, <4>3 DEF Life, Alone, threadVars
    <3>4. CASE todo \notin Ending
      <4>1. todo' \in Seq(Statements) /\ Ordinary(todo') /\ todo' \notin Ending
        BY <3>1, <3>4, RestIsOrdinary, EndingIsNotOrdinary DEF Life, TypeOK
      <4>2. TypeOK' /\ header' = heap' /\ EveryByteCounted'
        BY <3>1, <4>1 DEF TypeOK, heapVars, reportVars, threadVars, EveryByteCounted
      <4> QED BY <3>2, <4>1, <4>2 DEF Life, Ending
    <3> QED BY <3>3, <3>4
  <2> QED BY <1>7, <2>1, <2>2 DEF End
<1>8. CASE Exchange
  <2>1. /\ todo # <<>> /\ Head(todo) = "exchange"
        /\ todo' = Tail(todo) \/ todo' = Tail(Tail(todo))
        /\ UNCHANGED <<gone, heap, header, live, threadVars, mutex, dropped, calls, told>>
        /\ nonAdjusted' = 0 /\ taken' = taken + nonAdjusted
    BY <1>8 DEF Exchange, At, Done
  <2>2. header' = heap' /\ EveryByteCounted' /\ ~gone'
    BY <2>1 DEF EveryByteCounted, TypeOK, Life
  <2>3. CASE todo \in Ending
    <3>1. /\ todo = <<"exchange", "tell", "gone">>
          /\ todo' = <<"tell", "gone">> \/ todo' = <<"gone">>
      BY <2>1, <2>3, EndingSteps
    <3>2. todo' \in Ending /\ todo' \in Seq(Statements) /\ todo' # <<"exchange", "tell", "gone">>
      <4>1. todo' \in Ending /\ todo' # <<"exchange", "tell", "gone">>
        BY <3>1 DEF Ending
      <4> QED BY <4>1, EndingIsNotOrdinary
    <3>3. TypeOK'
      BY <2>1, <3>2 DEF TypeOK, threadVars
    <3>4. Freed' /\ Alone'
      BY <2>1, <2>3, <3>1 DEF Life, Freed, Alone, threadVars
    <3> QED BY <2>1, <2>2, <3>2, <3>3, <3>4 DEF Life
  <2>4. CASE todo \notin Ending
    <3>1. todo' \in Seq(Statements) /\ Ordinary(todo') /\ todo' \notin Ending
      BY <2>1, <2>4, RestIsOrdinary, RestAfterReport, EndingIsNotOrdinary DEF Life, TypeOK
    <3>2. TypeOK'
      BY <2>1, <3>1 DEF TypeOK, threadVars
    <3> QED BY <2>2, <3>1, <3>2 DEF Life, Ending
  <2> QED BY <2>3, <2>4
<1>9. CASE Tell
  <2>1. /\ todo # <<>> /\ Head(todo) = "tell" /\ todo' = Tail(todo)
        /\ told' = told + nonAdjusted
        /\ UNCHANGED <<gone, heapVars, threadVars, mutex, dropped, calls, taken>>
    BY <1>9 DEF Tell, At, Done
  <2>2. header' = heap' /\ EveryByteCounted' /\ ~gone'
    BY <2>1 DEF EveryByteCounted, TypeOK, Life, heapVars
  <2>3. CASE todo \in Ending
    <3>1. todo = <<"tell", "gone">> /\ todo' = <<"gone">>
      BY <2>1, <2>3, EndingSteps
    <3>2. todo' \in Ending /\ todo' \in Seq(Statements)
      BY <3>1, EndingIsNotOrdinary DEF Ending
    <3>3. todo' # <<"exchange", "tell", "gone">>
      BY <3>1
    <3>4. TypeOK'
      BY <2>1, <3>2 DEF TypeOK, heapVars, threadVars
    <3>5. Freed' /\ Alone' /\ nonAdjusted' = 0
      BY <2>1, <2>3, <3>1 DEF Life, Freed, Alone, threadVars, heapVars
    <3> QED BY <2>1, <2>2, <3>1, <3>2, <3>3, <3>4, <3>5 DEF Life
  <2>4. CASE todo \notin Ending
    <3>1. todo' \in Seq(Statements) /\ Ordinary(todo') /\ todo' \notin Ending
      BY <2>1, <2>4, RestIsOrdinary, EndingIsNotOrdinary DEF Life, TypeOK
    <3>2. TypeOK'
      BY <2>1, <3>1 DEF TypeOK, heapVars, threadVars
    <3> QED BY <2>2, <3>1, <3>2 DEF Life, Ending
  <2> QED BY <2>3, <2>4
<1>10. CASE Gone
  <2>1. /\ todo # <<>> /\ Head(todo) = "gone" /\ todo' = Tail(todo)
        /\ gone' = TRUE /\ told' = told - ObjectSize
        /\ UNCHANGED <<heapVars, threadVars, mutex, dropped, calls, taken>>
    BY <1>10 DEF Gone, At, Done
  <2>2. todo \in Ending
    <3>1. 1 \in DOMAIN todo /\ todo[1] = "gone"
      BY <2>1 DEF TypeOK
    <3> QED BY <3>1 DEF Life, Ordinary
  <2>3. todo = <<"gone">> /\ todo' = <<>>
    BY <2>1, <2>2, EndingSteps
  <2>4. TypeOK' /\ header' = heap' /\ EveryByteCounted'
    BY <2>1, <2>3, MemoryAssumption DEF TypeOK, heapVars, threadVars, EveryByteCounted
  <2>5. Alone' /\ Freed' /\ nonAdjusted' = 0
    BY <2>1, <2>2, <2>3 DEF Life, Alone, Freed, heapVars, threadVars
  <2>6. Ordinary(todo') /\ todo' \notin Ending
    BY <2>3, Pieces, EndingIsNotOrdinary
  <2> QED BY <2>1, <2>3, <2>4, <2>5, <2>6 DEF Life, Ending
<1>11. CASE WorkerLocks \/ WorkerUnlocks
  <2>1. ~gone /\ todo \notin Ending
    BY <1>11 DEF WorkerLocks, WorkerUnlocks, Life, Alone
  <2>2. TypeOK' /\ header' = heap' /\ EveryByteCounted'
    BY <1>11 DEF WorkerLocks, WorkerUnlocks, TypeOK, heapVars, reportVars, EveryByteCounted
  <2>3. UNCHANGED <<todo, gone>>
    BY <1>11 DEF WorkerLocks, WorkerUnlocks
  <2> QED BY <2>1, <2>2, <2>3 DEF Life, Ending
<1>12. CASE WorkerCodes
  <2>1. ~gone /\ todo \notin Ending
    BY <1>12 DEF WorkerCodes, Life, Alone
  <2>2. TypeOK' /\ header' = heap' /\ EveryByteCounted'
    BY <1>12, AllocatorCounts DEF WorkerCodes, TypeOK, reportVars, threadVars
  <2>3. UNCHANGED <<todo, gone>>
    BY <1>12 DEF WorkerCodes
  <2> QED BY <2>1, <2>2, <2>3 DEF Life, Ending
<1>13. CASE UNCHANGED vars
  BY <1>13 DEF vars, heapVars, reportVars, threadVars, TypeOK, EveryByteCounted, Life,
     Alone, Freed
<1> QED BY <1>1, <1>2, <1>3, <1>4, <1>5, <1>6, <1>7, <1>8, <1>9, <1>10, <1>11, <1>12, <1>13
    DEF Next, MainThread, Worker, Over

(* IInv is an invariant: the counter is in step with what liblzma holds,   *)
(* and the destructor runs when no worker is left.                         *)
LEMMA Invariant == Spec => []IInv
<1>1. Init => IInv
  BY InitInv
<1>2. IInv /\ [Next]_vars => IInv'
  BY NextInv
<1> QED BY <1>1, <1>2, PTL DEF Spec

-----------------------------------------------------------------------------

(* Type correctness of the object's memory. *)
THEOREM TypeCorrect == Spec => []TypeOK
<1>1. IInv => TypeOK
  BY DEF IInv
<1> QED BY <1>1, Invariant, PTL

(* No allocation or free of either thread is lost or counted twice,        *)
(* although reports read the counter without the lock.                     *)
THEOREM MemoryIsCounted == Spec => []EveryByteCounted
<1>1. IInv => EveryByteCounted
  BY DEF IInv
<1> QED BY <1>1, Invariant, PTL

(* A stream that was destroyed has freed every block, and no worker comes  *)
(* after it: each worker's Receiver has kept the stream alive.             *)
THEOREM MemoryIsGivenBack == Spec => []AllGivenBack
<1>1. IInv => AllGivenBack
  BY DEF IInv, Life, Freed, AllGivenBack
<1> QED BY <1>1, Invariant, PTL
=============================================================================
