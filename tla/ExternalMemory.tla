--------------------------- MODULE ExternalMemory ---------------------------
(***************************************************************************)
(* The memory of one native stream object: the allocator that liblzma is   *)
(* given (alloc, free), the atomic counter nonAdjustedExternalMemory, and  *)
(* the reports to V8 (src/lzma-stream.cpp 9-93).                           *)
(*                                                                         *)
(* liblzma allocates on the main thread (set-up, synchronous coding,       *)
(* lzma_end) and on pool threads.  A report is two accesses of the         *)
(* counter, exchange(0) and a load; the MemScope of a native method makes  *)
(* it after the lock has been dropped, so a worker may get in between.     *)
(* A native method is the sequence of its statements that touch the lock,  *)
(* liblzma's memory or the counter; todo holds what is left of it.         *)
(***************************************************************************)
EXTENDS Integers, Sequences

CONSTANTS
  Blocks,      \* addresses malloc may return
  Sizes,       \* what liblzma asks for
  HeaderSize,  \* sizeof(size_t)
  ObjectSize,  \* sizeof(LZMAStream)
  MaxCalls     \* bound on the native methods called

ASSUME MemoryAssumption ==
  /\ Sizes \subseteq Nat
  /\ HeaderSize \in Nat /\ ObjectSize \in Nat /\ MaxCalls \in Nat

VARIABLES
  heap,        \* the size of each block that malloc has given out, or 0
  header,      \* the size alloc has written in front of it
  live,        \* what liblzma holds, in bytes
  nonAdjusted, \* nonAdjustedExternalMemory
  taken,       \* what exchange(0) has taken from it so far
  told,        \* the sum of what V8 was told
  mutex, todo, calls,
  queued, finished,   \* workers before Execute, and between Execute and OnOK
  dropped,     \* JavaScript has dropped its last reference
  gone         \* the object has been destroyed

heapVars   == <<heap, header, live, nonAdjusted>>
reportVars == <<taken, told>>
threadVars == <<queued, finished>>
vars == <<heapVars, reportVars, threadVars, mutex, todo, calls, dropped, gone>>

-----------------------------------------------------------------------------
(* The allocator; each is one malloc or free with its atomic addition. *)

adjustExternalMemory(bytesChange) == nonAdjusted' = nonAdjusted + bytesChange

Alloc(b, size) ==
  LET nBytes == size + HeaderSize IN
  /\ heap[b] = 0
  /\ heap' = [heap EXCEPT ![b] = nBytes] /\ header' = [header EXCEPT ![b] = nBytes]
  /\ live' = live + nBytes
  /\ adjustExternalMemory(nBytes)

Free(b) ==
  /\ heap[b] # 0
  /\ heap' = [heap EXCEPT ![b] = 0] /\ header' = [header EXCEPT ![b] = 0]
  /\ live' = live - heap[b]
  /\ adjustExternalMemory(-header[b])

liblzma == \/ \E b \in Blocks, size \in Sizes : Alloc(b, size)
           \/ \E b \in Blocks : Free(b)

-----------------------------------------------------------------------------
(* The native methods *)

Report == <<"exchange", "tell">>
Reset  == <<"end">> \o Report
MayReset == {<<>>, Reset}

SetUp           == {<<"lock", "code", "unlock">>}
CodeAsync       == {<<"lock", "queue", "unlock">> \o Report}
CodeSync        == {<<"lock", "code">> \o r \o Report \o <<"unlock">> \o Report : r \in MayReset}
ResetUnderlying == {<<"lock">> \o Reset \o <<"unlock">> \o Report}
BufferHandler   == <<"unlock", "lock">>
Handlers        == {<<"lock">> \o h \o <<"unlock">> \o Report :
                      h \in MayReset \cup {BufferHandler, BufferHandler \o Reset}}

Destructor      == <<"end", "exchange", "tell", "gone">>

Statements == {"lock", "unlock", "code", "queue", "end", "exchange", "tell", "gone"}

Call ==
  /\ todo = <<>> /\ ~dropped /\ calls < MaxCalls
  /\ todo' \in SetUp \cup CodeAsync \cup CodeSync \cup ResetUnderlying
  /\ calls' = calls + 1
  /\ UNCHANGED <<heapVars, reportVars, threadVars, mutex, dropped, gone>>

(* Mutation: the handlers run for a worker that has not finished. *)
OnOK_Unfinished ==
  /\ todo = <<>> /\ queued + finished > 0
  /\ todo' \in Handlers
  /\ finished' = finished - 1
  /\ UNCHANGED <<heapVars, reportVars, mutex, calls, queued, dropped, gone>>

OnOK ==
  /\ todo = <<>> /\ finished > 0
  /\ todo' \in Handlers
  /\ finished' = finished - 1
  /\ UNCHANGED <<heapVars, reportVars, mutex, calls, queued, dropped, gone>>

Drop ==
  /\ ~dropped /\ dropped' = TRUE
  /\ UNCHANGED <<heapVars, reportVars, threadVars, mutex, todo, calls, gone>>

(* Mutation: the worker does not hold on to the stream. *)
Unreferenced_ByJavaScript == dropped

(* The Receiver of each worker holds the stream until its OnOK is done. *)
Unreferenced == dropped /\ queued = 0 /\ finished = 0 /\ mutex # "worker"

Destroy ==
  /\ todo = <<>> /\ Unreferenced /\ ~gone
  /\ todo' = Destructor
  /\ UNCHANGED <<heapVars, reportVars, threadVars, mutex, calls, dropped, gone>>

-----------------------------------------------------------------------------
(* The main thread, statement by statement *)

At(statement) == todo # <<>> /\ Head(todo) = statement
Done == todo' = Tail(todo)

Lock ==
  /\ At("lock") /\ mutex = "free" /\ mutex' = "main" /\ Done
  /\ UNCHANGED <<heapVars, reportVars, threadVars, calls, dropped, gone>>

Unlock ==
  /\ At("unlock") /\ mutex' = "free" /\ Done
  /\ UNCHANGED <<heapVars, reportVars, threadVars, calls, dropped, gone>>

Queue ==
  /\ At("queue") /\ queued' = queued + 1 /\ Done
  /\ UNCHANGED <<heapVars, reportVars, mutex, calls, finished, dropped, gone>>

(* liblzma sets up a coder or codes. *)
Work ==
  /\ At("code")
  /\ \/ liblzma /\ UNCHANGED todo
     \/ Done /\ UNCHANGED heapVars
  /\ UNCHANGED <<reportVars, threadVars, mutex, calls, dropped, gone>>

(* lzma_end frees whatever there is. *)
End ==
  /\ At("end")
  /\ \/ \E b \in Blocks : Free(b) /\ UNCHANGED todo
     \/ (\A b \in Blocks : heap[b] = 0) /\ Done /\ UNCHANGED heapVars
  /\ UNCHANGED <<reportVars, threadVars, mutex, calls, dropped, gone>>

(* Mutation: the counter is loaded, and not exchanged. *)
Exchange_Load ==
  /\ At("exchange")
  /\ taken' = taken + nonAdjusted
  /\ IF nonAdjusted = 0 THEN todo' = Tail(Tail(todo)) ELSE Done
  /\ UNCHANGED <<heapVars, told, threadVars, mutex, calls, dropped, gone>>

(* exchange(0); nothing is reported when there was nothing. *)
Exchange ==
  /\ At("exchange")
  /\ taken' = taken + nonAdjusted /\ nonAdjusted' = 0
  /\ IF nonAdjusted = 0 THEN todo' = Tail(Tail(todo)) ELSE Done
  /\ UNCHANGED <<heap, header, live, told, threadVars, mutex, calls, dropped, gone>>

(* V8 is told what the counter holds now. *)
Tell ==
  /\ At("tell") /\ told' = told + nonAdjusted /\ Done
  /\ UNCHANGED <<heapVars, taken, threadVars, mutex, calls, dropped, gone>>

Gone ==
  /\ At("gone") /\ gone' = TRUE /\ told' = told - ObjectSize /\ Done
  /\ UNCHANGED <<heapVars, taken, threadVars, mutex, calls, dropped>>

(* A pool thread: Execute, from taking the lock to dropping it. *)
WorkerLocks ==
  /\ queued > 0 /\ mutex = "free"
  /\ queued' = queued - 1 /\ mutex' = "worker"
  /\ UNCHANGED <<heapVars, reportVars, todo, calls, finished, dropped, gone>>

WorkerCodes ==
  /\ mutex = "worker" /\ liblzma
  /\ UNCHANGED <<reportVars, threadVars, mutex, todo, calls, dropped, gone>>

WorkerUnlocks ==
  /\ mutex = "worker"
  /\ mutex' = "free" /\ finished' = finished + 1
  /\ UNCHANGED <<heapVars, reportVars, todo, calls, queued, dropped, gone>>

(* Nothing is left to do. *)
Over == gone /\ UNCHANGED vars

-----------------------------------------------------------------------------

Init ==
  /\ heap = [b \in Blocks |-> 0] /\ header = [b \in Blocks |-> 0] /\ live = 0
  /\ nonAdjusted = 0 /\ taken = 0 /\ told = ObjectSize
  /\ mutex = "free" /\ todo = <<>> /\ calls = 0
  /\ queued = 0 /\ finished = 0
  /\ dropped = FALSE /\ gone = FALSE

MainThread == Lock \/ Unlock \/ Queue \/ Work \/ End \/ Exchange \/ Tell \/ Gone
Worker == WorkerLocks \/ WorkerCodes \/ WorkerUnlocks
Next == Call \/ OnOK \/ Drop \/ Destroy \/ MainThread \/ Worker \/ Over

Spec == Init /\ [][Next]_vars

TypeOK ==
  /\ heap \in [Blocks -> Nat] /\ header \in [Blocks -> Nat]
  /\ live \in Int /\ nonAdjusted \in Int /\ taken \in Int /\ told \in Int
  /\ mutex \in {"free", "main", "worker"}
  /\ todo \in Seq(Statements) /\ calls \in 0 .. MaxCalls
  /\ queued \in Nat /\ finished \in Nat
  /\ dropped \in BOOLEAN /\ gone \in BOOLEAN

-----------------------------------------------------------------------------
(* Safety *)

(* However allocations, frees and reports of the two threads interleave,   *)
(* each byte is in the counter once until a report has taken it, so that   *)
(* what the reports have taken and what waits add up to what liblzma holds.*)
EveryByteCounted == nonAdjusted + taken = live

(* A stream that is gone has given back all of liblzma's memory, and the   *)
(* counter has been taken for the last time: no worker allocates in a      *)
(* stream while it is destroyed, or afterwards.                            *)
AllGivenBack == gone => nonAdjusted = 0 /\ \A b \in Blocks : heap[b] = 0

=============================================================================
