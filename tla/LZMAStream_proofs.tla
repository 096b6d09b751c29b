-------------------------- MODULE LZMAStream_proofs --------------------------
(***************************************************************************)
(* Every step of the native object keeps its types, whoever drives it: the *)
(* lemmas that the proofs about JSLzmaStream and DirectCaller share.  The  *)
(* steps of LZMAStream leave calls to their caller.                        *)
(***************************************************************************)
EXTENDS LZMAStream, FiniteSetTheorems, TLAPS

-----------------------------------------------------------------------------
(* Chunks *)

LEMMA FileFacts ==
  ASSUME job \in Jobs
  PROVE  /\ File \in Seq(Kinds) /\ Len(File) \in Nat
         /\ Units = 1 .. Len(File) /\ Payload \subseteq Units
BY JobsAssumption DEF IsJob, File, Units, Payload

LEMMA ChunkFacts ==
  ASSUME job \in Jobs, NEW chunk \in Chunk
  PROVE  /\ chunk.lo \in Nat /\ chunk.hi \in Nat /\ chunk.lo <= chunk.hi
         /\ chunk.lo \in 0 .. Len(File) /\ chunk.hi \in 0 .. Len(File)
         /\ Size(chunk) \in Nat
BY FileFacts DEF Chunk, Size

LEMMA MakeChunk ==
  ASSUME job \in Jobs, NEW l \in Nat, NEW h \in Nat, l <= h, h <= Len(File)
  PROVE  [lo |-> l, hi |-> h] \in Chunk
BY FileFacts DEF Chunk

LEMMA NoInputChunk ==
  ASSUME job \in Jobs
  PROVE  NoInput \in Chunk
BY MakeChunk, FileFacts DEF NoInput

-----------------------------------------------------------------------------
(* Types *)

LEMMA SameJob ==
  ASSUME job' = job
  PROVE  Chunk' = Chunk /\ Units' = Units /\ Coder' = Coder /\ Call' = Call
BY DEF Chunk, Units, Coder, Call, File

LEMMA FreshCoderType == FreshCoder \in Coder
BY DEF FreshCoder, Coder

LEMMA CodeTypes ==
  ASSUME NativeTypeOK, NEW chunk \in Chunk, NEW async \in BOOLEAN,
         Code(chunk, async), calls' \in Seq(Call)
  PROVE  NativeTypeOK'
<1>1. job' = job
  BY DEF Code
<1>2. Append(inbufs, chunk) \in Seq(Chunk)
  BY DEF NativeTypeOK
<1>3. shouldFinish' \in BOOLEAN
  BY DEF Code, NativeTypeOK
<1>4. /\ mutex' \in {"free", "main", "worker"} /\ workers' \in Nat /\ finished' \in Nat
      /\ pc' \in {"idle", "coding", "outbufs", "chunks", "reset", "aborted"}
  BY DEF Code, NativeTypeOK
<1> QED
  BY <1>1, <1>2, <1>3, <1>4, SameJob DEF Code, NativeTypeOK, locals

LEMMA ResetTypes ==
  ASSUME NativeTypeOK, NEW again \in BOOLEAN, ResetUnderlying(again), calls' \in Seq(Call)
  PROVE  NativeTypeOK'
<1>1. job' = job
  BY DEF ResetUnderlying, settings
<1> QED
  BY <1>1, SameJob, FreshCoderType
  DEF ResetUnderlying, NativeTypeOK, settings, locals, threads, CodeResults

LEMMA SetBufsizeTypes ==
  ASSUME NativeTypeOK, NEW n \in Nat, SetBufsize(n), calls' \in Seq(Call)
  PROVE  NativeTypeOK'
<1>1. job' = job
  BY DEF SetBufsize
<1>2. bufsize' \in Nat
  BY DEF SetBufsize, NativeTypeOK
<1> QED
  BY <1>1, <1>2, SameJob DEF SetBufsize, NativeTypeOK, coding, locals, threads

(* The coding loop leaves the threads, and the current chunk, in order. *)
LEMMA LeaveTypes ==
  ASSUME NativeTypeOK, Leave, job' = job
  PROVE  /\ inbuf' \in Chunk /\ readChunks' \in Nat
         /\ mutex' \in {"free", "main", "worker"} /\ workers' \in Nat /\ finished' \in Nat
         /\ pc' \in {"idle", "coding", "outbufs", "chunks", "reset", "aborted"}
BY NoInputChunk DEF Leave, NativeTypeOK

LEMMA AfterCodeTypes ==
  ASSUME NativeTypeOK, NEW k \in 0 .. Size(inbuf), NEW out \in SUBSET Units,
         NEW ret \in CodeResults, AfterCode(k, out, ret), coder' \in Coder
  PROVE  NativeTypeOK'
<1>1. job' = job
  BY DEF AfterCode, settings
<1>2. outbufs' \in Seq(SUBSET Units)
  BY DEF AfterCode, NativeTypeOK
<1>3. CASE Break
  <2>1. processedChunks' \in Nat
    BY <1>3 DEF Break, NativeTypeOK
  <2> QED
    BY <1>1, <1>2, <1>3, <2>1, LeaveTypes, SameJob DEF Break, AfterCode, NativeTypeOK, settings
<1>4. CASE Continue(k)
  <2>1. inbuf' \in Chunk
    <3>1. inbuf.lo + k \in Nat /\ inbuf.lo + k <= inbuf.hi /\ inbuf.hi <= Len(File) /\ inbuf.hi \in Nat
      BY ChunkFacts, FileFacts DEF NativeTypeOK, Size
    <3>2. inbuf = [lo |-> inbuf.lo, hi |-> inbuf.hi]
      BY DEF NativeTypeOK, Chunk
    <3>3. inbuf' = [lo |-> inbuf.lo + k, hi |-> inbuf.hi]
      BY <1>4, <3>2 DEF Continue
    <3> QED
      BY <3>1, <3>3, MakeChunk DEF NativeTypeOK
  <2> QED
    BY <1>1, <1>2, <1>4, <2>1, SameJob DEF Continue, AfterCode, NativeTypeOK, settings, threads
<1> QED
  BY <1>3, <1>4 DEF AfterCode

LEMMA PoolType ==
  ASSUME NativeTypeOK, NEW k
  PROVE  Pool(k) \in SUBSET Units
BY FileFacts DEF NativeTypeOK, Pool, Coder

LEMMA DoLZMACodeTypes ==
  ASSUME NativeTypeOK, DoLZMACode
  PROVE  NativeTypeOK'
<1>1. {} \in SUBSET Units /\ 0 \in 0 .. Size(inbuf)
  BY ChunkFacts DEF NativeTypeOK
<1>2. "OK" \in CodeResults /\ "STREAM_END" \in CodeResults /\ "ERROR" \in CodeResults
  BY DEF CodeResults
<1>3. CASE NoCoder
  <2>1. job' = job
    BY <1>3 DEF NoCoder, settings
  <2> QED
    BY <1>3, <2>1, LeaveTypes, SameJob DEF NoCoder, NativeTypeOK, coding, settings
<1>4. CASE FetchChunk
  <2>1. job' = job
    BY <1>4 DEF FetchChunk, settings
  <2>2. inbuf' \in Chunk /\ inbufs' \in Seq(Chunk) /\ readChunks' \in Nat
    BY <1>4 DEF FetchChunk, NativeTypeOK
  <2> QED
    BY <1>4, <2>1, <2>2, SameJob DEF FetchChunk, NativeTypeOK, settings, threads
<1>5. CASE CodeProgress
  <2>1. PICK k \in Takes(coder, inbuf) : \E out \in Emissions(Pool(k)), ret \in {"OK", "STREAM_END"} :
          /\ coder' = [sequence |-> IF ret = "STREAM_END" THEN "end"
                                    ELSE IF Action = "FINISH" THEN "finish" ELSE "run",
                       started |-> coder.started \/ k > 0,
                       ended |-> Decoder /\ Ending(k, Action),
                       pending |-> Pool(k) \ out,
                       stuck |-> FALSE]
          /\ AfterCode(k, out, ret)
    BY <1>5 DEF CodeProgress
  <2>2. PICK out \in Emissions(Pool(k)), ret \in {"OK", "STREAM_END"} :
          /\ coder' = [sequence |-> IF ret = "STREAM_END" THEN "end"
                                    ELSE IF Action = "FINISH" THEN "finish" ELSE "run",
                       started |-> coder.started \/ k > 0,
                       ended |-> Decoder /\ Ending(k, Action),
                       pending |-> Pool(k) \ out,
                       stuck |-> FALSE]
          /\ AfterCode(k, out, ret)
    BY <2>1
  <2>3. k \in 0 .. Size(inbuf)
    BY DEF Takes
  <2>4. out \in SUBSET Units /\ Pool(k) \ out \in SUBSET Units
    BY PoolType DEF Emissions
  <2>5. coder' \in Coder
    <3>1. (Decoder /\ Ending(k, Action)) \in BOOLEAN /\ (coder.started \/ k > 0) \in BOOLEAN
      OBVIOUS
    <3> HIDE DEF Action, Ending
    <3> QED
      BY <2>2, <2>4, <3>1 DEF Coder
  <2> QED
    BY <1>2, <2>2, <2>3, <2>4, <2>5, AfterCodeTypes
<1>6. CASE CodeStuck
  <2>1. coder' \in Coder
    BY <1>6 DEF CodeStuck, NativeTypeOK, Coder
  <2> QED
    BY <1>1, <1>2, <1>6, <2>1, AfterCodeTypes DEF CodeStuck
<1>7. CASE CodeFails
  <2>1. coder' \in Coder
    BY <1>7 DEF CodeFails, NativeTypeOK, Coder
  <2> QED
    BY <1>1, <1>2, <1>7, <2>1, AfterCodeTypes DEF CodeFails
<1>8. CASE CodeEnded
  <2>1. coder' \in Coder
    BY <1>8 DEF CodeEnded, NativeTypeOK
  <2> QED
    BY <1>1, <1>2, <1>8, <2>1, AfterCodeTypes DEF CodeEnded
<1> QED
  BY <1>3, <1>4, <1>5, <1>6, <1>7, <1>8 DEF DoLZMACode

LEMMA CallTypes ==
  ASSUME NativeTypeOK
  PROVE  /\ \A out \in SUBSET Units : BufCall(out) \in Call
         /\ NullCall \in Call /\ ErrorCall \in Call
         /\ \A n \in Nat : NumberCall(n) \in Call
BY DEF Call, CallKinds, BufCall, NullCall, ErrorCall, NumberCall

LEMMA HandlersTypes ==
  ASSUME NativeTypeOK, InvokeBufferHandlers
  PROVE  NativeTypeOK'
<1>1. job' = job
  BY DEF InvokeBufferHandlers, HandOutput, HandResult, HandChunks, HandNothing,
     HandChunksBeforeReset, HandReset, settings
<1>2. calls' \in Seq(Call)
  <2>1. CASE calls' = calls
    BY <2>1 DEF NativeTypeOK
  <2>2. CASE HandOutput
    <3>1. Head(outbufs) \in SUBSET Units
      BY <2>2 DEF HandOutput, NativeTypeOK
    <3> QED
      BY <2>2, <3>1, CallTypes DEF HandOutput, NativeTypeOK
  <2>3. CASE HandResult
    BY <2>3, CallTypes DEF HandResult, NativeTypeOK
  <2>4. CASE HandChunks \/ HandChunksBeforeReset
    <3>1. calls' = Append(calls, NumberCall(processedChunks))
      BY <2>4 DEF HandChunks, HandChunksBeforeReset
    <3> QED
      BY <3>1, CallTypes DEF NativeTypeOK
  <2> QED
    BY <2>1, <2>2, <2>3, <2>4 DEF InvokeBufferHandlers, HandNothing, HandReset
<1>3. outbufs' \in Seq(SUBSET Units)
  <2>1. CASE HandOutput
    BY <2>1 DEF HandOutput, NativeTypeOK
  <2>2. CASE outbufs' = outbufs
    BY <2>2 DEF NativeTypeOK
  <2> QED
    BY <2>1, <2>2 DEF InvokeBufferHandlers, HandResult, HandChunks, HandNothing,
       HandChunksBeforeReset, HandReset, coding
<1>4. internal' \in BOOLEAN /\ coder' \in Coder /\ lastCodeResult' \in CodeResults /\ processedChunks' \in Nat
  <2>1. CASE HandReset
    BY <2>1, FreshCoderType DEF HandReset, resetUnderlying, CodeResults
  <2>2. CASE UNCHANGED <<internal, coder, lastCodeResult>> /\ processedChunks' \in {processedChunks, 0}
    BY <2>2 DEF NativeTypeOK
  <2> QED
    BY <2>1, <2>2 DEF InvokeBufferHandlers, HandOutput, HandResult, HandChunks, HandNothing,
       HandChunksBeforeReset, coding
<1>5. /\ mutex' \in {"free", "main", "worker"}
      /\ pc' \in {"idle", "coding", "outbufs", "chunks", "reset", "aborted"}
  BY DEF InvokeBufferHandlers, HandOutput, HandResult, HandChunks, HandNothing,
     HandChunksBeforeReset, HandReset, HandlersReturn, threads, NativeTypeOK
<1>6. UNCHANGED <<inbufs, settings, locals, workers, finished>>
  BY DEF InvokeBufferHandlers, HandOutput, HandResult, HandChunks, HandNothing,
     HandChunksBeforeReset, HandReset, HandlersReturn, threads, coding
<1> QED
  BY <1>1, <1>2, <1>3, <1>4, <1>5, <1>6, SameJob DEF NativeTypeOK, settings, locals

LEMMA NativeStepTypes ==
  ASSUME NativeTypeOK, NativeStep
  PROVE  NativeTypeOK'
<1>1. CASE WorkerStarts
  BY <1>1, SameJob DEF WorkerStarts, NativeTypeOK, coding, settings, locals
<1>2. CASE WorkerThrows
  BY <1>2, SameJob DEF WorkerThrows, NativeTypeOK, coding, settings, locals
<1>3. CASE WorkerOnOK
  BY <1>3, SameJob DEF WorkerOnOK, NativeTypeOK, coding, settings, locals
<1> QED
  BY <1>1, <1>2, <1>3, DoLZMACodeTypes, HandlersTypes DEF NativeStep

-----------------------------------------------------------------------------
(* The work that is left *)

(* While the main thread codes it holds the lock. *)
Locks == pc = "coding" => mutex = "main"

HeadSize == IF inbufs = <<>> THEN 0 ELSE Size(Head(inbufs))

LEMMA HandlerWorkIs ==
  /\ HandlerWork("outbufs") = 8 /\ HandlerWork("chunks") = 5 /\ HandlerWork("reset") = 2
  /\ HandlerWork("idle") = 0 /\ HandlerWork("coding") = 0 /\ HandlerWork("aborted") = 0
BY DEF HandlerWork

LEMMA ThreadWorkIs ==
  ASSUME NativeTypeOK
  PROVE  /\ ThreadWork \in Nat /\ HandlerWork(pc) \in Nat
         /\ Coding => ThreadWork = 12 * workers + 9 * finished + 11 + HandlerWork(pc)
         /\ ~Coding => ThreadWork = 12 * workers + 9 * finished + HandlerWork(pc)
<1>1. HandlerWork(pc) \in Nat
  BY HandlerWorkIs DEF NativeTypeOK
<1>2. CASE Coding
  BY <1>1, <1>2 DEF ThreadWork, NativeTypeOK
<1>3. CASE ~Coding
  BY <1>1, <1>3 DEF ThreadWork, NativeTypeOK
<1> QED
  BY <1>1, <1>2, <1>3

(* The same of the state after a step. *)
LEMMA ThreadWorkNext ==
  ASSUME workers' \in Nat, finished' \in Nat,
         pc' \in {"idle", "coding", "outbufs", "chunks", "reset", "aborted"}
  PROVE  /\ ThreadWork' \in Nat /\ HandlerWork(pc') \in Nat
         /\ Coding' => ThreadWork' = 12 * workers' + 9 * finished' + 11 + HandlerWork(pc')
         /\ ~Coding' => ThreadWork' = 12 * workers' + 9 * finished' + HandlerWork(pc')
<1>1. HandlerWork(pc') \in Nat
  BY HandlerWorkIs
<1>2. CASE Coding'
  BY <1>1, <1>2 DEF ThreadWork
<1>3. CASE ~Coding'
  BY <1>1, <1>3 DEF ThreadWork
<1> QED
  BY <1>1, <1>2, <1>3

LEMMA WorkIsNatural ==
  ASSUME NativeTypeOK
  PROVE  /\ IsFiniteSet(coder.pending) /\ Cardinality(coder.pending) \in Nat
         /\ CoderWork \in Nat /\ ThreadWork \in Nat /\ Size(inbuf) \in Nat /\ HeadSize \in Nat
         /\ Len(outbufs) \in Nat /\ Len(inbufs) \in Nat /\ Len(calls) \in Nat
         /\ NativeWork \in Nat
<1>1. IsFiniteSet(Units)
  BY FileFacts, FS_Interval DEF NativeTypeOK
<1>2. IsFiniteSet(coder.pending) /\ Cardinality(coder.pending) \in Nat
  BY <1>1, FS_Subset, FS_CardinalityType DEF NativeTypeOK, Coder
<1>3. CoderWork \in Nat
  BY <1>2 DEF CoderWork
<1>4. ThreadWork \in Nat
  BY ThreadWorkIs
<1>5. Len(outbufs) \in Nat /\ Len(inbufs) \in Nat /\ Len(calls) \in Nat
  BY DEF NativeTypeOK
<1>6. Size(inbuf) \in Nat
  BY ChunkFacts DEF NativeTypeOK
<1>7. HeadSize \in Nat
  <2>1. inbufs # <<>> => Head(inbufs) \in Chunk
    BY DEF NativeTypeOK
  <2> QED
    BY <2>1, ChunkFacts DEF HeadSize, NativeTypeOK
<1> QED
  BY <1>2, <1>3, <1>4, <1>5, <1>6, <1>7 DEF NativeWork

(* What is taken in and given out of the coder. *)
LEMMA PoolSize ==
  ASSUME NativeTypeOK, NEW k \in 0 .. Size(inbuf), NEW out \in SUBSET Pool(k)
  PROVE  /\ IsFiniteSet(out) /\ Cardinality(out) \in Nat /\ Cardinality(Pool(k) \ out) \in Nat
         /\ Cardinality(Pool(k) \ out) + Cardinality(out) <= Cardinality(coder.pending) + k
<1> DEFINE taken == (inbuf.lo + 1) .. (inbuf.lo + k)
           read == taken \cap Payload
<1>1. inbuf.lo \in Nat /\ k \in Nat
  BY ChunkFacts DEF NativeTypeOK
<1>2. IsFiniteSet(taken) /\ Cardinality(taken) = k
  <2>1. inbuf.lo + 1 \in Int /\ inbuf.lo + k \in Int
    BY <1>1
  <2>2. /\ IsFiniteSet(taken)
        /\ Cardinality(taken) = IF inbuf.lo + 1 > inbuf.lo + k THEN 0
                                ELSE (inbuf.lo + k) - (inbuf.lo + 1) + 1
    BY <2>1, FS_Interval
  <2>3. IF inbuf.lo + 1 > inbuf.lo + k THEN k = 0 ELSE k = (inbuf.lo + k) - (inbuf.lo + 1) + 1
    BY <1>1
  <2> QED
    BY <2>2, <2>3
<1> HIDE DEF taken
<1>3. IsFiniteSet(read) /\ Cardinality(read) <= k /\ Cardinality(read) \in Nat
  BY <1>2, FS_Subset, FS_CardinalityType
<1>4. Pool(k) = coder.pending \cup read
  BY DEF Pool, taken
<1> HIDE DEF read
<1>5. IsFiniteSet(coder.pending) /\ Cardinality(coder.pending) \in Nat
  BY WorkIsNatural
<1>6. /\ IsFiniteSet(Pool(k))
      /\ Cardinality(Pool(k)) = Cardinality(coder.pending) + Cardinality(read)
                                  - Cardinality(coder.pending \cap read)
  BY <1>3, <1>4, <1>5, FS_Union
<1>7. Cardinality(coder.pending \cap read) \in Nat /\ Cardinality(Pool(k)) \in Nat
  BY <1>5, <1>6, FS_Subset, FS_CardinalityType
<1>8. Cardinality(Pool(k)) <= Cardinality(coder.pending) + k
  BY <1>1, <1>3, <1>5, <1>6, <1>7
<1>9. IsFiniteSet(out) /\ Cardinality(out) \in Nat
  BY <1>6, FS_Subset, FS_CardinalityType
<1>10. Pool(k) \cap out = out
  OBVIOUS
<1>11. /\ IsFiniteSet(Pool(k) \ out)
       /\ Cardinality(Pool(k) \ out) = Cardinality(Pool(k)) - Cardinality(Pool(k) \cap out)
  BY <1>6, FS_Difference
<1>12. Cardinality(Pool(k) \ out) = Cardinality(Pool(k)) - Cardinality(out)
  BY <1>10, <1>11
<1>13. Cardinality(Pool(k) \ out) \in Nat
  BY <1>11, FS_CardinalityType
<1> QED
  BY <1>1, <1>5, <1>7, <1>8, <1>9, <1>12, <1>13

(* A worker, or the main thread, leaves the coding loop. *)
LEMMA LeaveWork ==
  ASSUME NativeTypeOK, Locks, Coding, Leave
  PROVE  Size(inbuf') = 0 /\ ThreadWork' \in Nat /\ ThreadWork' + 2 <= ThreadWork
<1>1. Size(inbuf') = 0
  BY DEF Leave, NoInput, Size
<1>2. /\ workers' = workers /\ workers \in Nat /\ finished \in Nat /\ finished' \in Nat
      /\ pc' \in {"idle", "coding", "outbufs", "chunks", "reset", "aborted"}
      /\ HandlerWork(pc) \in Nat
      /\ ThreadWork = 12 * workers + 9 * finished + 11 + HandlerWork(pc)
  BY ThreadWorkIs DEF Leave, NativeTypeOK
<1> DEFINE thread1 == ThreadWork'
<1> SUFFICES thread1 \in Nat /\ thread1 + 2 <= ThreadWork
  BY <1>1
<1>3. ~Coding' => thread1 = 12 * workers' + 9 * finished' + HandlerWork(pc')
  BY <1>2, ThreadWorkNext
<1>4. thread1 \in Nat
  BY <1>2, ThreadWorkNext
<1> HIDE DEF thread1
<1>5. CASE mutex = "worker"
  <2>1. mutex' = "free" /\ finished' = finished + 1 /\ pc' = pc /\ pc # "coding"
    BY <1>5 DEF Leave, Locks
  <2>2. ~Coding'
    BY <2>1 DEF Coding
  <2>3. thread1 = 12 * workers + 9 * (finished + 1) + HandlerWork(pc)
    BY <1>2, <1>3, <2>1, <2>2
  <2> QED
    BY <1>2, <1>4, <2>3
<1>6. CASE mutex # "worker"
  <2>1. pc = "coding" /\ pc' = "outbufs" /\ finished' = finished /\ mutex' = "main"
    BY <1>6 DEF Leave, Coding
  <2>2. ~Coding'
    BY <2>1 DEF Coding
  <2>3. HandlerWork(pc) = 0 /\ HandlerWork(pc') = 8
    BY <2>1, HandlerWorkIs
  <2>4. thread1 = 12 * workers + 9 * finished + 8
    BY <1>2, <1>3, <2>1, <2>2, <2>3
  <2> QED
    BY <1>2, <1>4, <2>3, <2>4
<1> QED
  BY <1>5, <1>6

(* A call of lzma_code took k units in and gave out as much as out holds.  *)
LEMMA AfterCodeWork ==
  ASSUME NativeTypeOK, Locks, CallsLzmaCode, NEW k \in Nat, k <= Size(inbuf), NEW out, NEW ret,
         IsFiniteSet(out), AfterCode(k, out, ret),
         NEW given \in Nat, given = Cardinality(out),
         NEW coder1 \in Nat, CoderWork' = coder1,
         coder1 + 5 * given <= CoderWork + 5 * k + 1,
         ret = "OK" => k > 0 \/ out # {} \/ coder1 < CoderWork
  PROVE  /\ NativeWork' + 2 * Len(calls') < NativeWork + 2 * Len(calls)
         /\ inbufs' = inbufs
<1> DEFINE work1 == NativeWork'
           thread1 == ThreadWork'
           size == Size(inbuf)
           size1 == Size(inbuf')
           outs == Len(outbufs)
           outs1 == Len(outbufs')
           ins == Len(inbufs)
<1>1. /\ NativeWork \in Nat
      /\ NativeWork = 7 * size + CoderWork + 3 * outs + ins + ThreadWork
  BY WorkIsNatural DEF NativeWork
<1>2. /\ CoderWork \in Nat /\ ThreadWork \in Nat /\ size \in Nat
      /\ outs \in Nat /\ ins \in Nat /\ Len(calls) \in Nat /\ k <= size
  BY WorkIsNatural
<1>3. inbufs' = inbufs /\ calls' = calls
  BY DEF AfterCode
<1>4. out # {} => given >= 1
  BY FS_CardinalityType, FS_EmptySet
<1>5. outs1 \in Nat /\ 3 * outs1 <= 3 * outs + 5 * given /\ (out = {} => outs1 = outs) /\ outs1 <= outs + 1
  <2>1. CASE outbufs' = outbufs
    <3>1. outs1 = outs
      BY <2>1
    <3> HIDE DEF outs1, outs
    <3> QED
      BY <1>2, <3>1
  <2>2. CASE outbufs' = Append(outbufs, out) /\ out # {}
    <3>1. outs1 = outs + 1 /\ outs \in Nat
      BY <2>2 DEF NativeTypeOK
    <3> HIDE DEF outs1, outs
    <3> QED
      BY <1>4, <2>2, <3>1
  <2> QED
    BY <2>1, <2>2 DEF AfterCode, Stored
<1>6. work1 = 7 * size1 + coder1 + 3 * outs1 + ins + thread1
  BY <1>3 DEF NativeWork
<1>7. Break => size1 = 0 /\ thread1 \in Nat /\ thread1 + 2 <= ThreadWork
  BY LeaveWork DEF Break, CallsLzmaCode
<1>8. Continue(k) => size1 \in Nat /\ size1 + k = size /\ thread1 = ThreadWork
  <2> SUFFICES ASSUME Continue(k) PROVE size1 \in Nat /\ size1 + k = size /\ thread1 = ThreadWork
    OBVIOUS
  <2>1. inbuf' = [inbuf EXCEPT !.lo = inbuf.lo + k] /\ UNCHANGED <<mutex, workers, finished, pc>>
    BY DEF Continue, threads
  <2>2. inbuf'.lo = inbuf.lo + k /\ inbuf'.hi = inbuf.hi /\ inbuf.lo \in Nat /\ inbuf.hi \in Nat
    BY <2>1, ChunkFacts DEF NativeTypeOK, Chunk
  <2>3. size1 \in Nat /\ size1 + k = size
    BY <2>2 DEF Size
  <2>4. thread1 = ThreadWork
    BY <2>1 DEF ThreadWork, Coding
  <2> QED
    BY <2>3, <2>4
<1> SUFFICES work1 + 2 * Len(calls) < NativeWork + 2 * Len(calls)
  BY <1>3
<1> HIDE DEF work1, thread1, size, size1, outs, outs1, ins
<1> SUFFICES work1 \in Nat /\ work1 < NativeWork
  BY <1>1, <1>2
<1>9. CASE Break
  <2>1. size1 = 0 /\ thread1 \in Nat /\ thread1 + 2 <= ThreadWork
    BY <1>7, <1>9
  <2> QED
    BY <1>1, <1>2, <1>5, <1>6, <2>1
<1>10. CASE Continue(k) /\ ret = "OK"
  <2>1. size1 \in Nat /\ size1 + k = size /\ thread1 = ThreadWork
    BY <1>8, <1>10
  <2>2. coder1 + 3 * outs1 < CoderWork + 7 * k + 3 * outs
    <3>1. CASE k > 0
      BY <1>2, <1>5, <3>1
    <3>2. CASE out # {}
      BY <1>2, <1>4, <1>5, <3>2
    <3>3. CASE k = 0 /\ out = {} /\ coder1 < CoderWork
      BY <1>2, <1>5, <3>3
    <3> QED
      BY <1>10, <3>1, <3>2, <3>3
  <2> QED
    BY <1>1, <1>2, <1>5, <1>6, <2>1, <2>2
<1> QED
  BY <1>9, <1>10 DEF AfterCode, Continue

(* A chunk is fetched: its units wait no longer, and are in hand. *)
LEMMA FetchWork ==
  ASSUME NativeTypeOK, FetchChunk
  PROVE  /\ inbufs # <<>> /\ inbufs' = Tail(inbufs) /\ calls' = calls
         /\ Size(Head(inbufs)) \in Nat /\ NativeWork' \in Nat
         /\ NativeWork' + 1 = NativeWork + 7 * Size(Head(inbufs))
<1> DEFINE work1 == NativeWork'
           coder1 == CoderWork'
           thread1 == ThreadWork'
           size == Size(inbuf)
           size1 == Size(inbuf')
           head == Size(Head(inbufs))
           outs == Len(outbufs)
           ins == Len(inbufs)
           ins1 == Len(inbufs')
<1>1. /\ NativeWork \in Nat
      /\ NativeWork = 7 * size + CoderWork + 3 * outs + ins + ThreadWork
  BY WorkIsNatural DEF NativeWork
<1>2. CoderWork \in Nat /\ ThreadWork \in Nat /\ outs \in Nat /\ ins \in Nat
  BY WorkIsNatural
<1>3. inbufs # <<>> /\ inbufs' = Tail(inbufs) /\ calls' = calls
  BY DEF FetchChunk
<1>4. ins1 \in Nat /\ ins1 + 1 = ins /\ Head(inbufs) \in Chunk
  BY <1>3 DEF NativeTypeOK
<1>5. head \in Nat
  BY <1>4, ChunkFacts DEF NativeTypeOK
<1>6. size = 0 /\ size1 = head
  BY ChunkFacts DEF FetchChunk, Empty, Size, NativeTypeOK
<1>7. coder1 = CoderWork /\ outbufs' = outbufs
  BY DEF FetchChunk, CoderWork
<1>8. thread1 = ThreadWork
  BY DEF FetchChunk, threads, ThreadWork, Coding
<1>9. work1 = 7 * size1 + coder1 + 3 * outs + ins1 + thread1
  BY <1>7 DEF NativeWork
<1> SUFFICES head \in Nat /\ work1 \in Nat /\ work1 + 1 = NativeWork + 7 * head
  BY <1>3
<1> HIDE DEF work1, coder1, thread1, size, size1, head, outs, ins, ins1
<1> QED
  BY <1>1, <1>2, <1>4, <1>5, <1>6, <1>7, <1>8, <1>9

(* A step that leaves the queues and what is in hand alone. *)
LEMMA SameQueuesWork ==
  ASSUME NativeTypeOK, UNCHANGED <<inbuf, outbufs, inbufs, calls, coder>>,
         ThreadWork' \in Nat, ThreadWork' < ThreadWork
  PROVE  /\ NativeWork' + 2 * Len(calls') < NativeWork + 2 * Len(calls)
         /\ inbufs' = inbufs
<1> DEFINE work1 == NativeWork'
           thread1 == ThreadWork'
           size == Size(inbuf)
           outs == Len(outbufs)
           ins == Len(inbufs)
<1>1. NativeWork \in Nat /\ NativeWork = 7 * size + CoderWork + 3 * outs + ins + ThreadWork
  BY WorkIsNatural DEF NativeWork
<1>2. /\ CoderWork \in Nat /\ ThreadWork \in Nat /\ size \in Nat
      /\ outs \in Nat /\ ins \in Nat /\ Len(calls) \in Nat
  BY WorkIsNatural
<1>3. work1 = 7 * size + CoderWork + 3 * outs + ins + thread1
  BY DEF NativeWork, CoderWork
<1>4. thread1 \in Nat /\ thread1 < ThreadWork
  OBVIOUS
<1> SUFFICES work1 + 2 * Len(calls) < NativeWork + 2 * Len(calls)
  OBVIOUS
<1> HIDE DEF work1, thread1, size, outs, ins
<1>5. work1 \in Nat /\ work1 < NativeWork
  BY <1>1, <1>2, <1>3, <1>4
<1> QED
  BY <1>1, <1>2, <1>5

LEMMA CodingWork ==
  ASSUME NativeTypeOK, Locks, ~job.timeout, DoLZMACode, ~FetchChunk
  PROVE  /\ NativeWork' + 2 * Len(calls') < NativeWork + 2 * Len(calls)
         /\ inbufs' = inbufs
<1> DEFINE coder1 == CoderWork'
           size == Size(inbuf)
           held == Cardinality(coder.pending)
           stuck == IF coder.stuck THEN 0 ELSE 1
<1>1. CoderWork \in Nat /\ size \in Nat /\ held \in Nat /\ stuck \in Nat /\ CoderWork = 5 * held + stuck
  BY WorkIsNatural DEF CoderWork
<1>2. IsFiniteSet({}) /\ 0 = Cardinality({}) /\ 0 \in Nat /\ 0 <= size
  BY <1>1, FS_EmptySet
<1>3. CASE NoCoder
  <2>1. Size(inbuf') = 0 /\ ThreadWork' \in Nat /\ ThreadWork' + 2 <= ThreadWork
    BY <1>3, LeaveWork DEF NoCoder
  <2>2. UNCHANGED <<coder, inbufs, outbufs, calls>>
    BY <1>3 DEF NoCoder, coding
  <2> DEFINE work1 == NativeWork'
             thread1 == ThreadWork'
             outs == Len(outbufs)
             ins == Len(inbufs)
  <2>3. NativeWork \in Nat /\ NativeWork = 7 * size + CoderWork + 3 * outs + ins + ThreadWork
    BY WorkIsNatural DEF NativeWork
  <2>4. ThreadWork \in Nat /\ outs \in Nat /\ ins \in Nat /\ Len(calls) \in Nat
    BY WorkIsNatural
  <2>5. work1 = 7 * 0 + CoderWork + 3 * outs + ins + thread1
    BY <2>1, <2>2 DEF NativeWork, CoderWork
  <2>6. thread1 \in Nat /\ thread1 + 2 <= ThreadWork
    BY <2>1
  <2> SUFFICES work1 + 2 * Len(calls) < NativeWork + 2 * Len(calls)
    BY <2>2
  <2> HIDE DEF work1, thread1, outs, ins, size, held, stuck, coder1
  <2>7. work1 \in Nat /\ work1 < NativeWork
    BY <1>1, <2>3, <2>4, <2>5, <2>6
  <2> QED
    BY <2>3, <2>4, <2>7
<1>4. CASE CodeProgress
  <2>1. PICK k \in Takes(coder, inbuf) : \E out \in Emissions(Pool(k)), ret \in {"OK", "STREAM_END"} :
          /\ ret = "OK" => k > 0 \/ out # {}
          /\ coder'.pending = Pool(k) \ out /\ ~coder'.stuck
          /\ AfterCode(k, out, ret)
    BY <1>4 DEF CodeProgress
  <2>2. PICK out \in Emissions(Pool(k)), ret \in {"OK", "STREAM_END"} :
          /\ ret = "OK" => k > 0 \/ out # {}
          /\ coder'.pending = Pool(k) \ out /\ ~coder'.stuck
          /\ AfterCode(k, out, ret)
    BY <2>1
  <2>3. k \in 0 .. Size(inbuf) /\ out \in SUBSET Pool(k)
    BY DEF Takes, Emissions
  <2>4. k \in Nat /\ k <= size
    BY <1>1, <2>3
  <2> DEFINE given == Cardinality(out)
             kept == Cardinality(Pool(k) \ out)
  <2>5. IsFiniteSet(out) /\ given \in Nat /\ kept \in Nat /\ kept + given <= held + k
    BY <2>3, PoolSize
  <2>6. coder1 = 5 * kept + 1
    BY <2>2 DEF CoderWork
  <2> HIDE DEF coder1, given, kept, held, stuck, size
  <2>7. coder1 \in Nat /\ coder1 + 5 * given <= CoderWork + 5 * k + 1
    BY <1>1, <2>4, <2>5, <2>6
  <2>8. CallsLzmaCode
    BY <1>4 DEF CodeProgress
  <2>9. k <= Size(inbuf) /\ given = Cardinality(out) /\ CoderWork' = coder1
    BY <2>4 DEF size, given, coder1
  <2>10. (ret = "OK" => k > 0 \/ out # {} \/ coder1 < CoderWork) /\ AfterCode(k, out, ret)
    BY <2>2
  <2> QED
    BY <2>4, <2>5, <2>7, <2>8, <2>9, <2>10, AfterCodeWork
<1>5. CASE CodeStuck
  <2>1. coder'.pending = coder.pending /\ coder'.stuck /\ CallsLzmaCode
    BY <1>5 DEF CodeStuck, NativeTypeOK, Coder
  <2>2. PICK ret : AfterCode(0, {}, ret) /\ (ret = "OK" => ~coder.stuck)
    BY <1>5 DEF CodeStuck
  <2>3. coder1 = 5 * held
    <3>1. coder1 = 5 * held + 0
      BY <2>1 DEF CoderWork
    <3> HIDE DEF coder1, held
    <3> QED
      BY <1>1, <3>1
  <2>4. ~coder.stuck => stuck = 1
    OBVIOUS
  <2> HIDE DEF coder1, held, stuck, size
  <2>5. /\ coder1 \in Nat /\ coder1 + 5 * 0 <= CoderWork + 5 * 0 + 1
        /\ ret = "OK" => coder1 < CoderWork
    BY <1>1, <2>2, <2>3, <2>4
  <2>6. 0 <= Size(inbuf) /\ CoderWork' = coder1
    BY <1>2 DEF coder1, size
  <2> QED
    BY <1>2, <2>1, <2>2, <2>5, <2>6, AfterCodeWork
<1>6. CASE CodeFails \/ CodeEnded
  <2>1. /\ coder'.pending = coder.pending /\ coder'.stuck = coder.stuck /\ CallsLzmaCode
    BY <1>6 DEF CodeFails, CodeEnded, NativeTypeOK, Coder
  <2>2. PICK ret : ret # "OK" /\ AfterCode(0, {}, ret)
    BY <1>6 DEF CodeFails, CodeEnded
  <2>3. coder1 = CoderWork
    BY <2>1 DEF CoderWork
  <2> HIDE DEF coder1, size
  <2>4. coder1 \in Nat /\ coder1 + 5 * 0 <= CoderWork + 5 * 0 + 1
    BY <1>1, <2>3
  <2>5. 0 <= Size(inbuf) /\ CoderWork' = coder1
    BY <1>2 DEF coder1, size
  <2> QED
    BY <1>2, <2>1, <2>2, <2>4, <2>5, AfterCodeWork
<1> QED
  BY <1>3, <1>4, <1>5, <1>6 DEF DoLZMACode

LEMMA WorkersWork ==
  ASSUME NativeTypeOK, Locks, WorkerStarts \/ WorkerThrows \/ WorkerOnOK
  PROVE  /\ NativeWork' + 2 * Len(calls') < NativeWork + 2 * Len(calls)
         /\ inbufs' = inbufs
<1> DEFINE thread1 == ThreadWork'
           place == HandlerWork(pc)
           place1 == HandlerWork(pc')
           queued1 == workers'
           done1 == finished'
<1>1. UNCHANGED <<inbuf, outbufs, inbufs, calls, coder>>
  BY DEF WorkerStarts, WorkerThrows, WorkerOnOK, coding, locals
<1>2. /\ workers \in Nat /\ finished \in Nat /\ queued1 \in Nat /\ done1 \in Nat
      /\ pc' \in {"idle", "coding", "outbufs", "chunks", "reset", "aborted"}
  BY DEF WorkerStarts, WorkerThrows, WorkerOnOK, NativeTypeOK
<1>3. /\ ThreadWork \in Nat /\ place \in Nat
      /\ Coding => ThreadWork = 12 * workers + 9 * finished + 11 + place
      /\ ~Coding => ThreadWork = 12 * workers + 9 * finished + place
  BY ThreadWorkIs
<1>4. /\ thread1 \in Nat /\ place1 \in Nat
      /\ Coding' => thread1 = 12 * queued1 + 9 * done1 + 11 + place1
      /\ ~Coding' => thread1 = 12 * queued1 + 9 * done1 + place1
  BY <1>2, ThreadWorkNext
<1>5. pc' = pc => place1 = place
  OBVIOUS
<1>6. pc = "idle" /\ pc' = "outbufs" => place = 0 /\ place1 = 8
  BY HandlerWorkIs
<1>7. ThreadWork \in Nat /\ place \in Nat /\ thread1 \in Nat /\ place1 \in Nat
  BY <1>3, <1>4
<1>8. thread1 < ThreadWork
  <2> HIDE DEF thread1, place, place1, queued1, done1
  <2>1. CASE WorkerStarts
    <3>1. ~Coding /\ Coding' /\ pc' = pc /\ done1 = finished /\ queued1 + 1 = workers
      BY <1>2, <2>1 DEF WorkerStarts, Coding, queued1, done1, Locks
    <3>2. ThreadWork = 12 * workers + 9 * finished + place
      BY <1>3, <3>1
    <3>3. thread1 = 12 * queued1 + 9 * finished + 11 + place
      BY <1>4, <1>5, <3>1
    <3> QED
      BY <1>2, <1>7, <3>1, <3>2, <3>3
  <2>2. CASE WorkerThrows
    <3>1. (Coding' <=> Coding) /\ pc' = pc /\ done1 = finished /\ queued1 + 1 = workers
      BY <1>2, <2>2 DEF WorkerThrows, Coding, queued1, done1
    <3>2. CASE Coding
      <4>1. ThreadWork = 12 * workers + 9 * finished + 11 + place
        BY <1>3, <3>2
      <4>2. thread1 = 12 * queued1 + 9 * finished + 11 + place
        BY <1>4, <1>5, <3>1, <3>2
      <4> QED
        BY <1>2, <1>7, <3>1, <4>1, <4>2
    <3>3. CASE ~Coding
      <4>1. ThreadWork = 12 * workers + 9 * finished + place
        BY <1>3, <3>3
      <4>2. thread1 = 12 * queued1 + 9 * finished + place
        BY <1>4, <1>5, <3>1, <3>3
      <4> QED
        BY <1>2, <1>7, <3>1, <4>1, <4>2
    <3> QED
      BY <3>2, <3>3
  <2>3. CASE WorkerOnOK
    <3>1. /\ (Coding' <=> Coding) /\ pc = "idle" /\ pc' = "outbufs"
          /\ done1 + 1 = finished /\ queued1 = workers
      BY <1>2, <2>3 DEF WorkerOnOK, Coding, queued1, done1
    <3>2. place = 0 /\ place1 = 8
      BY <1>6, <3>1
    <3>3. CASE Coding
      <4>1. ThreadWork = 12 * workers + 9 * finished + 11 + place
        BY <1>3, <3>3
      <4>2. thread1 = 12 * workers + 9 * done1 + 11 + place1
        BY <1>4, <3>1, <3>3
      <4> QED
        BY <1>2, <1>7, <3>1, <3>2, <4>1, <4>2
    <3>4. CASE ~Coding
      <4>1. ThreadWork = 12 * workers + 9 * finished + place
        BY <1>3, <3>4
      <4>2. thread1 = 12 * workers + 9 * done1 + place1
        BY <1>4, <3>1, <3>4
      <4> QED
        BY <1>2, <1>7, <3>1, <3>2, <4>1, <4>2
    <3> QED
      BY <3>3, <3>4
  <2> QED
    BY <2>1, <2>2, <2>3
<1>9. ThreadWork' \in Nat /\ ThreadWork' < ThreadWork
  BY <1>4, <1>8
<1> QED
  BY <1>1, <1>9, SameQueuesWork

LEMMA HandlersWork ==
  ASSUME NativeTypeOK, Locks, InvokeBufferHandlers
  PROVE  /\ NativeWork' + 2 * Len(calls') < NativeWork + 2 * Len(calls)
         /\ inbufs' = inbufs
<1> DEFINE work1 == NativeWork'
           thread1 == ThreadWork'
           coder1 == CoderWork'
           place == HandlerWork(pc)
           place1 == HandlerWork(pc')
           size == Size(inbuf)
           outs == Len(outbufs)
           outs1 == Len(outbufs')
           ins == Len(inbufs)
           told == Len(calls)
           told1 == Len(calls')
           held == Cardinality(coder.pending)
           stuck == IF coder.stuck THEN 0 ELSE 1
<1>1. NativeWork \in Nat /\ NativeWork = 7 * size + CoderWork + 3 * outs + ins + ThreadWork
  BY WorkIsNatural DEF NativeWork
<1>2. /\ CoderWork \in Nat /\ ThreadWork \in Nat /\ size \in Nat
      /\ outs \in Nat /\ ins \in Nat /\ told \in Nat /\ held \in Nat /\ stuck \in Nat
      /\ CoderWork = 5 * held + stuck
  BY WorkIsNatural DEF CoderWork
<1>3. UNCHANGED <<inbufs, inbuf, workers, finished>> /\ workers \in Nat /\ finished \in Nat
  BY DEF InvokeBufferHandlers, HandOutput, HandResult, HandChunks, HandNothing, NativeTypeOK,
     HandChunksBeforeReset, HandReset, HandlersReturn, coding, locals, threads
<1>4. /\ pc \in {"outbufs", "chunks", "reset"} /\ pc' \in {"outbufs", "chunks", "reset", "idle"}
      /\ mutex \in {"main", "free"} /\ mutex' \in {"main", "free"}
  BY DEF InvokeBufferHandlers, HandOutput, HandResult, HandChunks, HandNothing,
     HandChunksBeforeReset, HandReset, HandlersReturn, Locked, threads
<1>5. ~Coding /\ ~Coding'
  BY <1>4 DEF Coding
<1>6. place \in Nat /\ ThreadWork = 12 * workers + 9 * finished + place
  BY <1>5, ThreadWorkIs
<1>7. place1 \in Nat /\ thread1 \in Nat /\ thread1 = 12 * workers + 9 * finished + place1
  <2>1. /\ workers' \in Nat /\ finished' \in Nat /\ workers' = workers /\ finished' = finished
        /\ pc' \in {"idle", "coding", "outbufs", "chunks", "reset", "aborted"}
    BY <1>3, <1>4
  <2> QED
    BY <1>5, <2>1, ThreadWorkNext
<1>8. work1 = 7 * size + coder1 + 3 * outs1 + ins + thread1
  BY <1>3 DEF NativeWork
<1>9. (coder' = coder => coder1 = CoderWork) /\ (coder' = FreshCoder => coder1 = 1)
  <2>1. coder' = coder => coder1 = CoderWork
    BY DEF CoderWork
  <2>2. ASSUME coder' = FreshCoder PROVE coder1 = 1
    <3>1. coder'.pending = {} /\ ~coder'.stuck /\ Cardinality({}) = 0
      BY <2>2, FS_EmptySet DEF FreshCoder
    <3> QED
      BY <3>1 DEF CoderWork
  <2> QED
    BY <2>1, <2>2
<1>10. inbufs' = inbufs
  BY <1>3
<1>11. /\ outbufs' = outbufs => outs1 = outs
       /\ calls' = calls => told1 = told
       /\ pc' = pc => place1 = place
  OBVIOUS
<1>12. /\ pc = "outbufs" => place = 8
       /\ pc = "chunks" => place = 5
       /\ pc = "reset" => place = 2
       /\ pc' = "chunks" => place1 = 5
       /\ pc' = "reset" => place1 = 2
       /\ pc' = "idle" => place1 = 0
  BY HandlerWorkIs
<1>13. HandOutput => outs1 + 1 = outs /\ outs1 \in Nat /\ told1 = told + 1 /\ coder' = coder /\ pc' = pc
  BY DEF HandOutput, NativeTypeOK, threads
<1>14. HandResult => told1 = told + 1 /\ coder' = coder /\ outbufs' = outbufs
  BY DEF HandResult, NativeTypeOK, coding
<1>15. HandChunks \/ HandChunksBeforeReset =>
         told1 = told + 1 /\ coder' = coder /\ outbufs' = outbufs
  <2> SUFFICES ASSUME HandChunks \/ HandChunksBeforeReset
               PROVE  told1 = told + 1 /\ coder' = coder /\ outbufs' = outbufs
    OBVIOUS
  <2>1. calls' = Append(calls, NumberCall(processedChunks)) /\ coder' = coder /\ outbufs' = outbufs
    BY DEF HandChunks, HandChunksBeforeReset
  <2> QED
    BY <2>1 DEF NativeTypeOK
<1> SUFFICES work1 + 2 * told1 < NativeWork + 2 * told
  BY <1>10
<1> HIDE DEF work1, thread1, coder1, place, place1, size, outs, outs1, ins, told, told1, held, stuck
<1>16. CASE HandOutput
  <2>1. coder1 = CoderWork /\ place1 = place
    BY <1>9, <1>11, <1>13, <1>16
  <2>2. outs1 + 1 = outs /\ outs1 \in Nat /\ told1 = told + 1
    BY <1>13, <1>16
  <2> QED
    BY <1>1, <1>2, <1>3, <1>6, <1>7, <1>8, <2>1, <2>2
<1>17. CASE HandResult
  <2>1. coder1 = CoderWork /\ outs1 = outs /\ told1 = told + 1 /\ place = 8 /\ place1 = 5
    BY <1>9, <1>11, <1>12, <1>14, <1>17 DEF HandResult
  <2> QED
    BY <1>1, <1>2, <1>3, <1>6, <1>7, <1>8, <2>1
<1>18. CASE HandChunks
  <2>1. coder1 = CoderWork /\ outs1 = outs /\ told1 = told + 1 /\ place = 8 /\ place1 = 0
    BY <1>9, <1>11, <1>12, <1>15, <1>18 DEF HandChunks, HandlersReturn
  <2> QED
    BY <1>1, <1>2, <1>3, <1>6, <1>7, <1>8, <2>1
<1>19. CASE HandChunksBeforeReset
  <2>1. coder1 = CoderWork /\ outs1 = outs /\ told1 = told + 1 /\ place = 5 /\ place1 = 2
    BY <1>9, <1>11, <1>12, <1>15, <1>19 DEF HandChunksBeforeReset
  <2> QED
    BY <1>1, <1>2, <1>3, <1>6, <1>7, <1>8, <2>1
<1>20. CASE HandNothing
  <2>1. coder1 = CoderWork /\ outs1 = outs /\ told1 = told /\ place = 8 /\ place1 = 0
    BY <1>9, <1>11, <1>12, <1>20 DEF HandNothing, HandlersReturn, coding
  <2> QED
    BY <1>1, <1>2, <1>3, <1>6, <1>7, <1>8, <2>1
<1>21. CASE HandReset
  <2>1. coder1 = 1 /\ outs1 = outs /\ told1 = told /\ place \in {2, 5} /\ place1 = 0
    BY <1>9, <1>11, <1>12, <1>21 DEF HandReset, resetUnderlying, HandlersReturn
  <2> QED
    BY <1>1, <1>2, <1>3, <1>6, <1>7, <1>8, <2>1
<1> QED
  BY <1>16, <1>17, <1>18, <1>19, <1>20, <1>21 DEF InvokeBufferHandlers

(* Every step of the native object that fetches no chunk uses up work. *)
LEMMA NativeStepWork ==
  ASSUME NativeTypeOK, Locks, ~job.timeout, NativeStep, ~FetchChunk
  PROVE  /\ NativeWork' + 2 * Len(calls') < NativeWork + 2 * Len(calls)
         /\ inbufs' = inbufs
BY CodingWork, WorkersWork, HandlersWork DEF NativeStep

=============================================================================
