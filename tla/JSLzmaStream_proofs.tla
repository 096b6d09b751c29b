------------------------ MODULE JSLzmaStream_proofs ------------------------
(***************************************************************************)
(* Theorems about module JSLzmaStream.                                     *)
(*                                                                         *)
(* A chunk that is given to code() is a token that moves from inbufs to    *)
(* the coding loop, to processedChunks and to a bufferHandler call, and    *)
(* takes the thread that works on it along: Token has one case per place   *)
(* and says where the worker and the main thread are meanwhile.            *)
(***************************************************************************)
EXTENDS JSLzmaStream, LZMAStream_proofs, FiniteSetTheorems, WellFoundedInduction, TLAPS

-----------------------------------------------------------------------------
(* Chunks *)

LEMMA SmallestFacts ==
  ASSUME NEW S \in SUBSET Nat, S # {}
  PROVE  Smallest(S) \in S /\ \A y \in S : Smallest(S) <= y
<1> DEFINE R == {pair \in Nat \X Nat : pair[1] < pair[2]}
<1>1. IsWellFoundedOn(R, Nat)
  BY NatLessThanWellFounded DEF OpToRel
<1> HIDE DEF R
<1>2. PICK x \in S : \A y \in S : ~ (<<y, x>> \in R)
  BY <1>1, WFMin
<1>3. \A y \in S : x <= y
  <2> SUFFICES ASSUME NEW y \in S, ~ (x <= y) PROVE FALSE
    OBVIOUS
  <2>1. <<y, x>> \in Nat \X Nat /\ <<y, x>>[1] < <<y, x>>[2]
    OBVIOUS
  <2>2. <<y, x>> \in R
    BY <2>1, Zenon DEF R
  <2> QED
    BY <1>2, <2>2
<1> QED
  BY <1>3 DEF Smallest

(* A chunk and what is cut off it are chunks. *)
LEMMA PieceFacts ==
  ASSUME job \in Jobs, NEW chunk \in Chunk
  PROVE  FirstPiece(chunk) \in Chunk /\ RestOf(chunk) \in Chunk
<1>1. /\ chunk.lo \in Nat /\ chunk.hi \in Nat /\ chunk.lo <= chunk.hi
      /\ chunk.hi <= Len(File) /\ Len(File) \in Nat
  BY ChunkFacts, FileFacts
<1>2. CASE IndexOfYZ(chunk) = {}
  <2>1. FirstPiece(chunk) = chunk
    BY <1>2 DEF FirstPiece
  <2> QED
    BY <1>1, <2>1, MakeChunk DEF RestOf
<1>3. CASE IndexOfYZ(chunk) # {}
  <2> DEFINE m == Smallest(IndexOfYZ(chunk))
  <2>1. IndexOfYZ(chunk) \in SUBSET Nat
    BY <1>1 DEF IndexOfYZ
  <2>2. m \in IndexOfYZ(chunk)
    BY <1>3, <2>1, SmallestFacts
  <2>3. m \in (chunk.lo + 1) .. (chunk.hi - 1)
    BY <2>2 DEF IndexOfYZ
  <2> HIDE DEF m
  <2>4. FirstPiece(chunk) = [chunk EXCEPT !.hi = m + 1]
    BY <1>3 DEF FirstPiece, m
  <2>5. chunk = [lo |-> chunk.lo, hi |-> chunk.hi]
    BY DEF Chunk
  <2>6. FirstPiece(chunk) = [lo |-> chunk.lo, hi |-> m + 1]
    BY <2>4, <2>5
  <2>7. m + 1 \in Nat /\ chunk.lo <= m + 1 /\ m + 1 <= chunk.hi /\ m + 1 <= Len(File)
    BY <1>1, <2>3
  <2>8. FirstPiece(chunk) \in Chunk
    BY <1>1, <2>6, <2>7, MakeChunk
  <2>9. RestOf(chunk) \in Chunk
    BY <1>1, <2>6, <2>7, MakeChunk DEF RestOf
  <2> QED
    BY <2>8, <2>9
<1> QED
  BY <1>2, <1>3

LEMMA SkipFacts ==
  ASSUME job \in Jobs, NEW chunk \in Chunk
  PROVE  SkipLeadingZeroes(chunk) \in Chunk
<1> DEFINE S == {l \in chunk.lo .. chunk.hi : l = chunk.hi \/ File[l + 1] # "zero"}
           m == Smallest(S)
<1>1. /\ chunk.lo \in Nat /\ chunk.hi \in Nat /\ chunk.lo <= chunk.hi
      /\ chunk.hi <= Len(File) /\ Len(File) \in Nat
  BY ChunkFacts, FileFacts
<1>2. S \in SUBSET Nat /\ chunk.hi \in S
  BY <1>1
<1>3. m \in S
  BY <1>2, SmallestFacts
<1>4. m \in chunk.lo .. chunk.hi
  BY <1>3
<1>5. SkipLeadingZeroes(chunk) = [chunk EXCEPT !.lo = m]
  BY DEF SkipLeadingZeroes
<1> HIDE DEF m
<1>6. chunk = [lo |-> chunk.lo, hi |-> chunk.hi]
  BY DEF Chunk
<1>7. SkipLeadingZeroes(chunk) = [lo |-> m, hi |-> chunk.hi]
  BY <1>5, <1>6
<1> QED
  BY <1>1, <1>4, <1>7, MakeChunk

LEMMA UnchangedTypes ==
  ASSUME NativeTypeOK, nativeUnchanged, calls' \in Seq(Call)
  PROVE  NativeTypeOK' /\ job' = job
<1>1. /\ UNCHANGED <<internal, coder, lastCodeResult, inbufs, outbufs, processedChunks>>
      /\ UNCHANGED <<shouldFinish, bufsize, job, inbuf, readChunks>>
      /\ UNCHANGED <<mutex, workers, finished, pc>>
  BY DEF nativeUnchanged, coding, settings, locals, threads
<1>2. Chunk' = Chunk /\ Units' = Units /\ Coder' = Coder /\ Call' = Call
  BY <1>1, SameJob
<1> QED
  BY <1>1, <1>2 DEF NativeTypeOK

(* What _transform leaves behind. *)
LEMMA TransformTypes ==
  ASSUME TypeOK, NEW chunk \in Chunk, NEW chunks \in Seq(Callback),
         Transform(chunk, chunks), calls' \in Seq(Call)
  PROVE  /\ NativeTypeOK' /\ job' = job
         /\ writing' \in BOOLEAN /\ isFinished' \in BOOLEAN
         /\ chunkCallbacks' \in Seq(Callback)
<1> DEFINE piece == FirstPiece(chunk)
           data == IF isFinished THEN SkipLeadingZeroes(piece) ELSE piece
<1>1. data \in Chunk /\ RestOf(chunk) \in Chunk
  BY PieceFacts, SkipFacts DEF TypeOK, NativeTypeOK
<1>2. WriteCallback(RestOf(chunk)) \in Callback
  BY <1>1 DEF WriteCallback, Callback
<1>3. synchronous \in BOOLEAN /\ (~synchronous) \in BOOLEAN
  BY DEF TypeOK
<1> HIDE DEF data
<1>4. CASE /\ writing' = TRUE \/ writing' = FALSE
           /\ chunkCallbacks' = chunks
           /\ UNCHANGED isFinished
           /\ nativeUnchanged
  BY <1>4, UnchangedTypes DEF TypeOK
<1>5. CASE /\ writing' = TRUE
           /\ isFinished' = FALSE
           /\ chunkCallbacks' = Append(chunks, WriteCallback(RestOf(chunk)))
           /\ Code(data, ~synchronous)
  <2>1. NativeTypeOK'
    BY <1>1, <1>3, <1>5, CodeTypes DEF TypeOK
  <2>2. writing' \in BOOLEAN /\ isFinished' \in BOOLEAN
    BY <1>5, Zenon
  <2>3. chunkCallbacks' \in Seq(Callback)
    BY <1>2, <1>5
  <2>4. job' = job
    BY <1>5 DEF Code
  <2> QED
    BY <2>1, <2>2, <2>3, <2>4, Zenon
<1> QED
  BY <1>4, <1>5 DEF Transform, data

LEMMA CleanupTypes ==
  ASSUME TypeOK, cleanup, calls' \in Seq(Call)
  PROVE  /\ NativeTypeOK' /\ job' = job /\ nativeStream' = FALSE
         /\ countedCleanup' \in BOOLEAN /\ curAsyncStreamsCount' \in Int
<1>1. countedCleanup' \in BOOLEAN /\ curAsyncStreamsCount' \in Int
  <2>1. countDown
    BY DEF cleanup
  <2>2. countedCleanup' = TRUE \/ countedCleanup' = countedCleanup
    BY <2>1 DEF countDown, countVars
  <2>3. curAsyncStreamsCount' = curAsyncStreamsCount \/ curAsyncStreamsCount' = curAsyncStreamsCount - 1
    BY <2>1 DEF countDown, countVars
  <2>4. countedCleanup' \in BOOLEAN
    BY <2>2, Zenon DEF TypeOK
  <2>5. curAsyncStreamsCount' \in Int
    BY <2>3 DEF TypeOK
  <2> QED
    BY <2>4, <2>5
<1>2. CASE ResetUnderlying(FALSE)
  BY <1>1, <1>2, ResetTypes DEF cleanup, TypeOK, ResetUnderlying, settings
<1>3. CASE nativeUnchanged
  BY <1>1, <1>3, UnchangedTypes DEF cleanup, TypeOK
<1> QED
  BY <1>2, <1>3 DEF cleanup

LEMMA SameUnits ==
  ASSUME job' = job
  PROVE  Callback' = Callback /\ Units' = Units /\ File' = File
BY DEF Callback, Units, File, Chunk

(* The immediates consume a call. *)
LEMMA ImmediateTypes ==
  ASSUME TypeOK, NEW kind, Immediate(kind)
  PROVE  calls' \in Seq(Call) /\ Head(calls) \in Call
BY DEF TypeOK, NativeTypeOK, Immediate

LEMMA StreamTypes ==
  ASSUME TypeOK, StartWrite \/ Flush \/ Immediates
  PROVE  TypeOK'
<1>1. NativeTypeOK /\ job \in Jobs /\ calls \in Seq(Call)
  BY DEF TypeOK, NativeTypeOK
<1>2. CASE StartWrite
  <2>1. [lo |-> taken, hi |-> written] \in Chunk
    BY <1>1, <1>2, MakeChunk, FileFacts DEF StartWrite, TypeOK
  <2>2. Transform([lo |-> taken, hi |-> written], chunkCallbacks) /\ calls' = calls
    BY <1>2 DEF StartWrite
  <2>3. /\ NativeTypeOK' /\ job' = job
        /\ writing' \in BOOLEAN /\ isFinished' \in BOOLEAN
        /\ chunkCallbacks' \in Seq(Callback)
    BY <1>1, <2>1, <2>2, TransformTypes DEF TypeOK
  <2>4. taken' \in 0 .. Len(File) /\ written' \in 0 .. Len(File)
    BY <1>2 DEF StartWrite, TypeOK, callerVars
  <2> QED
    BY <1>2, <2>3, <2>4, SameUnits DEF StartWrite, TypeOK, callerVars, outputVars, countVars
<1>3. CASE Flush
  <2>1. calls' = calls /\ flushing' \in BOOLEAN /\ writingLastChunk' \in BOOLEAN
    BY <1>3, Zenon DEF Flush
  <2>2. /\ NativeTypeOK' /\ job' = job
        /\ chunkCallbacks' \in Seq(Callback)
        /\ flushed' \in BOOLEAN /\ eof' \in BOOLEAN /\ nativeStream' \in BOOLEAN
        /\ countedCleanup' \in BOOLEAN /\ curAsyncStreamsCount' \in Int
    <3>1. CASE /\ cleanup
               /\ flushed' = TRUE /\ eof' = TRUE
               /\ UNCHANGED chunkCallbacks
      <4>1. flushed' \in BOOLEAN /\ eof' \in BOOLEAN
        BY <3>1, Zenon
      <4> QED
        BY <1>1, <2>1, <3>1, <4>1, CleanupTypes DEF TypeOK
    <3>2. CASE /\ nativeUnchanged
               /\ UNCHANGED <<flushed, eof, chunkCallbacks, nativeStream, countVars>>
      BY <1>1, <2>1, <3>2, UnchangedTypes DEF TypeOK, countVars
    <3>3. CASE /\ chunkCallbacks' = Append(chunkCallbacks, FlushCallback)
               /\ Code(NoInput, ~synchronous)
               /\ UNCHANGED <<flushed, eof, nativeStream, countVars>>
      <4>1. FlushCallback \in Callback /\ NoInput \in Chunk
        BY <1>1, NoInputChunk DEF FlushCallback, Callback
      <4>2. (~synchronous) \in BOOLEAN
        OBVIOUS
      <4>3. NativeTypeOK'
        BY <1>1, <2>1, <3>3, <4>1, <4>2, CodeTypes
      <4> QED
        BY <3>3, <4>1, <4>3 DEF TypeOK, countVars, Code
    <3> QED
      BY <1>3, <3>1, <3>2, <3>3 DEF Flush
  <2> QED
    BY <1>3, <2>1, <2>2, SameUnits DEF Flush, TypeOK, callerVars
<1>4. CASE OnError
  <2>1. calls' \in Seq(Call)
    BY <1>4, ImmediateTypes DEF OnError
  <2>2. /\ NativeTypeOK' /\ job' = job /\ nativeStream' \in BOOLEAN
        /\ countedCleanup' \in BOOLEAN /\ curAsyncStreamsCount' \in Int
    <3>1. CASE cleanup
      BY <2>1, <3>1, CleanupTypes
    <3>2. CASE nativeUnchanged /\ UNCHANGED <<nativeStream, countVars>>
      BY <1>1, <2>1, <3>2, UnchangedTypes DEF TypeOK, countVars
    <3> QED
      BY <1>4, <3>1, <3>2 DEF OnError
  <2>3. eof' \in BOOLEAN
    BY <1>4, Zenon DEF OnError
  <2>4. errors' \in Nat
    BY <1>4 DEF OnError, TypeOK
  <2> QED
    BY <1>4, <2>2, <2>3, <2>4, SameUnits DEF OnError, TypeOK, callerVars, transformVars
<1>5. CASE OnBuffer
  <2>1. calls' \in Seq(Call) /\ Head(calls) \in Call
    BY <1>5, ImmediateTypes DEF OnBuffer
  <2>2. NativeTypeOK' /\ job' = job
    BY <1>1, <1>5, <2>1, UnchangedTypes DEF OnBuffer
  <2>3. pushed' \in SUBSET Units
    BY <1>5, <2>1 DEF OnBuffer, TypeOK, Call
  <2> QED
    BY <1>5, <2>2, <2>3, SameUnits DEF OnBuffer, TypeOK, callerVars, transformVars, countVars, streamVars
<1>6. CASE OnStreamEnd
  <2>1. calls' \in Seq(Call)
    BY <1>6, ImmediateTypes DEF OnStreamEnd
  <2>2. NativeTypeOK' /\ job' = job
    <3>1. CASE restart
      BY <1>1, <2>1, <3>1, ResetTypes DEF restart, ResetUnderlying, settings
    <3>2. CASE nativeUnchanged
      BY <1>1, <2>1, <3>2, UnchangedTypes
    <3> QED
      BY <1>6, <3>1, <3>2 DEF OnStreamEnd
  <2>3. eof' \in BOOLEAN /\ isFinished' \in BOOLEAN
    BY <1>6, Zenon DEF OnStreamEnd, TypeOK
  <2> QED
    BY <1>6, <2>2, <2>3, SameUnits DEF OnStreamEnd, TypeOK, callerVars, transformVars, countVars
<1>7. CASE OnNumber
  <2> DEFINE left == SubSeq(chunkCallbacks, Head(calls).n + 1, Len(chunkCallbacks))
             callback == Head(chunkCallbacks)
  <2>1. calls' \in Seq(Call) /\ Head(calls) \in Call
    BY <1>7, ImmediateTypes DEF OnNumber
  <2>2. Head(calls).n \in 1 .. Len(chunkCallbacks) /\ chunkCallbacks \in Seq(Callback)
    BY <1>7 DEF OnNumber, TypeOK
  <2>3. callback \in Callback /\ left \in Seq(Callback)
    BY <2>2
  <2>4. callback.rest \in Chunk
    BY <2>3 DEF Callback
  <2> HIDE DEF left, callback
  <2>5. /\ NativeTypeOK' /\ job' = job
        /\ writing' \in BOOLEAN /\ isFinished' \in BOOLEAN
        /\ chunkCallbacks' \in Seq(Callback)
        /\ flushed' \in BOOLEAN /\ eof' \in BOOLEAN /\ nativeStream' \in BOOLEAN
        /\ countedCleanup' \in BOOLEAN /\ curAsyncStreamsCount' \in Int
    <3>1. CASE /\ Transform(callback.rest, left)
               /\ UNCHANGED <<flushed, eof, nativeStream, countVars>>
      BY <2>1, <2>3, <2>4, <3>1, TransformTypes DEF TypeOK, countVars
    <3>2. CASE /\ writing' = FALSE
               /\ chunkCallbacks' = left
               /\ nativeUnchanged
               /\ UNCHANGED <<flushed, eof, isFinished, nativeStream, countVars>>
      <4>1. writing' \in BOOLEAN
        BY <3>2, Zenon
      <4> QED
        BY <1>1, <2>1, <2>3, <3>2, <4>1, UnchangedTypes DEF TypeOK, countVars
    <3>3. CASE /\ cleanup
               /\ chunkCallbacks' = left
               /\ flushed' = TRUE /\ eof' = TRUE
               /\ UNCHANGED <<writing, isFinished>>
      <4>1. flushed' \in BOOLEAN /\ eof' \in BOOLEAN
        BY <3>3, Zenon
      <4> QED
        BY <2>1, <2>3, <3>3, <4>1, CleanupTypes DEF TypeOK
    <3> QED
      BY <1>7, <3>1, <3>2, <3>3 DEF OnNumber, left, callback
  <2> QED
    BY <1>7, <2>5, SameUnits DEF OnNumber, TypeOK, callerVars
<1> QED
  BY <1>2, <1>3, <1>4, <1>5, <1>6, <1>7 DEF Immediates

LEMMA CallerTypes ==
  ASSUME TypeOK, Write \/ EndInput \/ AssignBufsize \/ ReadBufsize
  PROVE  TypeOK'
<1>1. NativeTypeOK /\ job \in Jobs /\ calls \in Seq(Call)
  BY DEF TypeOK, NativeTypeOK
<1>2. CASE Write
  <2>1. nativeUnchanged /\ calls' = calls /\ job' = job
    BY <1>2 DEF Write, nativeVars, nativeUnchanged, settings
  <2>2. written' \in 0 .. Len(File)
    BY <1>1, <1>2, JobsAssumption DEF Write, IsJob, File
  <2>3. NativeTypeOK'
    BY <1>1, <2>1, UnchangedTypes
  <2> QED
    BY <1>2, <2>1, <2>2, <2>3, SameUnits
    DEF Write, TypeOK, transformVars, outputVars, countVars, streamVars
<1>3. CASE EndInput
  <2>1. nativeUnchanged /\ calls' = calls /\ job' = job
    BY <1>3 DEF EndInput, nativeVars, nativeUnchanged, settings
  <2>2. endCalled' \in BOOLEAN
    BY <1>3, Zenon DEF EndInput
  <2>3. NativeTypeOK'
    BY <1>1, <2>1, UnchangedTypes
  <2> QED
    BY <1>3, <2>1, <2>2, <2>3, SameUnits
    DEF EndInput, TypeOK, transformVars, outputVars, countVars, streamVars
<1>4. CASE AssignBufsize \/ ReadBufsize
  <2>1. PICK n \in Nat : SetBufsize(n)
    BY <1>4, StreamAssumption, SizeAssumption DEF AssignBufsize, ReadBufsize
  <2>2. /\ calls' = calls /\ job' = job
        /\ UNCHANGED <<callerVars, transformVars, outputVars, countVars, streamVars>>
    BY <1>4 DEF AssignBufsize, ReadBufsize, SetBufsize
  <2>3. NativeTypeOK'
    BY <1>1, <2>1, <2>2, SetBufsizeTypes
  <2> QED
    BY <2>2, <2>3, SameUnits DEF TypeOK, callerVars, transformVars, outputVars, countVars, streamVars
<1> QED
  BY <1>2, <1>3, <1>4

LEMMA InitTypes == Init => TypeOK
<1> SUFFICES ASSUME Init PROVE TypeOK
  OBVIOUS
<1>1. job \in Jobs /\ NoInput \in Chunk /\ Len(File) \in Nat
  BY NoInputChunk, FileFacts DEF Init, NativeInit
<1>2. NativeTypeOK
  <2>1. internal \in BOOLEAN /\ shouldFinish \in BOOLEAN
    BY DEF Init, NativeInit
  <2>2. bufsize \in Nat
    BY SizeAssumption DEF Init, NativeInit
  <2>3. inbufs \in Seq(Chunk) /\ outbufs \in Seq(SUBSET Units) /\ calls \in Seq(Call)
    BY DEF Init, NativeInit
  <2> QED
    BY <1>1, <2>1, <2>2, <2>3, FreshCoderType DEF Init, NativeInit, NativeTypeOK, CodeResults
<1>3. /\ synchronous \in BOOLEAN /\ endCalled \in BOOLEAN /\ writing \in BOOLEAN
      /\ flushing \in BOOLEAN /\ flushed \in BOOLEAN
      /\ isFinished \in BOOLEAN /\ writingLastChunk \in BOOLEAN
      /\ nativeStream \in BOOLEAN /\ eof \in BOOLEAN /\ countedCleanup \in BOOLEAN
  BY StreamAssumption, Zenon DEF Init
<1>4. chunkCallbacks \in Seq(Callback) /\ pushed \in SUBSET Units
  BY DEF Init
<1> QED
  BY <1>1, <1>2, <1>3, <1>4 DEF Init, TypeOK

LEMMA NextTypes == TypeOK /\ [Next]_vars => TypeOK'
<1> SUFFICES ASSUME TypeOK, [Next]_vars PROVE TypeOK'
  OBVIOUS
<1>1. CASE NativeTurn
  <2>1. NativeTypeOK'
    BY <1>1, NativeStepTypes DEF NativeTurn, TypeOK
  <2>2. job' = job
    BY <1>1 DEF NativeTurn, NativeStep, DoLZMACode, NoCoder, FetchChunk, CodeProgress, CodeStuck,
       CodeFails, CodeEnded, AfterCode, WorkerStarts, WorkerThrows, WorkerOnOK,
       InvokeBufferHandlers, HandOutput, HandResult, HandChunks, HandNothing,
       HandChunksBeforeReset, HandReset, settings
  <2> QED
    BY <1>1, <2>1, <2>2, SameUnits
    DEF NativeTurn, TypeOK, callerVars, transformVars, outputVars, countVars, streamVars
<1>2. CASE UNCHANGED vars
  <2>1. /\ nativeUnchanged /\ calls' = calls /\ job' = job
        /\ UNCHANGED <<callerVars, transformVars, outputVars, countVars, streamVars>>
    BY <1>2 DEF vars, nativeVars, nativeUnchanged, settings
  <2>2. NativeTypeOK'
    BY <2>1, UnchangedTypes DEF TypeOK, NativeTypeOK
  <2> QED
    BY <2>1, <2>2, SameUnits DEF TypeOK, callerVars, transformVars, outputVars, countVars, streamVars
<1> QED
  BY <1>1, <1>2, StreamTypes, CallerTypes DEF Next, Rest

(* The variables of the stream and of the native object keep their types;  *)
(* in particular every chunk lies within the input, finished and the       *)
(* counters of chunks are never negative.                                  *)
THEOREM TypeCorrect == Spec => []TypeOK
BY InitTypes, NextTypes, PTL DEF Spec
-----------------------------------------------------------------------------
(* Where the chunk is that was given to code() *)

NoNumbers == \A i \in DOMAIN calls : calls[i].kind # "number"
LastIsNumber ==
  /\ calls # <<>>
  /\ calls[Len(calls)].kind = "number" /\ calls[Len(calls)].n = 1
  /\ \A i \in 1 .. Len(calls) - 1 : calls[i].kind # "number"

(* Where the threads are: at most one of them is at work. *)
Queued   == workers = 1 /\ finished = 0 /\ mutex = "free" /\ pc = "idle"
Working  == /\ workers = 0 /\ finished = 0
            /\ (mutex = "worker" /\ pc = "idle") \/ (mutex = "main" /\ pc = "coding")
Returned == workers = 0 /\ finished = 1 /\ mutex = "free" /\ pc = "idle"
Handling(places) == workers = 0 /\ finished = 0 /\ mutex \in {"main", "free"} /\ pc \in places
Quiet    == workers = 0 /\ finished = 0 /\ mutex = "free" /\ pc \in {"idle", "aborted"}

(* No chunk is outstanding. *)
NoChunk ==
  /\ chunkCallbacks = <<>> /\ inbufs = <<>> /\ readChunks = 0 /\ processedChunks = 0
  /\ calls = <<>> /\ Quiet /\ pc = "idle"

(* It waits in inbufs: for the coding loop, or for ever when the loop had  *)
(* no coder or was not entered.                                            *)
InQueue ==
  /\ Len(chunkCallbacks) = 1 /\ Len(inbufs) = 1 /\ readChunks = 0 /\ processedChunks = 0
  /\ NoNumbers
  /\ \/ (Queued \/ Working \/ Returned) /\ calls = <<>>
     \/ Handling({"outbufs", "chunks", "reset"})
     \/ Quiet

BeingRead ==
  /\ Len(chunkCallbacks) = 1 /\ inbufs = <<>> /\ readChunks = 1 /\ processedChunks = 0
  /\ calls = <<>> /\ Working /\ internal

Counted ==
  /\ Len(chunkCallbacks) = 1 /\ inbufs = <<>> /\ readChunks = 0 /\ processedChunks = 1
  /\ NoNumbers
  /\ \/ Returned /\ calls = <<>>
     \/ Handling({"outbufs", "chunks"})

Reported ==
  /\ Len(chunkCallbacks) = 1 /\ inbufs = <<>> /\ readChunks = 0 /\ processedChunks = 0
  /\ LastIsNumber
  /\ Handling({"reset"}) \/ (Quiet /\ pc = "idle")

Token == NoChunk \/ InQueue \/ BeingRead \/ Counted \/ Reported

(* Outside of the coding loop there is no current chunk. *)
NothingRead == readChunks = 0 => inbuf = NoInput

(* The base class does not hand over more before the chunk is done with. *)
OneAtATime ==
  /\ chunkCallbacks # <<>> => writing \/ flushing
  /\ flushing => endCalled /\ taken = written

Released == ~nativeStream => ~internal /\ workers = 0 /\ finished = 0 /\ mutex = "free"

CountsOnce ==
  /\ synchronous => curAsyncStreamsCount = 0
  /\ ~synchronous => \/ nativeStream /\ ~countedCleanup /\ curAsyncStreamsCount = 1
                     \/ ~nativeStream /\ countedCleanup /\ curAsyncStreamsCount = 0

IInv == TypeOK /\ Token /\ NothingRead /\ OneAtATime /\ Released /\ CountsOnce

-----------------------------------------------------------------------------
(* Steps of the native object move the token on *)

LEMMA WorkingAlone ==
  ASSUME Token, Coding
  PROVE  /\ Working /\ calls = <<>> /\ Len(chunkCallbacks) = 1 /\ processedChunks = 0
         /\ \/ Len(inbufs) = 1 /\ readChunks = 0
            \/ inbufs = <<>> /\ readChunks = 1 /\ internal
BY DEF Token, Coding, NoChunk, InQueue, BeingRead, Counted, Reported, Queued, Working,
   Returned, Handling, Quiet

LEMMA LeaveWorking ==
  ASSUME Working, Leave
  PROVE  readChunks' = 0 /\ inbuf' = NoInput /\ (Returned' \/ Handling({"outbufs"})')
BY DEF Working, Leave, Returned, Handling

LEMMA AfterCodeToken ==
  ASSUME TypeOK, Token, NothingRead, CallsLzmaCode, UNCHANGED chunkCallbacks,
         NEW k, NEW out, NEW ret, AfterCode(k, out, ret)
  PROVE  Token' /\ NothingRead'
<1>1. Coding /\ internal /\ (Empty(inbuf) => inbufs = <<>>)
  BY DEF CallsLzmaCode
<1>2. /\ Working /\ calls = <<>> /\ Len(chunkCallbacks) = 1 /\ processedChunks = 0
      /\ inbufs = <<>> /\ readChunks = 1 /\ internal
  <2>1. readChunks = 0 => Empty(inbuf)
    BY DEF NothingRead, NoInput, Empty
  <2>2. Len(inbufs) = 1 => inbufs # <<>>
    OBVIOUS
  <2> QED
    BY <1>1, <2>1, <2>2, WorkingAlone
<1>3. UNCHANGED <<internal, inbufs, calls, chunkCallbacks>>
  BY DEF AfterCode
<1>4. CASE Break
  <2>1. processedChunks' = 1 /\ Leave
    BY <1>2, <1>4 DEF Break
  <2>2. NoNumbers'
    BY <1>2, <1>3 DEF NoNumbers
  <2>3. readChunks' = 0 /\ inbuf' = NoInput /\ (Returned' \/ Handling({"outbufs"})')
    BY <1>2, <2>1, LeaveWorking
  <2>4. Counted'
    BY <1>2, <1>3, <2>1, <2>2, <2>3 DEF Counted, Handling
  <2> QED
    BY <2>3, <2>4 DEF Token, NothingRead
<1>5. CASE Continue(k)
  <2>1. UNCHANGED <<processedChunks, readChunks, threads>>
    BY <1>5 DEF Continue
  <2>2. BeingRead'
    BY <1>2, <1>3, <2>1 DEF BeingRead, Working, threads
  <2> QED
    BY <1>2, <2>1, <2>2 DEF Token, NothingRead
<1> QED
  BY <1>4, <1>5 DEF AfterCode

LEMMA CodingToken ==
  ASSUME TypeOK, Token, NothingRead, DoLZMACode, UNCHANGED chunkCallbacks
  PROVE  Token' /\ NothingRead'
<1>1. CASE NoCoder
  <2>1. /\ Working /\ calls = <<>> /\ Len(chunkCallbacks) = 1 /\ processedChunks = 0
        /\ Len(inbufs) = 1 /\ readChunks = 0
    BY <1>1, WorkingAlone DEF NoCoder
  <2>2. readChunks' = 0 /\ inbuf' = NoInput /\ (Returned' \/ Handling({"outbufs"})')
    BY <1>1, <2>1, LeaveWorking DEF NoCoder
  <2>3. UNCHANGED <<inbufs, processedChunks, calls>>
    BY <1>1 DEF NoCoder, coding
  <2>4. NoNumbers'
    BY <2>1, <2>3 DEF NoNumbers
  <2>5. InQueue'
    BY <2>1, <2>2, <2>3, <2>4 DEF InQueue, Handling
  <2> QED
    BY <2>2, <2>5 DEF Token, NothingRead
<1>2. CASE FetchChunk
  <2>1. /\ Working /\ calls = <<>> /\ Len(chunkCallbacks) = 1 /\ processedChunks = 0
        /\ Len(inbufs) = 1 /\ readChunks = 0 /\ internal
    BY <1>2, WorkingAlone DEF FetchChunk
  <2>2. inbufs' = <<>>
    BY <1>2, <2>1 DEF FetchChunk, TypeOK, NativeTypeOK
  <2>3. readChunks' = 1
    BY <1>2, <2>1 DEF FetchChunk
  <2>4. BeingRead'
    BY <1>2, <2>1, <2>2, <2>3 DEF FetchChunk, BeingRead, Working, threads
  <2> QED
    BY <2>3, <2>4 DEF Token, NothingRead
<1>3. CASE CodeProgress
  <2>1. CallsLzmaCode /\ \E k, out, ret : AfterCode(k, out, ret)
    BY <1>3 DEF CodeProgress
  <2> QED
    BY <2>1, AfterCodeToken
<1>4. CASE CodeStuck \/ CodeFails \/ CodeEnded
  <2>1. CallsLzmaCode /\ \E k, out, ret : AfterCode(k, out, ret)
    BY <1>4 DEF CodeStuck, CodeFails, CodeEnded
  <2> QED
    BY <2>1, AfterCodeToken
<1> QED
  BY <1>1, <1>2, <1>3, <1>4 DEF DoLZMACode

LEMMA WorkerToken ==
  ASSUME TypeOK, Token, NothingRead, UNCHANGED chunkCallbacks,
         WorkerStarts \/ WorkerThrows \/ WorkerOnOK
  PROVE  Token' /\ NothingRead'
<1>1. /\ UNCHANGED <<inbufs, readChunks, processedChunks, calls, inbuf>>
  BY DEF WorkerStarts, WorkerThrows, WorkerOnOK, coding, locals
<1>2. NothingRead'
  BY <1>1 DEF NothingRead
<1>3. NoNumbers' = NoNumbers
  BY <1>1 DEF NoNumbers
<1>4. CASE WorkerStarts
  <2>1. InQueue /\ Queued /\ calls = <<>>
    BY <1>4 DEF WorkerStarts, Token, NoChunk, InQueue, BeingRead, Counted, Reported, Queued,
       Working, Returned, Handling, Quiet
  <2>2. Working'
    BY <1>4, <2>1 DEF WorkerStarts, Queued, Working
  <2> QED
    BY <1>1, <1>2, <1>3, <2>1, <2>2 DEF Token, InQueue
<1>5. CASE WorkerThrows
  <2>1. InQueue /\ Queued /\ calls = <<>>
    BY <1>5 DEF WorkerThrows, Token, NoChunk, InQueue, BeingRead, Counted, Reported, Queued,
       Working, Returned, Handling, Quiet
  <2>2. Quiet'
    BY <1>5, <2>1 DEF WorkerThrows, Queued, Quiet
  <2> QED
    BY <1>1, <1>2, <1>3, <2>1, <2>2 DEF Token, InQueue
<1>6. CASE WorkerOnOK
  <2>1. (InQueue \/ Counted) /\ Returned
    BY <1>6 DEF WorkerOnOK, Token, NoChunk, InQueue, BeingRead, Counted, Reported, Queued,
       Working, Returned, Handling, Quiet
  <2>2. Handling({"outbufs"})'
    BY <1>6, <2>1 DEF WorkerOnOK, Returned, Handling
  <2> QED
    BY <1>1, <1>2, <1>3, <2>1, <2>2 DEF Token, InQueue, Counted, Handling
<1> QED
  BY <1>4, <1>5, <1>6

(* Appending a call keeps what is known of the others. *)
LEMMA AppendCall ==
  ASSUME TypeOK, NoNumbers, NEW call, calls' = Append(calls, call)
  PROVE  /\ call.kind # "number" => NoNumbers'
         /\ call.kind = "number" /\ call.n = 1 => LastIsNumber'
<1>1. calls \in Seq(Call) /\ Len(calls) \in Nat
  BY DEF TypeOK, NativeTypeOK
<1>2. Len(calls') = Len(calls) + 1 /\ calls'[Len(calls')] = call /\ DOMAIN calls' = 1 .. Len(calls) + 1
  BY <1>1
<1>3. \A i \in 1 .. Len(calls) : calls'[i] = calls[i] /\ i \in DOMAIN calls
  BY <1>1
<1>4. calls' # <<>>
  BY <1>1, <1>2
<1> QED
  BY <1>1, <1>2, <1>3, <1>4 DEF NoNumbers, LastIsNumber

LEMMA HandlersToken ==
  ASSUME TypeOK, Token, NothingRead, InvokeBufferHandlers, UNCHANGED chunkCallbacks
  PROVE  Token' /\ NothingRead'
<1>1. UNCHANGED <<inbufs, readChunks, inbuf, workers, finished>>
  BY DEF InvokeBufferHandlers, HandOutput, HandResult, HandChunks, HandNothing,
     HandChunksBeforeReset, HandReset, HandlersReturn, coding, locals, threads
<1>2. NothingRead'
  BY <1>1 DEF NothingRead
<1>3. pc \in {"outbufs", "chunks", "reset"}
  BY DEF InvokeBufferHandlers, HandOutput, HandResult, HandChunks, HandNothing,
     HandChunksBeforeReset, HandReset
<1>4. /\ workers = 0 /\ finished = 0 /\ mutex \in {"main", "free"}
      /\ InQueue \/ (Counted /\ pc \in {"outbufs", "chunks"}) \/ (Reported /\ pc = "reset")
  BY <1>3 DEF Token, NoChunk, InQueue, BeingRead, Counted, Reported, Queued, Working,
     Returned, Handling, Quiet
<1>5. CASE HandOutput \/ HandResult
  <2>1. /\ pc = "outbufs" /\ pc' \in {"outbufs", "chunks"} /\ mutex' = mutex
        /\ processedChunks' = processedChunks
    BY <1>5 DEF HandOutput, HandResult, threads, coding
  <2>2. \E call : call.kind # "number" /\ calls' = Append(calls, call)
    BY <1>5 DEF HandOutput, HandResult, BufCall, NullCall, ErrorCall
  <2>3. NoNumbers'
    BY <1>4, <2>1, <2>2, AppendCall DEF InQueue, Counted
  <2> QED
    BY <1>1, <1>2, <1>4, <2>1, <2>3 DEF Token, InQueue, Counted, Reported, Handling
<1>6. CASE HandChunks \/ HandChunksBeforeReset
  <2>1. pc \in {"outbufs", "chunks"} /\ processedChunks > 0 /\ processedChunks' = 0
    BY <1>6 DEF HandChunks, HandChunksBeforeReset
  <2>2. Counted
    BY <1>4, <2>1 DEF InQueue
  <2>3. calls' = Append(calls, NumberCall(1))
    BY <1>6, <2>2 DEF HandChunks, HandChunksBeforeReset, Counted
  <2>4. LastIsNumber'
    BY <2>2, <2>3, AppendCall DEF NumberCall, Counted
  <2>5. Handling({"reset"})' \/ (Quiet /\ pc = "idle")'
    BY <1>1, <1>4, <1>6 DEF HandChunks, HandChunksBeforeReset, HandlersReturn, Handling, Quiet
  <2> QED
    BY <1>1, <1>2, <2>1, <2>2, <2>4, <2>5 DEF Token, Counted, Reported
<1>7. CASE HandNothing \/ HandReset
  <2>1. pc' = "idle" /\ mutex' = "free" /\ calls' = calls /\ processedChunks' = 0
    BY <1>7 DEF HandNothing, HandReset, HandlersReturn, resetUnderlying, coding
  <2>2. InQueue \/ Reported
    BY <1>4, <1>7 DEF HandNothing, HandReset, Counted
  <2>3. NoNumbers' = NoNumbers /\ LastIsNumber' = LastIsNumber
    BY <2>1 DEF NoNumbers, LastIsNumber
  <2>4. Quiet'
    BY <1>1, <1>4, <2>1 DEF Quiet
  <2> QED
    BY <1>1, <1>2, <2>1, <2>2, <2>3, <2>4 DEF Token, InQueue, Reported
<1> QED
  BY <1>5, <1>6, <1>7 DEF InvokeBufferHandlers

LEMMA NativeTurnIInv ==
  ASSUME IInv, NativeTurn
  PROVE  Token' /\ NothingRead' /\ OneAtATime' /\ Released' /\ CountsOnce'
<1>1. UNCHANGED <<callerVars, transformVars, outputVars, countVars, streamVars>>
  BY DEF NativeTurn
<1>2. Token' /\ NothingRead'
  BY <1>1, CodingToken, WorkerToken, HandlersToken DEF IInv, NativeTurn, NativeStep, streamVars
<1>3. OneAtATime' /\ CountsOnce'
  BY <1>1 DEF IInv, OneAtATime, CountsOnce, callerVars, transformVars, countVars, streamVars
<1>4. Released'
  <2> SUFFICES ASSUME ~nativeStream' PROVE ~internal' /\ workers' = 0 /\ finished' = 0 /\ mutex' = "free"
    BY DEF Released
  <2>1. ~internal /\ workers = 0 /\ finished = 0 /\ mutex = "free"
    BY <1>1 DEF IInv, Released, streamVars
  <2>2. pc # "coding"
    BY <2>1 DEF IInv, Token, NoChunk, InQueue, BeingRead, Counted, Reported, Queued, Working,
       Returned, Handling, Quiet
  <2>3. InvokeBufferHandlers
    BY <2>1, <2>2 DEF NativeTurn, NativeStep, DoLZMACode, NoCoder, FetchChunk, CodeProgress,
       CodeStuck, CodeFails, CodeEnded, CallsLzmaCode, Coding, WorkerStarts, WorkerThrows,
       WorkerOnOK, TypeOK, NativeTypeOK, IInv
  <2> QED
    BY <2>1, <2>3 DEF InvokeBufferHandlers, HandOutput, HandResult, HandChunks, HandNothing,
       HandChunksBeforeReset, HandReset, HandlersReturn, resetUnderlying, threads, coding
<1> QED
  BY <1>2, <1>3, <1>4

-----------------------------------------------------------------------------
(* Callbacks of the event loop *)

(* Clear: a chunk may be given to code(). *)
Clear ==
  /\ inbufs = <<>> /\ readChunks = 0 /\ processedChunks = 0
  /\ Quiet /\ pc = "idle"

LEMMA NoNumbersInEmpty ==
  ASSUME calls' = <<>>
  PROVE  NoNumbers'
BY DEF NoNumbers

LEMMA CodeToken ==
  ASSUME TypeOK, Clear, NothingRead, calls' = <<>>, Len(chunkCallbacks') = 1,
         NEW chunk, NEW async, Code(chunk, async)
  PROVE  Token' /\ NothingRead'
<1>1. NoNumbers'
  BY NoNumbersInEmpty
<1>2. Len(inbufs') = 1
  BY DEF Code, Clear, TypeOK, NativeTypeOK
<1>3. UNCHANGED <<readChunks, inbuf, processedChunks>>
  BY DEF Code, locals
<1>4. Queued' \/ Working' \/ Quiet'
  BY DEF Code, Clear, Quiet, Queued, Working
<1> QED
  BY <1>1, <1>2, <1>3, <1>4 DEF Token, InQueue, NothingRead, Clear

LEMMA StillClear ==
  ASSUME Clear, NothingRead, nativeUnchanged \/ (\E again : ResetUnderlying(again)),
         calls' = <<>>, chunkCallbacks' = <<>>
  PROVE  Token' /\ NothingRead'
<1>1. UNCHANGED <<inbufs, readChunks, inbuf, workers, finished, mutex, pc>> /\ processedChunks' = 0
  BY DEF Clear, nativeUnchanged, ResetUnderlying, coding, locals, threads
<1> QED
  BY <1>1 DEF Clear, Quiet, Token, NoChunk, NothingRead

LEMMA TransformToken ==
  ASSUME TypeOK, Clear, NothingRead, Released, calls' = <<>>, UNCHANGED nativeStream,
         NEW chunk, Transform(chunk, <<>>)
  PROVE  /\ Token' /\ NothingRead' /\ Released'
         /\ chunkCallbacks' # <<>> => writing'
<1>1. CASE nativeUnchanged /\ chunkCallbacks' = <<>>
  <2>1. Token' /\ NothingRead'
    BY <1>1, StillClear
  <2> QED
    BY <1>1, <2>1 DEF Released, nativeUnchanged, coding, threads
<1>2. CASE \E data : /\ nativeStream /\ writing' = TRUE
                     /\ chunkCallbacks' = Append(<<>>, WriteCallback(RestOf(chunk)))
                     /\ Code(data, ~synchronous)
  <2>1. Len(chunkCallbacks') = 1
    BY <1>2
  <2>2. Token' /\ NothingRead'
    BY <1>2, <2>1, CodeToken
  <2> QED
    BY <1>2, <2>2 DEF Released
<1> QED
  BY <1>1, <1>2 DEF Transform

LEMMA CleanupReleases ==
  ASSUME TypeOK, Quiet, Released, CountsOnce, cleanup, UNCHANGED synchronous
  PROVE  Released' /\ CountsOnce'
<1>1. Released'
  <2>1. CASE nativeStream
    BY <2>1 DEF cleanup, ResetUnderlying, Quiet, Released, threads
  <2>2. CASE ~nativeStream
    BY <2>2 DEF cleanup, nativeUnchanged, Released, coding, threads
  <2> QED
    BY <2>1, <2>2
<1>2. CASE synchronous
  <2>1. curAsyncStreamsCount' = curAsyncStreamsCount /\ synchronous'
    BY <1>2 DEF cleanup, countDown, countVars
  <2> QED
    BY <1>1, <1>2, <2>1, Zenon DEF CountsOnce
<1>3. CASE ~synchronous
  <2>1. ~nativeStream' /\ countedCleanup' /\ ~synchronous'
    BY <1>3, Zenon DEF cleanup, countDown
  <2>2. curAsyncStreamsCount' = 0
    <3>1. curAsyncStreamsCount' = IF countedCleanup THEN curAsyncStreamsCount ELSE curAsyncStreamsCount - 1
      BY <1>3 DEF cleanup, countDown
    <3>2. \/ ~countedCleanup /\ curAsyncStreamsCount = 1
          \/ countedCleanup /\ curAsyncStreamsCount = 0
      BY <1>3, Zenon DEF CountsOnce
    <3> QED
      BY <3>1, <3>2
  <2> QED
    BY <1>1, <2>1, <2>2, Zenon DEF CountsOnce
<1> QED
  BY <1>1, <1>2, <1>3

LEMMA HandOverIsClear ==
  ASSUME TypeOK, Token, OneAtATime, ~writing, ~flushing
  PROVE  NoChunk /\ Clear /\ chunkCallbacks = <<>> /\ calls = <<>>
<1>1. chunkCallbacks = <<>>
  BY DEF OneAtATime
<1>2. Len(chunkCallbacks) = 0
  BY <1>1
<1> QED
  BY <1>1, <1>2 DEF Token, NoChunk, InQueue, BeingRead, Counted, Reported, Clear

LEMMA StartWriteIInv ==
  ASSUME IInv, StartWrite
  PROVE  Token' /\ NothingRead' /\ OneAtATime' /\ Released' /\ CountsOnce'
<1>1. ~writing /\ ~flushing /\ taken' = written /\ written' = written
  BY DEF IInv, StartWrite, OneAtATime, TypeOK, callerVars
<1>2. Clear /\ chunkCallbacks = <<>> /\ calls = <<>>
  BY <1>1, HandOverIsClear DEF IInv
<1>3. calls' = <<>> /\ Transform([lo |-> taken, hi |-> written], <<>>) /\ nativeStream' = nativeStream
  BY <1>2 DEF StartWrite
<1>4. /\ Token' /\ NothingRead' /\ Released'
      /\ chunkCallbacks' # <<>> => writing'
  BY <1>2, <1>3, TransformToken DEF IInv
<1> QED
  BY <1>1, <1>4 DEF IInv, StartWrite, OneAtATime, CountsOnce, callerVars, countVars

LEMMA FlushIInv ==
  ASSUME IInv, Flush
  PROVE  Token' /\ NothingRead' /\ OneAtATime' /\ Released' /\ CountsOnce'
<1>1. /\ Clear /\ chunkCallbacks = <<>> /\ calls' = <<>> /\ Quiet
  BY HandOverIsClear DEF IInv, Flush, Clear
<1>2. OneAtATime'
  BY DEF Flush, OneAtATime, callerVars
<1>3. synchronous' = synchronous
  BY DEF Flush, callerVars
<1>4. CASE cleanup /\ UNCHANGED chunkCallbacks
  <2>1. Token' /\ NothingRead'
    BY <1>1, <1>4, StillClear DEF cleanup, IInv
  <2> QED
    BY <1>1, <1>2, <1>3, <1>4, <2>1, CleanupReleases DEF IInv
<1>5. CASE nativeUnchanged /\ UNCHANGED <<chunkCallbacks, nativeStream, countVars>>
  <2>1. Token' /\ NothingRead'
    BY <1>1, <1>5, StillClear DEF IInv
  <2> QED
    BY <1>2, <1>3, <1>5, <2>1 DEF IInv, Released, CountsOnce, nativeUnchanged, coding, threads, countVars
<1>6. CASE /\ nativeStream
           /\ chunkCallbacks' = Append(chunkCallbacks, FlushCallback)
           /\ Code(NoInput, ~synchronous)
           /\ UNCHANGED <<nativeStream, countVars>>
  <2>1. Len(chunkCallbacks') = 1
    BY <1>1, <1>6
  <2>2. Token' /\ NothingRead'
    BY <1>1, <1>6, <2>1, CodeToken DEF IInv
  <2> QED
    BY <1>2, <1>3, <1>6, <2>2 DEF IInv, Released, CountsOnce, countVars
<1> QED
  BY <1>4, <1>5, <1>6 DEF Flush

(* What an immediate finds: a chunk that is waiting or reported, and no    *)
(* thread at work.                                                         *)
LEMMA ImmediateFinds ==
  ASSUME TypeOK, Token, NEW kind, Immediate(kind)
  PROVE  /\ Quiet /\ pc = "idle" /\ readChunks = 0 /\ processedChunks = 0
         /\ Len(chunkCallbacks) = 1
         /\ \/ InQueue /\ kind # "number" /\ NoNumbers'
            \/ Reported /\ kind # "number" /\ LastIsNumber'
            \/ Reported /\ kind = "number" /\ calls' = <<>> /\ Head(calls).n = 1
<1>1. /\ calls \in Seq(Call) /\ calls # <<>> /\ calls[1].kind = kind /\ pc = "idle"
      /\ calls' = Tail(calls) /\ Head(calls) = calls[1]
  BY DEF Immediate, TypeOK, NativeTypeOK
<1>2. /\ Len(calls) \in Nat /\ Len(calls) >= 1 /\ Len(calls') = Len(calls) - 1
      /\ DOMAIN calls = 1 .. Len(calls) /\ DOMAIN calls' = 1 .. Len(calls')
      /\ \A i \in 1 .. Len(calls) - 1 : calls'[i] = calls[i + 1]
  BY <1>1
<1>3. (InQueue \/ Reported) /\ Quiet
  BY <1>1 DEF Token, NoChunk, InQueue, BeingRead, Counted, Reported, Queued, Working,
     Returned, Handling, Quiet
<1>4. /\ readChunks = 0 /\ processedChunks = 0 /\ Len(chunkCallbacks) = 1
  BY <1>3 DEF InQueue, Reported
<1>5. CASE InQueue
  <2>1. kind # "number"
    BY <1>1, <1>2, <1>5 DEF InQueue, NoNumbers
  <2>2. NoNumbers'
    BY <1>2, <1>5 DEF InQueue, NoNumbers
  <2> QED
    BY <1>1, <1>3, <1>4, <1>5, <2>1, <2>2
<1>6. CASE Reported
  <2>1. LastIsNumber
    BY <1>6 DEF Reported
  <2>2. CASE Len(calls) = 1
    <3>1. kind = "number" /\ calls[1].n = 1
      BY <1>1, <2>1, <2>2 DEF LastIsNumber
    <3>2. calls' = <<>>
      BY <1>1, <1>2, <2>2
    <3> QED
      BY <1>1, <1>3, <1>4, <1>6, <3>1, <3>2
  <2>3. CASE Len(calls) > 1
    <3>1. kind # "number"
      BY <1>1, <1>2, <2>1, <2>3 DEF LastIsNumber
    <3>2. Len(calls') >= 1 /\ calls' # <<>> /\ calls'[Len(calls')] = calls[Len(calls)]
      <4>1. Len(calls) - 1 \in 1 .. Len(calls) - 1 /\ Len(calls') = Len(calls) - 1
        BY <1>2, <2>3
      <4>2. calls'[Len(calls) - 1] = calls[(Len(calls) - 1) + 1]
        BY <1>2, <4>1
      <4>3. (Len(calls) - 1) + 1 = Len(calls) /\ Len(calls') >= 1
        BY <1>2, <2>3
      <4>4. calls' # <<>>
        BY <1>1, <4>3
      <4> QED
        BY <4>1, <4>2, <4>3, <4>4
    <3>3. LastIsNumber'
      BY <1>2, <2>1, <2>3, <3>2 DEF LastIsNumber
    <3> QED
      BY <1>1, <1>3, <1>4, <1>6, <3>1, <3>3
  <2> QED
    BY <1>2, <2>2, <2>3
<1> QED
  BY <1>3, <1>5, <1>6

(* An immediate that is no number leaves the chunk where it is. *)
LEMMA TokenStays ==
  ASSUME TypeOK, Token, NothingRead, NEW kind, Immediate(kind), kind # "number",
         nativeUnchanged \/ (\E again : ResetUnderlying(again)), UNCHANGED chunkCallbacks
  PROVE  Token' /\ NothingRead' /\ Quiet
<1>1. UNCHANGED <<inbufs, readChunks, inbuf, workers, finished, mutex, pc>>
  BY DEF nativeUnchanged, ResetUnderlying, coding, locals, threads
<1>2. processedChunks' = 0
  BY ImmediateFinds DEF nativeUnchanged, ResetUnderlying, coding
<1>3. NothingRead' /\ Quiet /\ (Quiet' <=> Quiet)
  BY <1>1, ImmediateFinds DEF NothingRead, Quiet
<1>4. (InQueue /\ NoNumbers') \/ (Reported /\ LastIsNumber')
  BY ImmediateFinds
<1>5. pc' = "idle" /\ Len(chunkCallbacks') = 1
  BY <1>1, ImmediateFinds
<1> QED
  BY <1>1, <1>2, <1>3, <1>4, <1>5 DEF Token, InQueue, Reported

LEMMA ImmediatesIInv ==
  ASSUME IInv, Immediates
  PROVE  Token' /\ NothingRead' /\ OneAtATime' /\ Released' /\ CountsOnce'
<1> USE DEF IInv
<1>1. UNCHANGED callerVars
  BY DEF Immediates, OnError, OnBuffer, OnStreamEnd, OnNumber
<1>2. synchronous' = synchronous /\ endCalled' = endCalled /\ written' = written
  BY <1>1 DEF callerVars
<1>3. CASE OnError
  <2>1. OneAtATime'
    BY <1>2, <1>3 DEF OnError, OneAtATime, transformVars
  <2>2. CASE cleanup
    <3>1. Token' /\ NothingRead' /\ Quiet
      BY <1>3, <2>2, TokenStays DEF OnError, cleanup
    <3> QED
      BY <1>2, <2>1, <2>2, <3>1, CleanupReleases
  <2>3. CASE nativeUnchanged /\ UNCHANGED <<nativeStream, countVars>>
    <3>1. Token' /\ NothingRead'
      BY <1>3, <2>3, TokenStays DEF OnError
    <3> QED
      BY <1>2, <2>1, <2>3, <3>1 DEF Released, CountsOnce, nativeUnchanged, coding, threads, countVars
  <2> QED
    BY <1>3, <2>2, <2>3 DEF OnError
<1>4. CASE OnBuffer
  <2>1. nativeUnchanged /\ UNCHANGED <<transformVars, countVars, streamVars>>
    BY <1>4 DEF OnBuffer
  <2>2. Token' /\ NothingRead'
    BY <1>4, <2>1, TokenStays DEF OnBuffer, streamVars
  <2> QED
    BY <1>2, <2>1, <2>2
    DEF OneAtATime, Released, CountsOnce, nativeUnchanged, coding, threads, countVars, streamVars, transformVars
<1>5. CASE OnStreamEnd
  <2>1. UNCHANGED <<chunkCallbacks, nativeStream, transformVars, countVars>>
    BY <1>5 DEF OnStreamEnd
  <2>2. nativeUnchanged \/ (nativeStream /\ restart)
    BY <1>5 DEF OnStreamEnd
  <2>3. Token' /\ NothingRead'
    BY <1>5, <2>1, <2>2, TokenStays DEF OnStreamEnd, restart
  <2>4. Released'
    BY <2>1, <2>2 DEF Released, nativeUnchanged, coding, threads
  <2> QED
    BY <1>2, <2>1, <2>3, <2>4 DEF OneAtATime, CountsOnce, countVars, transformVars
<1>6. CASE OnNumber
  <2> DEFINE left == SubSeq(chunkCallbacks, Head(calls).n + 1, Len(chunkCallbacks))
             callback == Head(chunkCallbacks)
  <2>1. Immediate("number")
    BY <1>6 DEF OnNumber
  <2>2. /\ Quiet /\ pc = "idle" /\ readChunks = 0 /\ processedChunks = 0 /\ Len(chunkCallbacks) = 1
        /\ Reported /\ calls' = <<>> /\ Head(calls).n = 1
    BY <2>1, ImmediateFinds
  <2>3. Clear
    BY <2>2 DEF Clear, Reported
  <2>4. left = <<>>
    BY <2>2 DEF TypeOK
  <2> HIDE DEF left, callback
  <2>5. taken' = taken /\ flushing' = flushing
    BY <1>6 DEF OnNumber
  <2>6. CASE /\ Transform(callback.rest, left)
             /\ UNCHANGED <<nativeStream, countVars>>
    <3>1. /\ Token' /\ NothingRead' /\ Released'
          /\ chunkCallbacks' # <<>> => writing'
      BY <2>2, <2>3, <2>4, <2>6, TransformToken
    <3> QED
      BY <1>2, <2>5, <2>6, <3>1 DEF OneAtATime, CountsOnce, countVars
  <2>7. CASE /\ chunkCallbacks' = left
             /\ nativeUnchanged
             /\ UNCHANGED <<nativeStream, countVars>>
    <3>1. Token' /\ NothingRead'
      BY <2>2, <2>3, <2>4, <2>7, StillClear
    <3> QED
      BY <1>2, <2>4, <2>5, <2>7, <3>1
      DEF OneAtATime, CountsOnce, Released, nativeUnchanged, coding, threads, countVars
  <2>8. CASE cleanup /\ chunkCallbacks' = left
    <3>1. Token' /\ NothingRead'
      BY <2>2, <2>3, <2>4, <2>8, StillClear DEF cleanup
    <3>2. Released' /\ CountsOnce'
      BY <1>2, <2>2, <2>8, CleanupReleases
    <3> QED
      BY <1>2, <2>4, <2>5, <2>8, <3>1, <3>2 DEF OneAtATime
  <2> QED
    BY <1>6, <2>6, <2>7, <2>8 DEF OnNumber, left, callback
<1> QED
  BY <1>3, <1>4, <1>5, <1>6 DEF Immediates

LEMMA CallerIInv ==
  ASSUME IInv, Write \/ EndInput \/ AssignBufsize \/ ReadBufsize
  PROVE  Token' /\ NothingRead' /\ OneAtATime' /\ Released' /\ CountsOnce'
<1>1. /\ UNCHANGED <<coding, locals, threads, calls>>
      /\ UNCHANGED <<transformVars, countVars, streamVars>>
      /\ synchronous' = synchronous
  BY DEF Write, EndInput, AssignBufsize, ReadBufsize, SetBufsize, nativeVars, callerVars
<1>2. /\ UNCHANGED <<internal, inbufs, processedChunks, readChunks, inbuf, mutex, workers, finished, pc, calls>>
      /\ UNCHANGED <<chunkCallbacks, nativeStream, writing, flushing, taken, countedCleanup, curAsyncStreamsCount>>
  BY <1>1 DEF coding, locals, threads, transformVars, countVars, streamVars
<1>3. Token' /\ NothingRead' /\ Released' /\ CountsOnce'
  BY <1>1, <1>2 DEF IInv, Token, NothingRead, Released, CountsOnce, NoChunk, InQueue, BeingRead,
     Counted, Reported, Queued, Working, Returned, Handling, Quiet, NoNumbers, LastIsNumber
<1>4. OneAtATime'
  <2>1. flushing => endCalled' /\ written' = written
    BY DEF IInv, OneAtATime, Write, EndInput, AssignBufsize, ReadBufsize, callerVars
  <2> QED
    BY <1>2, <2>1 DEF IInv, OneAtATime
<1> QED
  BY <1>3, <1>4

LEMMA InitIInv == Init => IInv
<1> SUFFICES ASSUME Init PROVE IInv
  OBVIOUS
<1>1. TypeOK
  BY InitTypes
<1>2. NoChunk
  BY DEF Init, NativeInit, NoChunk, Quiet
<1>3. NothingRead /\ OneAtATime /\ Released
  BY DEF Init, NativeInit, NothingRead, OneAtATime, Released
<1>4. CountsOnce
  BY Zenon DEF Init, CountsOnce
<1> QED
  BY <1>1, <1>2, <1>3, <1>4 DEF IInv, Token

LEMMA NextIInv == IInv /\ [Next]_vars => IInv'
<1> SUFFICES ASSUME IInv, [Next]_vars PROVE IInv'
  OBVIOUS
<1>1. TypeOK'
  BY NextTypes DEF IInv
<1>2. CASE UNCHANGED vars
  BY <1>1, <1>2 DEF IInv, Token, NothingRead, OneAtATime, Released, CountsOnce, NoChunk, InQueue,
     BeingRead, Counted, Reported, Queued, Working, Returned, Handling, Quiet, NoNumbers,
     LastIsNumber, vars, nativeVars, coding, settings, locals, threads, callerVars, transformVars,
     outputVars, countVars, streamVars
<1> QED
  BY <1>1, <1>2, StartWriteIInv, FlushIInv, ImmediatesIInv, CallerIInv, NativeTurnIInv
  DEF Next, Rest, IInv

LEMMA Inductive == Spec => []IInv
BY InitIInv, NextIInv, PTL DEF Spec

-----------------------------------------------------------------------------
(* The theorems *)

(* No more than one chunk is with the native object at a time, whatever    *)
(* the caller writes and however the threads are scheduled.                *)
THEOREM StreamHasOneChunkOutstanding == Spec => []OneChunkOutstanding
<1>1. IInv => OneChunkOutstanding
  <2>1. chunkCallbacks = <<>> => Len(chunkCallbacks) <= 1
    OBVIOUS
  <2>2. Len(chunkCallbacks) = 1 => Len(chunkCallbacks) <= 1
    OBVIOUS
  <2> QED
    BY <2>1, <2>2 DEF IInv, Token, NoChunk, InQueue, BeingRead, Counted, Reported, OneChunkOutstanding
<1> QED
  BY <1>1, Inductive, PTL

(* Chunks are neither lost nor counted twice between code() and the        *)
(* callbacks, so that the assertion of index.js line 79 never fails.       *)
THEOREM StreamConservesChunks == Spec => []ChunkConservation
<1>1. IInv => ChunkConservation
  <2> SUFFICES ASSUME IInv PROVE ChunkConservation
    OBVIOUS
  <2>1. calls \in Seq(Call) /\ DOMAIN calls = 1 .. Len(calls) /\ Len(calls) \in Nat
    BY DEF IInv, TypeOK, NativeTypeOK
  <2>2. ASSUME NoNumbers PROVE Numbers = {} /\ Cardinality(Numbers) = 0
    BY <2>2, FS_EmptySet DEF NoNumbers, Numbers
  <2>3. ASSUME LastIsNumber
        PROVE  Numbers = {Len(calls)} /\ Cardinality(Numbers) = 1 /\ calls[Len(calls)].n = 1
    <3>1. Len(calls) >= 1
      BY <2>1, <2>3 DEF LastIsNumber
    <3>2. Numbers = {Len(calls)}
      BY <2>1, <2>3, <3>1 DEF LastIsNumber, Numbers
    <3> QED
      BY <2>3, <3>2, FS_Singleton DEF LastIsNumber
  <2>4. calls = <<>> => NoNumbers
    BY DEF NoNumbers
  <2>5. chunkCallbacks = <<>> => Len(chunkCallbacks) = 0
    OBVIOUS
  <2>6. inbufs = <<>> => Len(inbufs) = 0
    OBVIOUS
  <2>7. CASE Reported
    <3>1. \A i \in Numbers : calls[i].n = 1
      BY <2>3, <2>7 DEF Reported
    <3>2. Len(chunkCallbacks) = Len(inbufs) + readChunks + processedChunks + Cardinality(Numbers)
      BY <2>3, <2>6, <2>7 DEF Reported
    <3> QED
      BY <3>1, <3>2 DEF ChunkConservation
  <2>8. CASE NoChunk \/ InQueue \/ BeingRead \/ Counted
    <3>1. Numbers = {} /\ Cardinality(Numbers) = 0
      BY <2>2, <2>4, <2>8 DEF NoChunk, InQueue, BeingRead, Counted
    <3>2. CASE NoChunk
      BY <2>5, <2>6, <3>1, <3>2 DEF NoChunk, ChunkConservation
    <3>3. CASE InQueue
      BY <3>1, <3>3 DEF InQueue, ChunkConservation
    <3>4. CASE BeingRead
      BY <2>6, <3>1, <3>4 DEF BeingRead, ChunkConservation
    <3>5. CASE Counted
      BY <2>6, <3>1, <3>5 DEF Counted, ChunkConservation
    <3> QED
      BY <2>8, <3>2, <3>3, <3>4, <3>5
  <2> QED
    BY <2>7, <2>8 DEF IInv, Token
<1> QED
  BY <1>1, Inductive, PTL

(* No worker is queued, at work or returning while the main thread is      *)
(* inside invokeBufferHandlers, although it drops the lock there.          *)
THEOREM StreamHandlersUndisturbed == Spec => []HandlersUndisturbed
<1>1. IInv => HandlersUndisturbed
  BY DEF IInv, Token, NoChunk, InQueue, BeingRead, Counted, Reported, Queued, Working, Returned,
     Handling, Quiet, HandlersUndisturbed
<1> QED
  BY <1>1, Inductive, PTL

(* A stream that was cleaned up has no coder and no worker any more.       *)
THEOREM StreamReleasesAtCleanup == Spec => []ReleasedAtCleanup
<1>1. IInv => ReleasedAtCleanup
  BY DEF IInv, Released, ReleasedAtCleanup
<1> QED
  BY <1>1, Inductive, PTL

(* curAsyncStreamsCount is exact, although cleanup runs on two paths.      *)
THEOREM StreamCountsExactly == Spec => []AsyncCountExact
<1>1. IInv => AsyncCountExact
  BY Zenon DEF IInv, CountsOnce, AsyncCountExact
<1> QED
  BY <1>1, Inductive, PTL

-----------------------------------------------------------------------------
(* The work that is left *)

(* No more is handed over than was written. *)
NotAhead == taken <= written

RestSize == IF chunkCallbacks = <<>> THEN 0 ELSE Size(Head(chunkCallbacks).rest)
UnitsDue == written - taken
FlushDue == IF flushing THEN 0 ELSE 14

Sizes ==
  /\ UnitsDue \in Nat /\ RestSize \in Nat /\ HeadSize \in Nat /\ NativeWork \in Nat
  /\ Len(calls) \in Nat /\ FlushDue \in Nat /\ WorkLeft \in Nat
  /\ WorkLeft = 21 * (UnitsDue + RestSize) + 7 * HeadSize + NativeWork + 2 * Len(calls) + FlushDue

LEMMA TokenLocks ==
  ASSUME Token
  PROVE  Locks
BY DEF Locks, Token, NoChunk, InQueue, BeingRead, Counted, Reported, Queued, Working, Returned,
   Handling, Quiet

LEMMA WorkLeftIs ==
  ASSUME TypeOK, NotAhead
  PROVE  Sizes
<1> DEFINE told == Len(calls)
<1>1. HeadSize \in Nat /\ NativeWork \in Nat /\ told \in Nat
  BY WorkIsNatural DEF TypeOK
<1>2. UnitsDue \in Nat
  BY FileFacts DEF TypeOK, NativeTypeOK, NotAhead, UnitsDue
<1>3. RestSize \in Nat
  <2>1. chunkCallbacks # <<>> => Head(chunkCallbacks).rest \in Chunk
    <3>1. chunkCallbacks # <<>> => Head(chunkCallbacks) \in Callback
      BY DEF TypeOK
    <3> QED
      BY <3>1 DEF Callback
  <2> QED
    BY <2>1, ChunkFacts DEF RestSize, TypeOK, NativeTypeOK
<1>4. FlushDue \in Nat
  BY DEF FlushDue
<1>5. WorkLeft = 21 * (UnitsDue + RestSize) + 7 * HeadSize + NativeWork + 2 * told + FlushDue
  BY DEF WorkLeft, UnitsToCome, HeadSize, RestSize, UnitsDue, FlushDue
<1> HIDE DEF told
<1>6. WorkLeft \in Nat
  BY <1>1, <1>2, <1>3, <1>4, <1>5
<1> QED
  BY <1>1, <1>2, <1>3, <1>4, <1>5, <1>6 DEF Sizes, told

(* A chunk is cut into a piece and a rest, and padding is taken off. *)
LEMMA PieceSizes ==
  ASSUME job \in Jobs, NEW chunk \in Chunk
  PROVE  /\ Size(FirstPiece(chunk)) \in Nat /\ Size(RestOf(chunk)) \in Nat
         /\ Size(FirstPiece(chunk)) + Size(RestOf(chunk)) = Size(chunk)
<1>1. FirstPiece(chunk) \in Chunk /\ RestOf(chunk) \in Chunk
  BY PieceFacts
<1>2. /\ FirstPiece(chunk).lo \in Nat /\ FirstPiece(chunk).hi \in Nat
      /\ chunk.lo \in Nat /\ chunk.hi \in Nat
  BY <1>1, ChunkFacts
<1>3. FirstPiece(chunk).lo = chunk.lo
  BY DEF FirstPiece, Chunk
<1>4. RestOf(chunk).lo = FirstPiece(chunk).hi /\ RestOf(chunk).hi = chunk.hi
  BY DEF RestOf
<1>5. Size(FirstPiece(chunk)) \in Nat /\ Size(RestOf(chunk)) \in Nat
  BY <1>1, ChunkFacts
<1> QED
  BY <1>2, <1>3, <1>4, <1>5 DEF Size

LEMMA SkipSize ==
  ASSUME job \in Jobs, NEW chunk \in Chunk
  PROVE  /\ Size(SkipLeadingZeroes(chunk)) \in Nat
         /\ Size(SkipLeadingZeroes(chunk)) <= Size(chunk)
<1> DEFINE S == {l \in chunk.lo .. chunk.hi : l = chunk.hi \/ File[l + 1] # "zero"}
           m == Smallest(S)
<1>1. chunk.lo \in Nat /\ chunk.hi \in Nat /\ chunk.lo <= chunk.hi
  BY ChunkFacts
<1>2. S \in SUBSET Nat /\ chunk.hi \in S
  BY <1>1
<1>3. m \in S
  BY <1>2, SmallestFacts
<1>4. m \in chunk.lo .. chunk.hi
  BY <1>3
<1>5. SkipLeadingZeroes(chunk) = [chunk EXCEPT !.lo = m]
  BY DEF SkipLeadingZeroes
<1> HIDE DEF m
<1>6. SkipLeadingZeroes(chunk).lo = m /\ SkipLeadingZeroes(chunk).hi = chunk.hi
  BY <1>5 DEF Chunk
<1> QED
  BY <1>1, <1>4, <1>6 DEF Size

(* What the callbacks of the event loop do to the native object. *)
LEMMA CodeWork ==
  ASSUME NativeTypeOK, inbufs = <<>>, NEW chunk, NEW async, Code(chunk, async),
         NativeWork' \in Nat
  PROVE  NativeWork' <= NativeWork + 13 /\ HeadSize' = Size(chunk)
<1> DEFINE work1 == NativeWork'
           thread1 == ThreadWork'
           place == HandlerWork(pc)
           place1 == HandlerWork(pc')
           queued1 == workers'
           size == Size(inbuf)
           outs == Len(outbufs)
<1>1. NativeWork \in Nat /\ NativeWork = 7 * size + CoderWork + 3 * outs + 0 + ThreadWork
  BY WorkIsNatural DEF NativeWork
<1>2. CoderWork \in Nat /\ ThreadWork \in Nat /\ size \in Nat /\ outs \in Nat
  BY WorkIsNatural
<1>3. inbufs' = <<chunk>> /\ UNCHANGED <<coder, outbufs, inbuf>>
  BY DEF Code, locals
<1>4. HeadSize' = Size(chunk) /\ Len(inbufs') = 1
  BY <1>3 DEF HeadSize
<1>5. work1 = 7 * size + CoderWork + 3 * outs + 1 + thread1
  BY <1>3, <1>4 DEF NativeWork, CoderWork
<1>6. /\ pc = "idle" /\ mutex = "free" /\ ~Coding /\ finished' = finished
      /\ workers \in Nat /\ finished \in Nat /\ queued1 \in Nat
      /\ pc' \in {"idle", "coding", "outbufs", "chunks", "reset", "aborted"}
  BY DEF Code, Coding, NativeTypeOK
<1>7. ThreadWork = 12 * workers + 9 * finished + place /\ place = 0
  BY <1>6, ThreadWorkIs, HandlerWorkIs
<1>8. /\ thread1 \in Nat
      /\ Coding' => thread1 = 12 * queued1 + 9 * finished + 11 + place1
      /\ ~Coding' => thread1 = 12 * queued1 + 9 * finished + place1
  <2>1. workers' \in Nat /\ finished' \in Nat /\ finished' = finished
    BY <1>6
  <2> QED
    BY <1>6, <2>1, ThreadWorkNext
<1>9. \/ queued1 = workers + 1 /\ ~Coding' /\ place1 = 0
      \/ queued1 = workers /\ Coding' /\ place1 = 0
      \/ queued1 = workers /\ ~Coding' /\ place1 = 0
  BY <1>6, HandlerWorkIs DEF Code, Coding
<1>10. thread1 <= ThreadWork + 12
  <2>1. \/ thread1 = 12 * (workers + 1) + 9 * finished + 0
        \/ thread1 = 12 * workers + 9 * finished + 11 + 0
        \/ thread1 = 12 * workers + 9 * finished + 0
    BY <1>8, <1>9
  <2> HIDE DEF thread1, place
  <2> QED
    BY <1>2, <1>6, <1>7, <2>1
<1>11. work1 <= NativeWork + 13
  <2>1. thread1 \in Nat /\ work1 \in Nat
    BY <1>8
  <2> HIDE DEF work1, thread1, size, outs
  <2> QED
    BY <1>1, <1>2, <1>5, <1>10, <2>1
<1> QED
  BY <1>4, <1>11

LEMMA SameNativeWork ==
  ASSUME nativeUnchanged
  PROVE  NativeWork' = NativeWork /\ HeadSize' = HeadSize
BY DEF nativeUnchanged, coding, locals, threads, NativeWork, CoderWork, ThreadWork, Coding, HeadSize

LEMMA ResetWork ==
  ASSUME NativeTypeOK, NEW again, ResetUnderlying(again), NativeWork' \in Nat
  PROVE  NativeWork' <= NativeWork + 1 /\ HeadSize' = HeadSize
<1> DEFINE work1 == NativeWork'
           size == Size(inbuf)
           outs == Len(outbufs)
           ins == Len(inbufs)
<1>1. NativeWork \in Nat /\ NativeWork = 7 * size + CoderWork + 3 * outs + ins + ThreadWork
  BY WorkIsNatural DEF NativeWork
<1>2. CoderWork \in Nat /\ ThreadWork \in Nat /\ size \in Nat /\ outs \in Nat /\ ins \in Nat
  BY WorkIsNatural
<1>3. UNCHANGED <<inbufs, outbufs, inbuf, mutex, workers, finished, pc>> /\ coder' = FreshCoder
  BY DEF ResetUnderlying, locals, threads
<1>4. CoderWork' = 1
  <2>1. coder'.pending = {} /\ ~coder'.stuck /\ Cardinality({}) = 0
    BY <1>3, FS_EmptySet DEF FreshCoder
  <2> QED
    BY <2>1 DEF CoderWork
<1>5. ThreadWork' = ThreadWork /\ HeadSize' = HeadSize
  BY <1>3 DEF ThreadWork, Coding, HeadSize
<1>6. work1 = 7 * size + 1 + 3 * outs + ins + ThreadWork
  BY <1>3, <1>4, <1>5 DEF NativeWork
<1>7. work1 \in Nat
  OBVIOUS
<1> HIDE DEF work1, size, outs, ins
<1>8. work1 <= NativeWork + 1
  BY <1>1, <1>2, <1>6, <1>7
<1> QED
  BY <1>5, <1>8 DEF work1

LEMMA CleanupWork ==
  ASSUME NativeTypeOK, cleanup, NativeWork' \in Nat
  PROVE  NativeWork' <= NativeWork + 1 /\ HeadSize' = HeadSize
<1>1. CASE ResetUnderlying(FALSE)
  BY <1>1, ResetWork
<1>2. CASE nativeUnchanged
  <2>1. NativeWork \in Nat
    BY WorkIsNatural
  <2>2. NativeWork' = NativeWork /\ HeadSize' = HeadSize
    BY <1>2, SameNativeWork
  <2>3. NativeWork <= NativeWork + 1
    BY <2>1
  <2> QED
    BY <2>2, <2>3
<1> QED
  BY <1>1, <1>2 DEF cleanup

(* _transform turns a chunk into a smaller rest and a chunk in inbufs. *)
LEMMA TransformWork ==
  ASSUME TypeOK, inbufs = <<>>, NEW chunk \in Chunk, ~Empty(chunk), Transform(chunk, <<>>),
         NativeWork' \in Nat, HeadSize' \in Nat, RestSize' \in Nat
  PROVE  21 * RestSize' + 7 * HeadSize' + NativeWork' < 21 * Size(chunk) + NativeWork
<1> DEFINE work1 == NativeWork'
           head1 == HeadSize'
           rest1 == RestSize'
           piece == FirstPiece(chunk)
           data == IF isFinished THEN SkipLeadingZeroes(piece) ELSE piece
           all == Size(chunk)
           cut == Size(piece)
           code == Size(data)
           rest == Size(RestOf(chunk))
<1>1. job \in Jobs /\ NativeTypeOK /\ NativeWork \in Nat /\ HeadSize = 0
  BY WorkIsNatural DEF TypeOK, NativeTypeOK, HeadSize
<1>2. piece \in Chunk
  BY <1>1, PieceFacts
<1>3. cut \in Nat /\ rest \in Nat /\ cut + rest = all
  BY <1>1, PieceSizes
<1>4. code \in Nat /\ code <= cut
  <2>1. CASE isFinished
    BY <1>1, <1>2, <2>1, SkipSize
  <2>2. CASE ~isFinished
    <3>1. data = piece
      BY <2>2
    <3>2. code = cut
      BY <3>1
    <3> HIDE DEF code, cut
    <3> QED
      BY <1>3, <3>2
  <2> QED
    BY <2>1, <2>2
<1>5. all \in Nat /\ all >= 1
  BY <1>1, ChunkFacts DEF Empty, Size
<1>6. data \in Chunk
  BY <1>1, <1>2, SkipFacts
<1>7. ~Empty(data) => code >= 1
  BY <1>1, <1>6, ChunkFacts DEF Empty, Size
<1>8. work1 \in Nat /\ head1 \in Nat /\ rest1 \in Nat /\ NativeWork \in Nat
  BY <1>1
<1> SUFFICES 21 * rest1 + 7 * head1 + work1 < 21 * all + NativeWork
  OBVIOUS
<1>9. CASE nativeUnchanged /\ chunkCallbacks' = <<>>
  <2>1. rest1 = 0 /\ work1 = NativeWork /\ head1 = 0
    BY <1>1, <1>9, SameNativeWork DEF RestSize
  <2> HIDE DEF all, work1, head1, rest1
  <2> QED
    BY <1>5, <1>8, <2>1
<1>10. CASE /\ ~Empty(data) /\ Code(data, ~synchronous)
           /\ chunkCallbacks' = Append(<<>>, WriteCallback(RestOf(chunk)))
  <2>1. work1 <= NativeWork + 13 /\ head1 = code
    BY <1>1, <1>10, CodeWork
  <2>2. chunkCallbacks' # <<>> /\ Head(chunkCallbacks') = WriteCallback(RestOf(chunk))
    BY <1>10
  <2>3. rest1 = rest
    BY <2>2 DEF RestSize, WriteCallback
  <2>4. code >= 1
    BY <1>7, <1>10
  <2> HIDE DEF all, cut, code, rest, data, piece, work1, head1, rest1
  <2>5. 7 * code + 13 < 21 * cut
    BY <1>3, <1>4, <2>4
  <2> QED
    BY <1>3, <1>4, <1>5, <1>8, <2>1, <2>3, <2>5
<1> QED
  BY <1>9, <1>10 DEF Transform

LEMMA NativeTurnWork ==
  ASSUME IInv, Sizes, Sizes', NativeTurn, ~job.timeout
  PROVE  WorkLeft' < WorkLeft
<1> DEFINE left1 == WorkLeft'
           due1 == UnitsDue'
           rest1 == RestSize'
           head1 == HeadSize'
           work1 == NativeWork'
           flush1 == FlushDue'
           told == Len(calls)
           told1 == Len(calls')
<1>1. /\ UnitsDue \in Nat /\ RestSize \in Nat /\ HeadSize \in Nat /\ NativeWork \in Nat
      /\ told \in Nat /\ FlushDue \in Nat /\ WorkLeft \in Nat
      /\ WorkLeft = 21 * (UnitsDue + RestSize) + 7 * HeadSize + NativeWork + 2 * told + FlushDue
  BY DEF Sizes
<1>2. /\ due1 \in Nat /\ rest1 \in Nat /\ head1 \in Nat /\ work1 \in Nat
      /\ told1 \in Nat /\ flush1 \in Nat /\ left1 \in Nat
      /\ left1 = 21 * (due1 + rest1) + 7 * head1 + work1 + 2 * told1 + flush1
  BY DEF Sizes
<1>3. due1 = UnitsDue /\ rest1 = RestSize /\ flush1 = FlushDue
  BY DEF NativeTurn, callerVars, transformVars, streamVars, UnitsDue, RestSize, FlushDue
<1>4. NativeTypeOK /\ Locks
  BY TokenLocks DEF IInv, TypeOK
<1>5. CASE FetchChunk
  <2>1. HeadSize = Size(Head(inbufs)) /\ told1 = told /\ inbufs' = Tail(inbufs)
    BY <1>4, <1>5, FetchWork DEF HeadSize
  <2>2. work1 + 1 = NativeWork + 7 * HeadSize
    BY <1>4, <1>5, <2>1, FetchWork
  <2>3. Len(inbufs) = 1
    <3>1. inbufs # <<>> /\ Coding
      BY <1>5 DEF FetchChunk
    <3> QED
      BY <3>1, WorkingAlone DEF IInv
  <2>4. inbufs' = <<>>
    BY <1>4, <2>1, <2>3 DEF NativeTypeOK
  <2>5. head1 = 0
    BY <2>4 DEF HeadSize
  <2>6. told1 = told
    BY <2>1
  <2> DEFINE others == 21 * (UnitsDue + RestSize) + 2 * told + FlushDue
  <2>7. others \in Nat
    BY <1>1
  <2>8. WorkLeft = others + 7 * HeadSize + NativeWork
    BY <1>1
  <2>9. left1 = others + work1
    BY <1>1, <1>2, <1>3, <2>5, <2>6
  <2> HIDE DEF left1, due1, rest1, head1, work1, flush1, told, told1, others
  <2>10. left1 < WorkLeft
    BY <1>1, <1>2, <2>2, <2>7, <2>8, <2>9
  <2> QED
    BY <2>10 DEF left1
<1>6. CASE ~FetchChunk
  <2>1. work1 + 2 * told1 < NativeWork + 2 * told /\ inbufs' = inbufs
    BY <1>4, <1>6, NativeStepWork DEF NativeTurn
  <2>2. head1 = HeadSize
    BY <2>1 DEF HeadSize
  <2> HIDE DEF left1, due1, rest1, head1, work1, flush1, told, told1
  <2>3. left1 < WorkLeft
    BY <1>1, <1>2, <1>3, <2>1, <2>2
  <2> QED
    BY <2>3 DEF left1
<1> QED
  BY <1>5, <1>6

LEMMA StartWriteWork ==
  ASSUME IInv, Sizes, Sizes', StartWrite
  PROVE  WorkLeft' < WorkLeft
<1> DEFINE left1 == WorkLeft'
           due1 == UnitsDue'
           rest1 == RestSize'
           head1 == HeadSize'
           work1 == NativeWork'
           flush1 == FlushDue'
           told == Len(calls)
           told1 == Len(calls')
<1>1. /\ UnitsDue \in Nat /\ RestSize \in Nat /\ HeadSize \in Nat /\ NativeWork \in Nat
      /\ told \in Nat /\ FlushDue \in Nat /\ WorkLeft \in Nat
      /\ WorkLeft = 21 * (UnitsDue + RestSize) + 7 * HeadSize + NativeWork + 2 * told + FlushDue
  BY DEF Sizes
<1>2. /\ due1 \in Nat /\ rest1 \in Nat /\ head1 \in Nat /\ work1 \in Nat
      /\ told1 \in Nat /\ flush1 \in Nat /\ left1 \in Nat
      /\ left1 = 21 * (due1 + rest1) + 7 * head1 + work1 + 2 * told1 + flush1
  BY DEF Sizes
<1>3. ~writing /\ ~flushing /\ taken < written /\ taken' = written /\ written' = written
  BY DEF IInv, StartWrite, OneAtATime, TypeOK, callerVars
<1>4. inbufs = <<>> /\ chunkCallbacks = <<>> /\ calls' = calls /\ flushing' = flushing
  BY <1>3, HandOverIsClear DEF IInv, NoChunk, StartWrite
<1> DEFINE chunk == [lo |-> taken, hi |-> written]
<1>5. taken \in Nat /\ written \in Nat /\ TypeOK /\ job \in Jobs /\ written <= Len(File)
  BY FileFacts DEF IInv, TypeOK, NativeTypeOK
<1>6. chunk \in Chunk /\ ~Empty(chunk)
  BY <1>3, <1>5, MakeChunk DEF Empty
<1>7. Size(chunk) = UnitsDue
  BY DEF Size, UnitsDue
<1>8. Transform(chunk, <<>>)
  BY <1>4 DEF StartWrite
<1> HIDE DEF chunk
<1>9. NativeWork' \in Nat /\ HeadSize' \in Nat /\ RestSize' \in Nat
  BY <1>2
<1>10. 21 * rest1 + 7 * head1 + work1 < 21 * UnitsDue + NativeWork
  BY <1>4, <1>5, <1>6, <1>7, <1>8, <1>9, TransformWork
<1>11. due1 = 0
  BY <1>3, <1>5 DEF UnitsDue
<1>12. RestSize = 0 /\ HeadSize = 0 /\ told1 = told /\ flush1 = FlushDue
  BY <1>4 DEF RestSize, HeadSize, FlushDue
<1> HIDE DEF left1, due1, rest1, head1, work1, flush1, told, told1
<1>13. left1 < WorkLeft
  BY <1>1, <1>2, <1>10, <1>11, <1>12
<1> QED
  BY <1>13 DEF left1

LEMMA FlushWork ==
  ASSUME IInv, Sizes, Sizes', Flush
  PROVE  WorkLeft' < WorkLeft
<1> DEFINE left1 == WorkLeft'
           due1 == UnitsDue'
           rest1 == RestSize'
           head1 == HeadSize'
           work1 == NativeWork'
           flush1 == FlushDue'
           told == Len(calls)
           told1 == Len(calls')
<1>1. /\ UnitsDue \in Nat /\ RestSize \in Nat /\ HeadSize \in Nat /\ NativeWork \in Nat
      /\ told \in Nat /\ FlushDue \in Nat /\ WorkLeft \in Nat
      /\ WorkLeft = 21 * (UnitsDue + RestSize) + 7 * HeadSize + NativeWork + 2 * told + FlushDue
  BY DEF Sizes
<1>2. /\ due1 \in Nat /\ rest1 \in Nat /\ head1 \in Nat /\ work1 \in Nat
      /\ told1 \in Nat /\ flush1 \in Nat /\ left1 \in Nat
      /\ left1 = 21 * (due1 + rest1) + 7 * head1 + work1 + 2 * told1 + flush1
  BY DEF Sizes
<1>3. /\ ~writing /\ ~flushing /\ flushing' = TRUE
      /\ UNCHANGED <<taken, written, calls>>
  BY DEF Flush, callerVars
<1>4. inbufs = <<>> /\ chunkCallbacks = <<>> /\ NativeTypeOK
  BY <1>3, HandOverIsClear DEF IInv, NoChunk, TypeOK
<1>5. RestSize = 0 /\ HeadSize = 0 /\ told1 = told /\ FlushDue = 14 /\ flush1 = 0 /\ due1 = UnitsDue
  BY <1>3, <1>4 DEF RestSize, HeadSize, FlushDue, UnitsDue
<1>6. work1 <= NativeWork + 13 /\ head1 = 0 /\ rest1 = 0
  <2>1. NativeWork' \in Nat /\ NativeWork <= NativeWork + 13
    BY <1>1, <1>2
  <2>2. CASE cleanup /\ UNCHANGED chunkCallbacks
    <3>1. work1 <= NativeWork + 1 /\ head1 = 0
      BY <1>4, <1>5, <2>1, <2>2, CleanupWork
    <3>2. rest1 = 0
      BY <1>4, <2>2 DEF RestSize
    <3> HIDE DEF work1
    <3>3. work1 <= NativeWork + 13
      BY <1>1, <1>2, <3>1
    <3> QED
      BY <3>1, <3>2, <3>3
  <2>3. CASE nativeUnchanged /\ UNCHANGED chunkCallbacks
    <3>1. work1 = NativeWork /\ head1 = 0
      BY <1>5, <2>3, SameNativeWork
    <3>2. rest1 = 0
      BY <1>4, <2>3 DEF RestSize
    <3> QED
      BY <2>1, <3>1, <3>2
  <2>4. CASE Code(NoInput, ~synchronous) /\ chunkCallbacks' = Append(chunkCallbacks, FlushCallback)
    <3>1. work1 <= NativeWork + 13 /\ head1 = Size(NoInput)
      BY <1>4, <2>1, <2>4, CodeWork
    <3>2. chunkCallbacks' # <<>> /\ Head(chunkCallbacks') = FlushCallback
      BY <1>4, <2>4
    <3>3. Size(NoInput) = 0 /\ rest1 = Size(NoInput)
      BY <3>2 DEF RestSize, FlushCallback, NoInput, Size
    <3> QED
      BY <3>1, <3>3
  <2> QED
    BY <2>2, <2>3, <2>4 DEF Flush
<1> HIDE DEF left1, due1, rest1, head1, work1, flush1, told, told1
<1>7. left1 < WorkLeft
  BY <1>1, <1>2, <1>5, <1>6
<1> QED
  BY <1>7 DEF left1

LEMMA ImmediatesWork ==
  ASSUME IInv, Sizes, Sizes', Immediates
  PROVE  WorkLeft' < WorkLeft
<1> DEFINE left1 == WorkLeft'
           due1 == UnitsDue'
           rest1 == RestSize'
           head1 == HeadSize'
           work1 == NativeWork'
           flush1 == FlushDue'
           told == Len(calls)
           told1 == Len(calls')
<1>1. /\ UnitsDue \in Nat /\ RestSize \in Nat /\ HeadSize \in Nat /\ NativeWork \in Nat
      /\ told \in Nat /\ FlushDue \in Nat /\ WorkLeft \in Nat
      /\ WorkLeft = 21 * (UnitsDue + RestSize) + 7 * HeadSize + NativeWork + 2 * told + FlushDue
  BY DEF Sizes
<1>2. /\ due1 \in Nat /\ rest1 \in Nat /\ head1 \in Nat /\ work1 \in Nat
      /\ told1 \in Nat /\ flush1 \in Nat /\ left1 \in Nat
      /\ left1 = 21 * (due1 + rest1) + 7 * head1 + work1 + 2 * told1 + flush1
  BY DEF Sizes
<1>3. NativeTypeOK /\ TypeOK /\ NativeWork' \in Nat /\ HeadSize' \in Nat /\ RestSize' \in Nat
  BY <1>2 DEF IInv, TypeOK
<1>4. told1 + 1 = told
  <2>1. calls # <<>> /\ calls' = Tail(calls)
    BY DEF Immediates, Immediate, OnError, OnBuffer, OnStreamEnd, OnNumber
  <2> QED
    BY <1>3, <2>1 DEF NativeTypeOK
<1>5. due1 = UnitsDue /\ flush1 = FlushDue
  BY DEF Immediates, OnError, OnBuffer, OnStreamEnd, OnNumber, callerVars, transformVars,
     UnitsDue, FlushDue
<1>6. cleanup \/ nativeUnchanged \/ (\E again : ResetUnderlying(again)) =>
        work1 <= NativeWork + 1 /\ head1 = HeadSize
  <2>1. CASE cleanup
    BY <1>3, <2>1, CleanupWork
  <2>2. CASE nativeUnchanged
    <3>1. work1 = NativeWork /\ head1 = HeadSize
      BY <2>2, SameNativeWork
    <3>2. NativeWork <= NativeWork + 1
      BY <1>1
    <3> QED
      BY <3>1, <3>2
  <2>3. CASE \E again : ResetUnderlying(again)
    BY <1>3, <2>3, ResetWork
  <2> QED
    BY <2>1, <2>2, <2>3
<1>7. CASE OnError \/ OnBuffer \/ OnStreamEnd
  <2>1. chunkCallbacks' = chunkCallbacks
    BY <1>7 DEF OnError, OnBuffer, OnStreamEnd, streamVars
  <2>2. rest1 = RestSize
    BY <2>1 DEF RestSize
  <2>3. cleanup \/ nativeUnchanged \/ (\E again : ResetUnderlying(again))
    BY <1>7 DEF OnError, OnBuffer, OnStreamEnd, restart
  <2>4. work1 <= NativeWork + 1 /\ head1 = HeadSize
    BY <1>6, <2>3
  <2> HIDE DEF left1, due1, rest1, head1, work1, flush1, told, told1
  <2>5. left1 < WorkLeft
    BY <1>1, <1>2, <1>4, <1>5, <2>2, <2>4
  <2> QED
    BY <2>5 DEF left1
<1>8. CASE OnNumber
  <2> DEFINE callback == Head(chunkCallbacks)
             rest == callback.rest
             size == Size(rest)
             gone == SubSeq(chunkCallbacks, Head(calls).n + 1, Len(chunkCallbacks))
  <2>1. Len(chunkCallbacks) = 1 /\ Reported /\ Head(calls).n = 1
    <3>1. Immediate("number")
      BY <1>8 DEF OnNumber
    <3> QED
      BY <3>1, ImmediateFinds DEF IInv
  <2>2. inbufs = <<>> /\ chunkCallbacks # <<>>
    BY <2>1 DEF Reported
  <2>3. HeadSize = 0 /\ RestSize = size
    BY <2>2 DEF HeadSize, RestSize
  <2>4. gone = <<>>
    BY <1>3, <2>1 DEF TypeOK
  <2>5. rest \in Chunk
    <3>1. callback \in Callback
      BY <1>3, <2>2 DEF TypeOK
    <3> QED
      BY <3>1 DEF Callback
  <2> HIDE DEF callback, gone
  <2>6. CASE Transform(rest, gone) /\ ~Empty(rest)
    <3>1. 21 * rest1 + 7 * head1 + work1 < 21 * size + NativeWork
      BY <1>3, <2>2, <2>4, <2>5, <2>6, TransformWork
    <3> HIDE DEF left1, due1, rest1, head1, work1, flush1, told, told1, size
    <3>2. left1 < WorkLeft
      BY <1>1, <1>2, <1>4, <1>5, <2>3, <3>1
    <3> QED
      BY <3>2 DEF left1
  <2>7. CASE (nativeUnchanged \/ cleanup) /\ chunkCallbacks' = gone
    <3>1. work1 <= NativeWork + 1 /\ head1 = 0
      BY <1>6, <2>3, <2>7
    <3>2. rest1 = 0
      BY <2>4, <2>7 DEF RestSize
    <3> HIDE DEF left1, due1, rest1, head1, work1, flush1, told, told1, size
    <3>3. left1 < WorkLeft
      BY <1>1, <1>2, <1>4, <1>5, <2>3, <3>1, <3>2
    <3> QED
      BY <3>3 DEF left1
  <2> QED
    BY <1>8, <2>6, <2>7 DEF OnNumber, callback, gone
<1> QED
  BY <1>7, <1>8 DEF Immediates

LEMMA StaysNotAhead == IInv /\ NotAhead /\ [Next]_vars => NotAhead'
<1> SUFFICES ASSUME IInv, NotAhead, [Next]_vars PROVE NotAhead'
  OBVIOUS
<1>1. written \in Nat /\ taken \in Nat
  BY FileFacts DEF IInv, TypeOK, NativeTypeOK
<1>2. CASE StartWrite
  BY <1>1, <1>2 DEF StartWrite, callerVars, NotAhead
<1>3. CASE Write
  <2>1. taken' = taken /\ written' \in Nat /\ written < written'
    <3>1. PICK cut \in job.cuts : written < cut /\ written' = cut
      BY <1>3 DEF Write
    <3>2. cut \in Nat
      BY FileFacts, JobsAssumption DEF IInv, TypeOK, NativeTypeOK, IsJob
    <3> QED
      BY <1>3, <3>1, <3>2 DEF Write, transformVars
  <2> QED
    BY <1>1, <2>1 DEF NotAhead
<1>4. CASE ~StartWrite /\ ~Write
  <2>1. UNCHANGED <<written, taken>>
    BY <1>4 DEF Next, EndInput, AssignBufsize, ReadBufsize, Flush, Immediates, OnError, OnBuffer,
       OnStreamEnd, OnNumber, NativeTurn, Rest, vars, callerVars, transformVars
  <2> QED
    BY <2>1 DEF NotAhead
<1> QED
  BY <1>2, <1>3, <1>4

LEMMA WorkIsMeasured == Spec => [](IInv /\ NotAhead /\ Sizes)
<1>1. Init => NotAhead
  BY DEF Init, NotAhead
<1>2. IInv /\ NotAhead => Sizes
  BY WorkLeftIs DEF IInv
<1> QED
  BY <1>1, <1>2, Inductive, StaysNotAhead, PTL DEF Spec

(* Every step that is taken without new input uses up work: neither the    *)
(* coding loop nor the passing on of 'YZ' pieces nor the setting up of     *)
(* decoders again can go on for ever on the input that was written.        *)
THEOREM StreamRunsOut == Spec => WorkRunsOut
<1>1. IInv /\ Sizes /\ Sizes' /\ [Next]_vars
        => [~job.timeout => WorkLeft' \in 0 .. WorkLeft - 1]_workVars
  <2> SUFFICES ASSUME IInv, Sizes, Sizes', Next, ~job.timeout, ~UNCHANGED workVars
               PROVE  WorkLeft' \in 0 .. WorkLeft - 1
    BY DEF vars, workVars, nativeVars, settings
  <2>1. StartWrite \/ Flush \/ Immediates \/ NativeTurn
    <3>1. ~Rest
      BY DEF Rest, vars, nativeVars, settings, workVars
    <3>2. ~Write /\ ~EndInput
      BY DEF Write, EndInput, nativeVars, settings, workVars
    <3>3. ~AssignBufsize /\ ~ReadBufsize
      BY DEF AssignBufsize, ReadBufsize, SetBufsize, workVars
    <3> QED
      BY <3>1, <3>2, <3>3 DEF Next
  <2>2. WorkLeft' < WorkLeft
    BY <2>1, StartWriteWork, FlushWork, ImmediatesWork, NativeTurnWork
  <2> DEFINE left1 == WorkLeft'
  <2>3. left1 \in Nat /\ WorkLeft \in Nat /\ left1 < WorkLeft
    BY <2>2 DEF Sizes
  <2> SUFFICES left1 \in 0 .. WorkLeft - 1
    OBVIOUS
  <2> HIDE DEF left1
  <2> QED
    BY <2>3
<1> QED
  BY <1>1, WorkIsMeasured, PTL DEF Spec, WorkRunsOut

=============================================================================
