---------------------------- MODULE JSLzmaStream ----------------------------
(***************************************************************************)
(* The Transform stream that createStream returns (class JSLzmaStream in   *)
(* index.js) on top of the native object of module LZMAStream.             *)
(*                                                                         *)
(* The event loop runs one callback at a time: every action below is one   *)
(* of them, and needs the main thread outside of the native object         *)
(* (pc = "idle").  The base class (readable-stream) is modelled by its     *)
(* contract: one _transform at a time, what was written meanwhile is       *)
(* handed over in one piece through _writev, _flush follows the last chunk.*)
(***************************************************************************)
EXTENDS LZMAStream, Integers

CONSTANTS
  Modes,         \* the values options.synchronous may have
  NewSizes,      \* what the caller may assign to bufsize
  ReadsBufsize   \* the caller reads bufsize

ASSUME StreamAssumption ==
  /\ Modes \subseteq BOOLEAN
  /\ NewSizes \subseteq 1 .. MaxVector /\ ReadsBufsize \in BOOLEAN

VARIABLES
  synchronous,      \* set by the constructor
  written,          \* the caller wrote the units 1 .. written
  taken,            \* of these, 1 .. taken were given to _transform
  endCalled,        \* the caller called end()
  writing,          \* a _transform has not called back yet
  flushing,         \* _flush was called
  flushed,          \* _flush has called back
  chunkCallbacks, isFinished, writingLastChunk,
  nativeStream,     \* this.nativeStream # null
  pushed,           \* the payload given to push()
  eof,              \* push(null) was called
  errors,           \* emitted 'error' events
  countedCleanup, curAsyncStreamsCount

callerVars == <<written, endCalled, synchronous>>
transformVars == <<taken, writing, flushing, flushed>>
outputVars == <<pushed, eof, errors>>
countVars == <<countedCleanup, curAsyncStreamsCount>>
streamVars == <<chunkCallbacks, isFinished, writingLastChunk, nativeStream>>
vars == <<nativeVars, callerVars, transformVars, outputVars, countVars, streamVars>>

-----------------------------------------------------------------------------
(* bufferIndexOfYZ and skipLeadingZeroes *)

Smallest(S) == CHOOSE x \in S : \A y \in S : x <= y

IndexOfYZ(chunk) ==
  {u \in (chunk.lo + 1) .. (chunk.hi - 1) : File[u] = "Y" /\ File[u + 1] = "Z"}

(* Mutation: chunks are not split. *)
FirstPiece_Whole(chunk) == chunk

(* The chunk up to the end of its first 'YZ', and what follows. *)
FirstPiece(chunk) ==
  IF IndexOfYZ(chunk) = {} THEN chunk
  ELSE [chunk EXCEPT !.hi = Smallest(IndexOfYZ(chunk)) + 1]

(* Mutation: the rest begins with the footer that was found. *)
RestOf_WithFooter(chunk) ==
  [lo |-> IF IndexOfYZ(chunk) = {} THEN chunk.hi ELSE FirstPiece(chunk).hi - 2, hi |-> chunk.hi]

RestOf(chunk) == [lo |-> FirstPiece(chunk).hi, hi |-> chunk.hi]

(* Mutation: padding is handed to the coder. *)
SkipLeadingZeroes_None(chunk) == chunk

SkipLeadingZeroes(chunk) ==
  [chunk EXCEPT !.lo =
     Smallest({l \in chunk.lo .. chunk.hi : l = chunk.hi \/ File[l + 1] # "zero"})]

-----------------------------------------------------------------------------
(* cleanup, with the counting wrapper of asynchronous streams *)

(* Mutation: a second cleanup counts again. *)
countDown_Again ==
  IF synchronous THEN UNCHANGED countVars
  ELSE countedCleanup' = TRUE /\ curAsyncStreamsCount' = curAsyncStreamsCount - 1

(* Mutation: the flag is set, the count is not. *)
countDown_FlagOnly ==
  IF synchronous THEN UNCHANGED countVars
  ELSE countedCleanup' = TRUE /\ UNCHANGED curAsyncStreamsCount

countDown ==
  IF synchronous THEN UNCHANGED countVars
  ELSE /\ countedCleanup' = TRUE
       /\ curAsyncStreamsCount' =
            IF countedCleanup THEN curAsyncStreamsCount ELSE curAsyncStreamsCount - 1

nativeUnchanged == UNCHANGED <<coding, settings, locals, threads>>

(* Mutation: the native object is dropped without a reset. *)
cleanup_KeepsCoder ==
  /\ nativeStream' = FALSE
  /\ countDown
  /\ nativeUnchanged

cleanup ==
  /\ nativeStream' = FALSE
  /\ countDown
  /\ IF nativeStream THEN ResetUnderlying(FALSE) ELSE nativeUnchanged

(* Mutation: _restart forgets to set up the new coder. *)
restart_OnlyResets == ResetUnderlying(FALSE)

(* _restart of a stream or auto decoder: the same coder once more.         *)
restart == ResetUnderlying(TRUE)

-----------------------------------------------------------------------------
(* _transform *)

WriteCallback(rest) == [kind |-> "write", rest |-> rest]
FlushCallback == [kind |-> "flush", rest |-> NoInput]

(* Mutation: the callback of the base class is called at once. *)
Transform_CallsBackAtOnce(chunk, chunks) ==
  /\ nativeStream
  /\ writing' = FALSE /\ isFinished' = FALSE
  /\ chunkCallbacks' = Append(chunks, WriteCallback(RestOf(chunk)))
  /\ Code(FirstPiece(chunk), ~synchronous)

(* The caller of Transform is the base class, or the callback of the piece *)
(* before; chunks is chunkCallbacks without that callback.  A piece in     *)
(* front of a rest ends in 'YZ', so a piece of zeroes only has no rest and *)
(* its callback ends the write.  The catch around code() (170-175) is left *)
(* out: code() throws for what is no Buffer, and the base class hands over *)
(* nothing else.                                                           *)
Transform(chunk, chunks) ==
  LET piece == FirstPiece(chunk)
      data  == IF isFinished THEN SkipLeadingZeroes(piece) ELSE piece
  IN \/ /\ ~nativeStream        \* returns without calling back
        /\ writing' = TRUE
        /\ chunkCallbacks' = chunks
        /\ UNCHANGED isFinished
        /\ nativeUnchanged
     \/ /\ nativeStream /\ Empty(data)
        /\ writing' = FALSE
        /\ chunkCallbacks' = chunks
        /\ UNCHANGED isFinished
        /\ nativeUnchanged
     \/ /\ nativeStream /\ ~Empty(data)
        /\ writing' = TRUE
        /\ isFinished' = FALSE
        /\ chunkCallbacks' = Append(chunks, WriteCallback(RestOf(chunk)))
        /\ Code(data, ~synchronous)

(* The base class hands over everything that was written. *)
StartWrite ==
  /\ pc = "idle" /\ ~writing
  /\ taken < written
  /\ taken' = written
  /\ Transform([lo |-> taken, hi |-> written], chunkCallbacks)
  /\ UNCHANGED <<calls, callerVars, flushing, flushed, writingLastChunk,
                 nativeStream, outputVars, countVars>>

(* _flush, after the last write; with a finished coder nothing is left. *)
Flush ==
  /\ pc = "idle" /\ ~writing /\ ~flushing
  /\ endCalled /\ taken = written
  /\ flushing' = TRUE /\ writingLastChunk' = TRUE
  /\ \/ /\ isFinished
        /\ cleanup
        /\ flushed' = TRUE /\ eof' = TRUE
        /\ UNCHANGED chunkCallbacks
     \/ /\ ~isFinished /\ ~nativeStream
        /\ nativeUnchanged
        /\ UNCHANGED <<flushed, eof, chunkCallbacks, nativeStream, countVars>>
     \/ /\ ~isFinished /\ nativeStream
        /\ chunkCallbacks' = Append(chunkCallbacks, FlushCallback)
        /\ Code(NoInput, ~synchronous)
        /\ UNCHANGED <<flushed, eof, nativeStream, countVars>>
  /\ UNCHANGED <<calls, callerVars, taken, writing, isFinished, pushed, errors>>

-----------------------------------------------------------------------------
(* The immediates that bufferHandler posts *)

Immediate(kind) ==
  /\ pc = "idle"
  /\ calls # <<>> /\ Head(calls).kind = kind
  /\ calls' = Tail(calls)

(* cleanup listens for the first 'error-cleanup' only. *)
OnError ==
  /\ Immediate("error")
  /\ eof' = TRUE /\ errors' = errors + 1
  /\ IF errors = 0 THEN cleanup
     ELSE nativeUnchanged /\ UNCHANGED <<nativeStream, countVars>>
  /\ UNCHANGED <<callerVars, transformVars, pushed, chunkCallbacks, isFinished,
                 writingLastChunk>>

(* push() after the end of the stream is refused by the base class. *)
OnBuffer ==
  /\ Immediate("buf")
  /\ pushed' = IF eof THEN pushed ELSE pushed \cup Head(calls).out
  /\ nativeUnchanged
  /\ UNCHANGED <<callerVars, transformVars, eof, errors, countVars, streamVars>>

(* A coder has come to its end: there may be another member. *)
OnStreamEnd ==
  /\ Immediate("null")
  /\ \/ /\ writingLastChunk
        /\ eof' = TRUE
        /\ nativeUnchanged /\ UNCHANGED isFinished
     \/ /\ ~writingLastChunk
        /\ isFinished' = TRUE
        /\ \/ /\ nativeStream /\ job.restartable
              /\ restart
              /\ UNCHANGED eof
           \/ /\ ~(nativeStream /\ job.restartable)
              /\ eof' = TRUE
              /\ nativeUnchanged
  /\ UNCHANGED <<callerVars, transformVars, pushed, errors, countVars,
                 chunkCallbacks, writingLastChunk, nativeStream>>

(* processedChunks callbacks are due; the guard is the assertion of the    *)
(* code.  There is never more than one of them (OneChunkOutstanding), so   *)
(* the loop runs the first.                                                *)
OnNumber ==
  /\ Immediate("number")
  /\ Head(calls).n \in 1 .. Len(chunkCallbacks)
  /\ LET left == SubSeq(chunkCallbacks, Head(calls).n + 1, Len(chunkCallbacks))
         callback == Head(chunkCallbacks)
     IN \/ /\ callback.kind = "write" /\ ~Empty(callback.rest)
           /\ Transform(callback.rest, left)
           /\ UNCHANGED <<flushed, eof, nativeStream, countVars>>
        \/ /\ callback.kind = "write" /\ Empty(callback.rest)
           /\ writing' = FALSE
           /\ chunkCallbacks' = left
           /\ nativeUnchanged
           /\ UNCHANGED <<flushed, eof, isFinished, nativeStream, countVars>>
        \/ /\ callback.kind = "flush"
           /\ cleanup
           /\ chunkCallbacks' = left
           /\ flushed' = TRUE /\ eof' = TRUE
           /\ UNCHANGED <<writing, isFinished>>
  /\ UNCHANGED <<callerVars, taken, flushing, writingLastChunk, pushed, errors>>

-----------------------------------------------------------------------------
(* The caller *)

Write ==
  /\ pc = "idle" /\ ~endCalled
  /\ \E cut \in job.cuts : written < cut /\ written' = cut
  /\ UNCHANGED <<nativeVars, endCalled, synchronous, transformVars, outputVars, countVars, streamVars>>

EndInput ==
  /\ pc = "idle" /\ ~endCalled
  /\ written = Len(File)
  /\ endCalled' = TRUE
  /\ UNCHANGED <<nativeVars, written, synchronous, transformVars, outputVars, countVars, streamVars>>

(* set bufsize *)
AssignBufsize ==
  /\ nativeStream
  /\ \E n \in NewSizes : SetBufsize(n)
  /\ UNCHANGED <<calls, callerVars, transformVars, outputVars, countVars, streamVars>>

(* get bufsize: setBufsize(null) returns the old value. *)
ReadBufsize ==
  /\ ReadsBufsize /\ nativeStream
  /\ SetBufsize(SizeMax)
  /\ UNCHANGED <<calls, callerVars, transformVars, outputVars, countVars, streamVars>>

NativeTurn ==
  /\ NativeStep
  /\ UNCHANGED <<callerVars, transformVars, outputVars, countVars, streamVars>>

(* Nothing is left to do: the stream has failed, or has called back from   *)
(* _flush, or the process is gone.                                         *)
Over == errors > 0 \/ flushed \/ pc = "aborted"

Rest == Over /\ UNCHANGED vars

-----------------------------------------------------------------------------

Init ==
  /\ NativeInit
  /\ synchronous \in Modes
  /\ written = 0 /\ taken = 0 /\ endCalled = FALSE
  /\ writing = FALSE /\ flushing = FALSE /\ flushed = FALSE
  /\ chunkCallbacks = <<>> /\ isFinished = FALSE /\ writingLastChunk = FALSE
  /\ nativeStream = TRUE
  /\ pushed = {} /\ eof = FALSE /\ errors = 0
  /\ countedCleanup = FALSE
  /\ curAsyncStreamsCount = IF synchronous THEN 0 ELSE 1

Immediates == OnError \/ OnBuffer \/ OnStreamEnd \/ OnNumber

Next ==
  \/ Write \/ EndInput \/ AssignBufsize \/ ReadBufsize
  \/ StartWrite \/ Flush \/ Immediates
  \/ NativeTurn \/ Rest

Spec == Init /\ [][Next]_vars

(* The event loop and the thread pool keep running and the reader keeps    *)
(* reading; nothing is assumed of the one who writes.                      *)
FairSpec ==
  /\ Spec
  /\ WF_vars(StartWrite) /\ WF_vars(Flush)
  /\ WF_vars(Immediates) /\ WF_vars(NativeTurn)

Callback == [kind : {"write", "flush"}, rest : Chunk]

TypeOK ==
  /\ NativeTypeOK
  /\ synchronous \in BOOLEAN
  /\ written \in 0 .. Len(File) /\ taken \in 0 .. Len(File)
  /\ endCalled \in BOOLEAN /\ writing \in BOOLEAN
  /\ flushing \in BOOLEAN /\ flushed \in BOOLEAN
  /\ chunkCallbacks \in Seq(Callback)
  /\ isFinished \in BOOLEAN /\ writingLastChunk \in BOOLEAN
  /\ nativeStream \in BOOLEAN
  /\ pushed \in SUBSET Units /\ eof \in BOOLEAN /\ errors \in Nat
  /\ countedCleanup \in BOOLEAN /\ curAsyncStreamsCount \in Int

-----------------------------------------------------------------------------
(* Safety *)

Numbers == {i \in DOMAIN calls : calls[i].kind = "number"}

(* Every chunk given to code() is in exactly one place: waiting in inbufs, *)
(* read by the coding loop, counted in processedChunks, or reported by a   *)
(* bufferHandler call that is still to be served; one entry of             *)
(* chunkCallbacks stands for it.  This is what makes the assertion of      *)
(* index.js line 79 hold and every callback run exactly once.              *)
ChunkConservation ==
  /\ \A i \in Numbers : calls[i].n = 1
  /\ Len(chunkCallbacks) =
       Len(inbufs) + readChunks + processedChunks + Cardinality(Numbers)

(* The base class keeps at most one chunk with the native object; the      *)
(* native queues are made for more, the handlers are not.                  *)
OneChunkOutstanding == Len(chunkCallbacks) <= 1

(* invokeBufferHandlers drops the lock around each call of bufferHandler   *)
(* and ends in resetUnderlying: no worker may get in between, its counts   *)
(* and its result would be wiped.                                          *)
HandlersUndisturbed ==
  pc \in {"outbufs", "chunks", "reset"} =>
    workers = 0 /\ finished = 0 /\ mutex # "worker"

(* Once push(null) was called no output is on its way any more. *)
NothingAfterEof ==
  eof => /\ outbufs = <<>>
         /\ \A i \in DOMAIN calls : calls[i].kind # "buf"

(* A stream that has let go of its native object has freed the coder, and  *)
(* no thread is at work on it.                                             *)
ReleasedAtCleanup ==
  ~nativeStream => /\ ~internal
                   /\ workers = 0 /\ finished = 0 /\ mutex = "free"

(* curAsyncStreamsCount counts the streams that hold a native object. *)
AsyncCountExact ==
  curAsyncStreamsCount = IF nativeStream /\ ~synchronous THEN 1 ELSE 0

(* A restartable decoder, or an encoder, has a coder whenever the loop is  *)
(* entered, also behind the end of a member.                               *)
CoderAtHand == Coding /\ (Decoder => job.restartable) => internal

(* A stream that ends without an error has delivered the whole payload. *)
NoSilentLoss == eof /\ errors = 0 => pushed = Payload

(* The members of the input are whole, with nothing but zeroes around      *)
(* them; a decoder of a single member does not look behind it.             *)
WellFormed ==
  Decoder => /\ Ends # {}
             /\ \A u \in Units :
                  /\ File[u] \in {"head", "data"} => \E e \in Ends : u <= e
                  /\ File[u] = "junk" => ~job.restartable /\ \A e \in Ends : e < u

(* Where the payload is safe: the multi-threaded encoder has no timeout; a *)
(* member that something may follow ends in 'YZ', not parted by a cut,     *)
(* where the chunk is split; a coder for a single member gets one.         *)
Sound(j) ==
  /\ ~j.timeout
  /\ j.decoder /\ j.restartable =>
       \A e \in j.ends :
         \/ e = Len(j.units)
         \/ /\ e > 1 /\ j.units[e - 1] = "Y" /\ j.units[e] = "Z"
            /\ e - 1 \notin j.cuts
  /\ j.decoder /\ ~j.restartable =>
       \A e \in j.ends :
         /\ j.ends = {e}
         /\ \A u \in DOMAIN j.units : u > e => j.units[u] \notin {"head", "data"}

SoundJob == Sound(job)

(* The input, and what follows a member and its padding, begins with a     *)
(* header.                                                                 *)
Begins(j) ==
  j.decoder =>
    /\ j.units # <<>> => j.units[1] = "head"
    /\ j.restartable =>
         \A e \in j.ends, u \in DOMAIN j.units :
           e < u /\ j.units[u] # "zero" /\ (\A v \in (e + 1) .. (u - 1) : j.units[v] = "zero")
             => j.units[u] = "head"

MembersBegin == Begins(job)

(* Well-formed input is coded without an error, however it is cut into     *)
(* chunks and padded: no coder ever sees what is not meant for it.         *)
GoodInputAccepted ==
  WellFormed /\ ~job.canFail =>
    /\ errors = 0
    /\ \A i \in DOMAIN calls : calls[i].kind # "error"

-----------------------------------------------------------------------------
(* What the stream implements *)

Pipe == INSTANCE BytePipe WITH
  payload <- Payload, wellFormed <- WellFormed,
  out <- pushed,
  status <- IF errors > 0 THEN "failed" ELSE IF eof THEN "ended" ELSE "open"

(* Payload comes out in order and without gaps, and the end is the end. *)
ImplementsBytePipe == Pipe!Spec

-----------------------------------------------------------------------------
(* Liveness *)

(* A decoder that cannot be restarted, and input behind its member. *)
MoreForNoCoder ==
  /\ Decoder /\ ~job.restartable
  /\ \E u \in Units : \A e \in Ends : e < u

(* test/stream.js 509-513 reads bufsize as if that were without effect:    *)
(* once the caller has called end(), the stream calls back from _flush or  *)
(* reports an error.                                                       *)
EndsAlways == endCalled /\ ~MoreForNoCoder ~> Over

(* The same while nobody has read bufsize, so that the next output vector  *)
(* can be made.                                                            *)
EndsEventually == [](bufsize <= MaxVector) => EndsAlways

(* A stream that has failed or ended is no longer counted as open.         *)
OverIsCountedDown == errors > 0 \/ flushed ~> curAsyncStreamsCount = 0

(* What the base class and the callbacks have still to give to code(), and *)
(* all that follows from it; a write that the caller has yet to make is no *)
(* part of it.                                                             *)
UnitsToCome ==
  (written - taken) + (IF chunkCallbacks = <<>> THEN 0 ELSE Size(Head(chunkCallbacks).rest))

WorkLeft ==
  21 * UnitsToCome + 7 * (IF inbufs = <<>> THEN 0 ELSE Size(Head(inbufs))) + NativeWork
    + 2 * Len(calls) + (IF flushing THEN 0 ELSE 14)

workVars == <<coding, shouldFinish, locals, threads, calls, transformVars, outputVars,
              countVars, streamVars>>

(* The stream does not run in circles: whatever the coder answers, in      *)
(* whatever order threads and immediates take their turns, and however     *)
(* often a decoder is set up again, every step uses up some of the work    *)
(* that the input has brought, until the caller writes more (the loops of  *)
(* lzma-stream.cpp 213-287 and of index.js 144-181, 76-95).                *)
WorkRunsOut == [][~job.timeout => WorkLeft' \in 0 .. WorkLeft - 1]_workVars

(* The guards of FairSpec's actions. *)
SomebodyIsDue ==
  \/ NativeIsDue
  \/ /\ pc = "idle"
     /\ \/ /\ calls # <<>>
           /\ Head(calls).kind = "number" => Head(calls).n \in 1 .. Len(chunkCallbacks)
        \/ ~writing /\ taken < written
        \/ ~writing /\ ~flushing /\ endCalled /\ taken = written

(* Nothing that was written waits for a turn that nobody will take: until  *)
(* the stream is over, some thread or callback is due as long as a write   *)
(* or the flush has not called back.                                       *)
Unanswered == writing \/ taken < written \/ endCalled

NeverStranded ==
  (Decoder => job.restartable) /\ Unanswered /\ ~Over => SomebodyIsDue

(* ... while nobody has read bufsize, see EndsEventually. *)
NobodyWaitsInVain == [](bufsize <= MaxVector) => []NeverStranded

(* All asynchronous streams that have been ended are counted down (the     *)
(* check at the end of test/stream.js, lines 580-585).                     *)
CountedDown == endCalled ~> curAsyncStreamsCount = 0

=============================================================================
