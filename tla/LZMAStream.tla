----------------------------- MODULE LZMAStream -----------------------------
(***************************************************************************)
(* The native stream object (class LZMAStream, src/lzma-stream.cpp and     *)
(* src/liblzma-node.hpp) with the asynchronous worker that drives it.      *)
(*                                                                         *)
(* Input is the sequence File of units; a chunk is an interval of it, so a *)
(* unit keeps its identity on its way through the queues.  An output chunk *)
(* is the set of payload units whose coded form it carries: within one     *)
(* lzma_stream liblzma emits them in the order of the input.               *)
(*                                                                         *)
(* The mutex is a variable.  A step that the code performs with the lock   *)
(* held from acquisition to release is one action; the coding loop, which  *)
(* runs on a pool thread while the event loop goes on, is one action per   *)
(* call of lzma_code; the handlers are one action per section between two  *)
(* calls of bufferHandler, because the lock is dropped around each call.   *)
(***************************************************************************)
EXTENDS Naturals, Sequences, FiniteSets

CONSTANTS
  Jobs,          \* what a stream may be set up for, see Job below
  InitialBufsize,
  MaxVector,     \* the longest std::vector<uint8_t>
  UintMax,       \* UINT_MAX
  SizeMax        \* SIZE_MAX = UINT64_MAX

Kinds == {"head", "data", "Y", "Z", "zero", "junk"}

(* A coder and the input that it gets:                                     *)
(*   units       the input                                                 *)
(*   ends        the units that end a member (decoders)                    *)
(*   cuts        where the caller may end a write                          *)
(*   decoder     a decoder; otherwise an encoder, and every unit is data   *)
(*   restartable the coder method has installed _restart                   *)
(*   canFail     lzma_code may fail at any time (memory, options)          *)
(*   timeout     the multi-threaded encoder was given a timeout            *)
IsJob(j) ==
  /\ j.units \in Seq(Kinds)
  /\ j.ends \subseteq 1 .. Len(j.units) /\ j.cuts \subseteq 1 .. Len(j.units)
  /\ j.units # <<>> => Len(j.units) \in j.cuts
  /\ j.decoder \in BOOLEAN /\ j.restartable \in BOOLEAN
  /\ j.canFail \in BOOLEAN /\ j.timeout \in BOOLEAN

ASSUME JobsAssumption == \A j \in Jobs : IsJob(j)
ASSUME SizeAssumption ==
  /\ InitialBufsize \in Nat \ {0}
  /\ MaxVector \in Nat /\ UintMax \in Nat /\ SizeMax \in Nat
  /\ InitialBufsize <= MaxVector /\ MaxVector < SizeMax /\ UintMax < SizeMax

VARIABLES
  job,             \* the coder and its input, fixed
  internal,        \* _.internal # nullptr: liblzma holds a coder
  coder,           \* the state of that coder
  shouldFinish, inbufs, outbufs, processedChunks, lastCodeResult, bufsize,
  mutex,           \* who holds the lock across actions
  inbuf,           \* local of doLZMACode: what is left of the current chunk
  readChunks,      \* local of doLZMACode
  workers,         \* workers queued for the thread pool
  finished,        \* workers whose Execute has returned, OnOK still to come
  pc,              \* where the main thread is inside the native object
  calls            \* calls of bufferHandler whose setImmediate is pending

coding   == <<internal, coder, lastCodeResult, inbufs, outbufs, processedChunks>>
settings == <<shouldFinish, bufsize, job>>
locals   == <<inbuf, readChunks>>
threads  == <<mutex, workers, finished, pc>>
nativeVars == <<coding, settings, locals, threads, calls>>

-----------------------------------------------------------------------------
(* Chunks and units *)

File == job.units
Ends == job.ends
Decoder == job.decoder
Units == 1 .. Len(File)
Payload == IF Decoder THEN {u \in Units : File[u] = "data"} ELSE Units

Chunk == {chunk \in [lo : 0 .. Len(File), hi : 0 .. Len(File)] : chunk.lo <= chunk.hi}
Size(chunk) == chunk.hi - chunk.lo
Empty(chunk) == chunk.hi = chunk.lo
NoInput == [lo |-> 0, hi |-> 0]    \* null, or a buffer without bytes

-----------------------------------------------------------------------------
(* liblzma: what one call of lzma_code may do *)

Coder == [sequence : {"run", "finish", "end", "error"},
          started : BOOLEAN,     \* a header was read
          ended : BOOLEAN,       \* the end of the member was read
          pending : SUBSET Units,\* payload taken in and not given out
          stuck : BOOLEAN]       \* allow_buf_error

FreshCoder == [sequence |-> "run", started |-> FALSE, ended |-> FALSE,
               pending |-> {}, stuck |-> FALSE]

CodeResults == {"OK", "STREAM_END", "ERROR"}

(* A decoder fails on a unit that is no header where one is due, and on    *)
(* damaged data.                                                           *)
Bad(c, unit, first) ==
  /\ Decoder
  /\ IF first /\ ~c.started THEN File[unit] # "head" ELSE File[unit] = "junk"

(* How many units of input the coder can take: not past the member's end   *)
(* and not past a unit it fails on.                                        *)
Takes(c, in) ==
  {k \in 0 .. Size(in) :
     /\ c.ended => k = 0
     /\ \A j \in 1 .. k : ~Bad(c, in.lo + j, j = 1)
     /\ Decoder => \A j \in 1 .. k - 1 : in.lo + j \notin Ends}

(* What the coder holds after it took k units. *)
Pool(k) == coder.pending \cup (((inbuf.lo + 1) .. (inbuf.lo + k)) \cap Payload)

(* The first units of a pool that fit the output buffer. *)
Emissions(pool) ==
  {out \in SUBSET pool :
     /\ Cardinality(out) <= bufsize
     /\ \A a \in out, b \in pool \ out : a < b}

(* Does the member end once k units are in and nothing is held any more? *)
Ending(k, action) ==
  IF Decoder THEN coder.ended \/ (k > 0 /\ inbuf.lo + k \in Ends)
             ELSE action = "FINISH" /\ k = Size(inbuf)

-----------------------------------------------------------------------------
(* doLZMACode *)

Coding == mutex = "worker" \/ pc = "coding"

(* The function returns: a worker drops the lock and waits for its OnOK, a *)
(* synchronous code() goes on to the handlers with the lock held.          *)
Leave ==
  /\ inbuf' = NoInput /\ readChunks' = 0
  /\ \/ /\ mutex = "worker"
        /\ mutex' = "free" /\ finished' = finished + 1
        /\ UNCHANGED <<workers, pc>>
     \/ /\ mutex = "main"
        /\ pc' = "outbufs"
        /\ UNCHANGED <<mutex, workers, finished>>

(* Mutation: the chunks that were read are not counted. *)
Break_Uncounted == UNCHANGED processedChunks /\ Leave

Break ==
  /\ processedChunks' = processedChunks + readChunks
  /\ Leave

Continue(k) ==
  /\ inbuf' = [inbuf EXCEPT !.lo = @ + k]
  /\ UNCHANGED <<processedChunks, readChunks, threads>>

Stored(out, ret, k) ==
  /\ out # {}
  /\ \/ Cardinality(out) = bufsize
     \/ Size(inbuf) = k
     \/ ret = "STREAM_END"

(* What the loop does with the answer of lzma_code. *)
AfterCode(k, out, ret) ==
  /\ lastCodeResult' = ret
  /\ outbufs' = IF ret # "ERROR" /\ Stored(out, ret, k)
                THEN Append(outbufs, out) ELSE outbufs
  /\ IF ret # "OK" \/ (out = {} /\ ~shouldFinish) THEN Break ELSE Continue(k)
  /\ UNCHANGED <<internal, inbufs, settings, calls>>

Action == IF shouldFinish /\ inbufs = <<>> THEN "FINISH" ELSE "RUN"

(* The loop condition fails: there is no coder. *)
NoCoder ==
  /\ Coding /\ ~internal
  /\ Leave
  /\ UNCHANGED <<coding, settings, calls>>

FetchChunk ==
  /\ Coding /\ internal
  /\ Empty(inbuf) /\ inbufs # <<>>
  /\ inbuf' = Head(inbufs) /\ inbufs' = Tail(inbufs)
  /\ readChunks' = readChunks + 1
  /\ UNCHANGED <<internal, coder, lastCodeResult, outbufs, processedChunks,
                 settings, threads, calls>>

CallsLzmaCode ==
  /\ Coding /\ internal
  /\ Empty(inbuf) => inbufs = <<>>

Running ==
  /\ coder.sequence \in {"run", "finish"}
  /\ coder.sequence = "finish" => Action = "FINISH"

(* Input is taken in or output given out.  LZMA_OK promises that the input *)
(* is used up or the output buffer full, except when a timeout may end the *)
(* call early; a coder may keep payload back until its member ends.        *)
CodeProgress ==
  /\ CallsLzmaCode /\ Running
  /\ \E k \in Takes(coder, inbuf) : \E out \in Emissions(Pool(k)), ret \in {"OK", "STREAM_END"} :
       /\ ret = "OK" =>
            /\ k > 0 \/ out # {} \/ job.timeout
            /\ k = Size(inbuf) \/ Cardinality(out) = bufsize \/ job.timeout
            /\ Ending(k, Action) => Cardinality(out) = bufsize \/ job.timeout
       /\ ret = "STREAM_END" => Ending(k, Action) /\ out = Pool(k)
       /\ coder' = [sequence |-> IF ret = "STREAM_END" THEN "end"
                                 ELSE IF Action = "FINISH" THEN "finish" ELSE "run",
                    started |-> coder.started \/ k > 0,
                    ended |-> Decoder /\ Ending(k, Action),
                    pending |-> Pool(k) \ out,
                    stuck |-> FALSE]
       /\ AfterCode(k, out, ret)

(* Without input and output the first call is forgiven, the next one is    *)
(* LZMA_BUF_ERROR.                                                         *)
CodeStuck ==
  /\ CallsLzmaCode /\ Running
  /\ Empty(inbuf) /\ ~Ending(0, Action)
  /\ coder' = [coder EXCEPT !.stuck = TRUE,
                            !.sequence = IF Action = "FINISH" THEN "finish" ELSE "run"]
  /\ AfterCode(0, {}, IF coder.stuck THEN "ERROR" ELSE "OK")

(* The decoder has reached a unit it cannot decode. *)
Damaged ==
  /\ Running /\ ~coder.ended
  /\ \E k \in Takes(coder, inbuf) :
       /\ k < Size(inbuf) /\ Bad(coder, inbuf.lo + k + 1, k = 0)
       /\ k > 0 => inbuf.lo + k \notin Ends

CodeFails ==
  /\ CallsLzmaCode
  /\ coder.sequence # "end"
  /\ job.canFail \/ ~Running \/ Damaged
  /\ coder' = [coder EXCEPT !.sequence = "error"]
  /\ AfterCode(0, {}, "ERROR")

(* After LZMA_STREAM_END liblzma repeats it. *)
CodeEnded ==
  /\ CallsLzmaCode
  /\ coder.sequence = "end"
  /\ UNCHANGED coder
  /\ AfterCode(0, {}, "STREAM_END")

DoLZMACode ==
  NoCoder \/ FetchChunk \/ CodeProgress \/ CodeStuck \/ CodeFails \/ CodeEnded

-----------------------------------------------------------------------------
(* Code and the worker *)

(* code(buf, async) of the native object; an empty chunk stands for null   *)
(* as well, both finish the stream.  In the synchronous case the coding    *)
(* loop starts in the same call, unless the output vector of bufsize bytes *)
(* cannot be made: nothing catches std::length_error, the process aborts.  *)
(* The caller, a step of the event loop, says what becomes of calls.       *)
Code(chunk, async) ==
  /\ pc = "idle" /\ mutex = "free"
  /\ shouldFinish' = (shouldFinish \/ Empty(chunk))
  /\ inbufs' = Append(inbufs, chunk)
  /\ \/ /\ async
        /\ workers' = workers + 1
        /\ UNCHANGED <<mutex, finished, pc>>
     \/ /\ ~async /\ bufsize <= MaxVector
        /\ mutex' = "main" /\ pc' = "coding"
        /\ UNCHANGED <<workers, finished>>
     \/ /\ ~async /\ bufsize > MaxVector
        /\ pc' = "aborted"
        /\ UNCHANGED <<mutex, workers, finished>>
  /\ UNCHANGED <<internal, coder, lastCodeResult, outbufs, processedChunks,
                 bufsize, job, locals>>

(* A pool thread runs Execute and gets the lock. *)
WorkerStarts ==
  /\ workers > 0 /\ mutex = "free"
  /\ bufsize <= MaxVector
  /\ workers' = workers - 1 /\ mutex' = "worker"
  /\ UNCHANGED <<coding, settings, locals, finished, pc, calls>>

(* std::length_error leaves Execute.  AsyncWorker turns it into a call of  *)
(* OnError(), which LZMAStreamCodingWorker does not override: its          *)
(* OnOK(const Error&) is never called, and no handler runs.                *)
WorkerThrows ==
  /\ workers > 0 /\ mutex = "free"
  /\ bufsize > MaxVector
  /\ workers' = workers - 1
  /\ UNCHANGED <<coding, settings, locals, mutex, finished, pc, calls>>

(* Mutation: the handlers run without a worker that has finished. *)
WorkerOnOK_Unfinished ==
  /\ pc = "idle"
  /\ finished' = finished - 1 /\ pc' = "outbufs"
  /\ UNCHANGED <<coding, settings, locals, mutex, workers, calls>>

(* Back on the event loop, OnOK enters invokeBufferHandlers(false). *)
WorkerOnOK ==
  /\ finished > 0 /\ pc = "idle"
  /\ finished' = finished - 1 /\ pc' = "outbufs"
  /\ UNCHANGED <<coding, settings, locals, mutex, workers, calls>>

-----------------------------------------------------------------------------
(* invokeBufferHandlers *)

BufCall(out) == [kind |-> "buf", out |-> out, n |-> 0]
NullCall     == [kind |-> "null", out |-> {}, n |-> 0]
ErrorCall    == [kind |-> "error", out |-> {}, n |-> 0]
NumberCall(n) == [kind |-> "number", out |-> {}, n |-> n]

(* The main thread holds the lock, or can take it now. *)
Locked == mutex \in {"main", "free"}

HandlersReturn ==
  /\ pc' = "idle" /\ mutex' = "free"
  /\ UNCHANGED <<workers, finished>>

resetUnderlying ==
  /\ internal' = FALSE /\ coder' = FreshCoder
  /\ lastCodeResult' = "OK" /\ processedChunks' = 0

(* Mutation: the last buffer is handed over first. *)
HandOutput_Last ==
  /\ pc = "outbufs" /\ Locked
  /\ outbufs # <<>>
  /\ calls' = Append(calls, BufCall(outbufs[Len(outbufs)]))
  /\ outbufs' = SubSeq(outbufs, 1, Len(outbufs) - 1)
  /\ UNCHANGED <<internal, coder, lastCodeResult, inbufs, processedChunks,
                 settings, locals, threads>>

HandOutput ==
  /\ pc = "outbufs" /\ Locked
  /\ outbufs # <<>>
  /\ calls' = Append(calls, BufCall(Head(outbufs)))
  /\ outbufs' = Tail(outbufs)
  /\ UNCHANGED <<internal, coder, lastCodeResult, inbufs, processedChunks,
                 settings, locals, threads>>

(* Mutation: the result is reported before all output is. *)
HandResult_First ==
  /\ pc = "outbufs" /\ Locked
  /\ lastCodeResult # "OK"
  /\ calls' = Append(calls, IF lastCodeResult = "STREAM_END" THEN NullCall ELSE ErrorCall)
  /\ pc' = "chunks"
  /\ UNCHANGED <<coding, settings, locals, mutex, workers, finished>>

HandResult ==
  /\ pc = "outbufs" /\ Locked
  /\ outbufs = <<>> /\ lastCodeResult # "OK"
  /\ calls' = Append(calls, IF lastCodeResult = "STREAM_END" THEN NullCall ELSE ErrorCall)
  /\ pc' = "chunks"
  /\ UNCHANGED <<coding, settings, locals, mutex, workers, finished>>

(* Without a result to report the number is the last call. *)
HandChunks ==
  /\ pc = "outbufs" /\ Locked
  /\ outbufs = <<>> /\ lastCodeResult = "OK"
  /\ processedChunks > 0
  /\ calls' = Append(calls, NumberCall(processedChunks))
  /\ processedChunks' = 0
  /\ HandlersReturn
  /\ UNCHANGED <<internal, coder, lastCodeResult, inbufs, outbufs, settings, locals>>

HandNothing ==
  /\ pc = "outbufs" /\ Locked
  /\ outbufs = <<>> /\ lastCodeResult = "OK"
  /\ processedChunks = 0
  /\ HandlersReturn
  /\ UNCHANGED <<coding, settings, locals, calls>>

(* After a result the coder is ended, once the number is reported. *)
HandChunksBeforeReset ==
  /\ pc = "chunks" /\ Locked
  /\ processedChunks > 0
  /\ calls' = Append(calls, NumberCall(processedChunks))
  /\ processedChunks' = 0
  /\ pc' = "reset"
  /\ UNCHANGED <<internal, coder, lastCodeResult, inbufs, outbufs, settings,
                 locals, mutex, workers, finished>>

HandReset ==
  /\ \/ pc = "chunks" /\ processedChunks = 0
     \/ pc = "reset"
  /\ Locked
  /\ resetUnderlying /\ HandlersReturn
  /\ UNCHANGED <<inbufs, outbufs, settings, locals, calls>>

InvokeBufferHandlers ==
  \/ HandOutput \/ HandResult \/ HandChunks \/ HandNothing
  \/ HandChunksBeforeReset \/ HandReset

-----------------------------------------------------------------------------
(* The other methods that change state; each takes the lock, and leaves   *)
(* calls to its caller.                                                    *)

CanCall == pc = "idle" /\ mutex = "free"

(* resetUnderlying(), followed by a new coder when again is set. *)
ResetUnderlying(again) ==
  /\ CanCall
  /\ internal' = again /\ coder' = FreshCoder
  /\ lastCodeResult' = "OK" /\ processedChunks' = 0
  /\ UNCHANGED <<inbufs, outbufs, settings, locals, threads>>

(* setBufsize(n); null arrives as SIZE_MAX. *)
SetBufsize(n) ==
  /\ CanCall
  /\ bufsize' = IF n # 0 /\ n # UintMax THEN n ELSE bufsize
  /\ UNCHANGED <<coding, shouldFinish, job, locals, threads>>

-----------------------------------------------------------------------------

(* A new object whose coder has been set up by one of the coder methods. *)
NativeInit ==
  /\ job \in Jobs
  /\ internal = TRUE /\ coder = FreshCoder
  /\ shouldFinish = FALSE
  /\ inbufs = <<>> /\ outbufs = <<>>
  /\ processedChunks = 0 /\ lastCodeResult = "OK"
  /\ bufsize = InitialBufsize
  /\ mutex = "free"
  /\ inbuf = NoInput /\ readChunks = 0
  /\ workers = 0 /\ finished = 0
  /\ pc = "idle"
  /\ calls = <<>>

NativeStep ==
  DoLZMACode \/ WorkerStarts \/ WorkerThrows \/ WorkerOnOK \/ InvokeBufferHandlers

CallKinds == {"buf", "null", "error", "number"}
Call == [kind : CallKinds, out : SUBSET Units, n : Nat]

NativeTypeOK ==
  /\ job \in Jobs
  /\ internal \in BOOLEAN /\ coder \in Coder
  /\ shouldFinish \in BOOLEAN
  /\ inbufs \in Seq(Chunk) /\ outbufs \in Seq(SUBSET Units)
  /\ processedChunks \in Nat /\ lastCodeResult \in CodeResults
  /\ bufsize \in Nat
  /\ mutex \in {"free", "main", "worker"}
  /\ inbuf \in Chunk /\ readChunks \in Nat
  /\ workers \in Nat /\ finished \in Nat
  /\ pc \in {"idle", "coding", "outbufs", "chunks", "reset", "aborted"}
  /\ calls \in Seq(Call)

-----------------------------------------------------------------------------
(* The work that is left.  Each thing weighs more than all that it can     *)
(* turn into: a unit that was read becomes payload in the coder, then part *)
(* of an output buffer, then of a call; a worker starts, returns, and runs *)
(* the handlers.                                                           *)

CoderWork == 5 * Cardinality(coder.pending) + (IF coder.stuck THEN 0 ELSE 1)

HandlerWork(place) ==
  CASE place = "outbufs" -> 8 [] place = "chunks" -> 5 [] place = "reset" -> 2 [] OTHER -> 0

ThreadWork ==
  12 * workers + 9 * finished + (IF Coding THEN 11 ELSE 0) + HandlerWork(pc)

NativeWork == 7 * Size(inbuf) + CoderWork + 3 * Len(outbufs) + Len(inbufs) + ThreadWork

(* The guards of NativeStep. *)
NativeIsDue ==
  \/ Coding
  \/ workers > 0 /\ mutex = "free"
  \/ finished > 0 /\ pc = "idle"
  \/ pc \in {"outbufs", "chunks", "reset"} /\ Locked

=============================================================================
