------------------------- MODULE StreamData_proofs -------------------------
(***************************************************************************)
(* What comes out of the stream of module JSLzmaStream: theorems about     *)
(* results, the end of the stream, the payload, and good input.            *)
(***************************************************************************)
EXTENDS JSLzmaStream_proofs

-----------------------------------------------------------------------------
(* The calls of bufferHandler that are still to be served *)

BufComes   == \E i \in DOMAIN calls : calls[i].kind = "buf"
NullComes  == \E i \in DOMAIN calls : calls[i].kind = "null"
ErrorComes == \E i \in DOMAIN calls : calls[i].kind = "error"

(* Output, then a result, then the number. *)
CallsInOrder ==
  \A i, j \in DOMAIN calls : i < j => calls[i].kind = "buf" \/ calls[j].kind = "number"

LEMMA NoCalls ==
  ASSUME calls = <<>>
  PROVE  CallsInOrder /\ ~BufComes /\ ~NullComes /\ ~ErrorComes
BY DEF CallsInOrder, BufComes, NullComes, ErrorComes

LEMMA SameCalls ==
  ASSUME calls' = calls
  PROVE  /\ CallsInOrder' = CallsInOrder /\ BufComes' = BufComes
         /\ NullComes' = NullComes /\ ErrorComes' = ErrorComes
BY DEF CallsInOrder, BufComes, NullComes, ErrorComes

LEMMA OneMoreCall ==
  ASSUME calls \in Seq(Call), NEW call, calls' = Append(calls, call), CallsInOrder,
         \/ call.kind = "number"
         \/ call.kind \in {"buf", "null", "error"} /\ NoNumbers /\ ~NullComes /\ ~ErrorComes
  PROVE  /\ CallsInOrder'
         /\ BufComes' <=> BufComes \/ call.kind = "buf"
         /\ NullComes' <=> NullComes \/ call.kind = "null"
         /\ ErrorComes' <=> ErrorComes \/ call.kind = "error"
<1>1. Len(calls) \in Nat /\ DOMAIN calls = 1 .. Len(calls) /\ DOMAIN calls' = 1 .. Len(calls) + 1
  OBVIOUS
<1>2. calls'[Len(calls) + 1] = call /\ \A i \in 1 .. Len(calls) : calls'[i] = calls[i]
  OBVIOUS
<1>3. \A i \in DOMAIN calls : calls[i].kind \in CallKinds
  <2>1. \A i \in DOMAIN calls : calls[i] \in Call
    BY <1>1
  <2> QED
    BY <2>1 DEF Call
<1>4. CallsInOrder'
  <2> SUFFICES ASSUME NEW i \in DOMAIN calls', NEW j \in DOMAIN calls', i < j
               PROVE  calls'[i].kind = "buf" \/ calls'[j].kind = "number"
    BY DEF CallsInOrder
  <2>1. i \in 1 .. Len(calls) /\ calls'[i] = calls[i]
    BY <1>1, <1>2
  <2>2. CASE j \in 1 .. Len(calls)
    BY <1>1, <1>2, <2>1, <2>2 DEF CallsInOrder
  <2>3. CASE j = Len(calls) + 1
    <3>1. CASE call.kind = "number"
      BY <1>2, <2>3, <3>1
    <3>2. CASE NoNumbers /\ ~NullComes /\ ~ErrorComes
      BY <1>1, <1>3, <2>1, <3>2 DEF NoNumbers, NullComes, ErrorComes, CallKinds
    <3> QED
      BY <3>1, <3>2
  <2> QED
    BY <1>1, <2>2, <2>3
<1>5. /\ BufComes' <=> BufComes \/ call.kind = "buf"
      /\ NullComes' <=> NullComes \/ call.kind = "null"
      /\ ErrorComes' <=> ErrorComes \/ call.kind = "error"
  BY <1>1, <1>2 DEF BufComes, NullComes, ErrorComes
<1> QED
  BY <1>4, <1>5

(* A call is served. *)
LEMMA OneCallLess ==
  ASSUME calls \in Seq(Call), NEW kind, Immediate(kind), CallsInOrder
  PROVE  /\ CallsInOrder'
         /\ BufComes' => BufComes
         /\ NullComes' => NullComes
         /\ ErrorComes' => ErrorComes
         /\ kind # "null" /\ NullComes => NullComes'
         /\ kind # "error" /\ ErrorComes => ErrorComes'
         /\ kind # "buf" => ~BufComes' /\ ~NullComes' /\ ~ErrorComes'
         /\ kind = "buf" => BufComes
         /\ kind = "null" => NullComes
         /\ kind = "error" => ErrorComes
<1>1. /\ Len(calls) \in Nat /\ Len(calls) >= 1 /\ DOMAIN calls = 1 .. Len(calls)
      /\ calls' = Tail(calls) /\ Head(calls) = calls[1] /\ calls[1].kind = kind
  BY DEF Immediate
<1>2. /\ DOMAIN calls' = 1 .. Len(calls) - 1
      /\ \A i \in 1 .. Len(calls) - 1 : calls'[i] = calls[i + 1] /\ i + 1 \in DOMAIN calls
  BY <1>1
<1>3. \A i \in DOMAIN calls : i = 1 \/ (i - 1 \in DOMAIN calls' /\ calls[i] = calls'[i - 1])
  <2> SUFFICES ASSUME NEW i \in DOMAIN calls, i # 1
               PROVE  i - 1 \in DOMAIN calls' /\ calls[i] = calls'[i - 1]
    OBVIOUS
  <2>1. i - 1 \in 1 .. Len(calls) - 1 /\ (i - 1) + 1 = i
    BY <1>1
  <2> QED
    BY <1>2, <2>1
<1>4. CallsInOrder'
  BY <1>1, <1>2 DEF CallsInOrder
<1>5. /\ BufComes' => BufComes
      /\ NullComes' => NullComes
      /\ ErrorComes' => ErrorComes
  BY <1>2 DEF BufComes, NullComes, ErrorComes
<1>6. /\ kind # "null" /\ NullComes => NullComes'
      /\ kind # "error" /\ ErrorComes => ErrorComes'
  BY <1>1, <1>3 DEF NullComes, ErrorComes
<1>7. kind # "buf" => \A i \in DOMAIN calls' : calls'[i].kind = "number"
  <2> SUFFICES ASSUME kind # "buf", NEW i \in DOMAIN calls' PROVE calls'[i].kind = "number"
    OBVIOUS
  <2>1. 1 \in DOMAIN calls /\ i + 1 \in DOMAIN calls /\ 1 < i + 1 /\ calls'[i] = calls[i + 1]
    BY <1>1, <1>2
  <2> QED
    BY <1>1, <2>1 DEF CallsInOrder
<1>8. /\ kind = "buf" => BufComes
      /\ kind = "null" => NullComes
      /\ kind = "error" => ErrorComes
  BY <1>1 DEF BufComes, NullComes, ErrorComes
<1> QED
  BY <1>4, <1>5, <1>6, <1>7, <1>8 DEF BufComes, NullComes, ErrorComes

-----------------------------------------------------------------------------
(* Results, and the end of the stream *)

CoderFree == ~internal => coder = FreshCoder

(* What has come to its end, or failed, is not called again. *)
SequenceRuns == lastCodeResult = "OK" => coder.sequence \in {"run", "finish"}

NothingHeld ==
  /\ NoChunk \/ InQueue => calls = <<>> /\ outbufs = <<>>
  /\ Reported => outbufs = <<>>

(* A result is kept until the handlers have reported it and the coder is   *)
(* ended; once it is reported there is no coder.                           *)
ResultHeld ==
  /\ Counted => internal
  /\ lastCodeResult # "OK" => internal /\ (Counted \/ pc = "reset")
  /\ pc \in {"chunks", "reset"} =>
       lastCodeResult # "OK" /\ outbufs = <<>> /\ (NullComes \/ ErrorComes)
  /\ NullComes => \/ pc \in {"chunks", "reset"} /\ lastCodeResult = "STREAM_END"
                  \/ pc = "idle" /\ ~internal
  /\ ErrorComes => \/ pc \in {"chunks", "reset"} /\ lastCodeResult = "ERROR"
                   \/ pc = "idle" /\ ~internal

Silent ==
  /\ errors > 0 => eof /\ ~nativeStream
  /\ eof => ~internal /\ outbufs = <<>> /\ ~BufComes /\ ~NullComes /\ ~ErrorComes

Flushes ==
  /\ writingLastChunk = flushing
  /\ shouldFinish => flushing
  /\ chunkCallbacks # <<>> => (chunkCallbacks[1].kind = "flush" <=> flushing)
  /\ flushed => flushing
  /\ ~nativeStream => errors > 0 \/ flushed

(* An encoder ends only when it is told to finish. *)
EncoderEnds == ~Decoder /\ (lastCodeResult = "STREAM_END" \/ NullComes) => flushing

(* A coder that can be restarted is replaced when its member ends. *)
Replaced ==
  (Decoder => job.restartable) =>
    /\ nativeStream /\ ~eof /\ ~internal => NullComes \/ ErrorComes
    /\ nativeStream /\ eof => Reported /\ pc = "idle" /\ flushing

Control ==
  /\ CoderFree /\ SequenceRuns /\ CallsInOrder /\ NothingHeld /\ ResultHeld
  /\ Silent /\ Flushes /\ EncoderEnds /\ Replaced

LEMMA InitControl == Init => Control
<1> SUFFICES ASSUME Init PROVE Control
  OBVIOUS
<1>1. CallsInOrder /\ ~BufComes /\ ~NullComes /\ ~ErrorComes
  BY NoCalls DEF Init, NativeInit
<1>2. NothingHeld
  BY DEF Init, NativeInit, NothingHeld
<1>3. ResultHeld /\ Silent /\ EncoderEnds /\ Replaced
  BY <1>1 DEF Init, NativeInit, ResultHeld, Silent, EncoderEnds, Replaced
<1>4. CoderFree /\ SequenceRuns
  BY DEF Init, NativeInit, CoderFree, SequenceRuns, FreshCoder
<1>5. Flushes
  BY DEF Init, NativeInit, Flushes
<1> QED
  BY <1>1, <1>2, <1>3, <1>4, <1>5 DEF Control

(* The places of the chunk depend on these variables only. *)
LEMMA SamePlaces ==
  ASSUME UNCHANGED <<chunkCallbacks, inbufs, readChunks, processedChunks, calls,
                     workers, finished, mutex, pc, internal>>
  PROVE  /\ NoChunk' = NoChunk /\ InQueue' = InQueue /\ BeingRead' = BeingRead
         /\ Counted' = Counted /\ Reported' = Reported
BY DEF NoChunk, InQueue, BeingRead, Counted, Reported, Queued, Working, Returned, Handling,
   Quiet, NoNumbers, LastIsNumber

LEMMA CallerControl ==
  ASSUME Control, Write \/ EndInput \/ AssignBufsize \/ ReadBufsize
  PROVE  Control'
<1>1. /\ UNCHANGED <<coding, locals, threads, calls, shouldFinish, job>>
      /\ UNCHANGED <<transformVars, outputVars, countVars, streamVars>>
  BY DEF Write, EndInput, AssignBufsize, ReadBufsize, SetBufsize, nativeVars, settings
<1>2. /\ UNCHANGED <<internal, coder, lastCodeResult, inbufs, outbufs, processedChunks>>
      /\ UNCHANGED <<readChunks, mutex, workers, finished, pc, calls, shouldFinish, job>>
      /\ UNCHANGED <<chunkCallbacks, nativeStream, writingLastChunk, flushing, flushed, eof, errors>>
  BY <1>1 DEF coding, locals, threads, transformVars, outputVars, streamVars
<1>3. /\ CallsInOrder' = CallsInOrder /\ BufComes' = BufComes
      /\ NullComes' = NullComes /\ ErrorComes' = ErrorComes
  BY <1>2, SameCalls
<1>4. NoChunk' = NoChunk /\ InQueue' = InQueue /\ Counted' = Counted /\ Reported' = Reported
  BY <1>2, SamePlaces
<1> QED
  BY <1>2, <1>3, <1>4
  DEF Control, CoderFree, SequenceRuns, NothingHeld, ResultHeld, Silent, Flushes, EncoderEnds,
      Replaced, Decoder

(* Where the coding loop is when it calls lzma_code. *)
LEMMA LoopFinds ==
  ASSUME IInv, Control, CallsLzmaCode
  PROVE  /\ BeingRead /\ internal /\ inbufs = <<>> /\ calls = <<>> /\ processedChunks = 0
         /\ nativeStream /\ ~eof /\ errors = 0 /\ lastCodeResult = "OK"
         /\ coder.sequence \in {"run", "finish"}
<1>1. Coding /\ internal /\ (Empty(inbuf) => inbufs = <<>>)
  BY DEF CallsLzmaCode
<1>2. readChunks = 0 => Empty(inbuf)
  BY DEF IInv, NothingRead, NoInput, Empty
<1>3. Len(inbufs) = 1 => inbufs # <<>>
  OBVIOUS
<1>4. Working /\ inbufs = <<>> /\ readChunks = 1 /\ calls = <<>> /\ processedChunks = 0
  BY <1>1, <1>2, <1>3, WorkingAlone DEF IInv
<1>5. BeingRead
  BY <1>1, <1>4, WorkingAlone DEF IInv, BeingRead
<1>6. nativeStream /\ ~eof
  BY <1>1 DEF IInv, Released, Control, Silent
<1>7. errors = 0
  BY <1>6 DEF IInv, TypeOK, Control, Silent
<1>8. lastCodeResult = "OK"
  BY <1>5 DEF Control, ResultHeld, BeingRead, Counted, Working
<1> QED
  BY <1>1, <1>4, <1>5, <1>6, <1>7, <1>8 DEF Control, SequenceRuns

(* What the loop does with an answer of lzma_code. *)
LEMMA LoopMoves ==
  ASSUME IInv, Control, CallsLzmaCode, UNCHANGED chunkCallbacks,
         NEW k, NEW out, NEW ret, AfterCode(k, out, ret)
  PROVE  /\ UNCHANGED <<internal, inbufs, calls, settings>> /\ lastCodeResult' = ret
         /\ outbufs' = IF ret # "ERROR" /\ Stored(out, ret, k) THEN Append(outbufs, out) ELSE outbufs
         /\ \/ /\ ret # "OK" \/ (out = {} /\ ~shouldFinish)
               /\ Counted' /\ readChunks' = 0 /\ processedChunks' = 1 /\ pc' \in {"idle", "outbufs"}
            \/ /\ ret = "OK" /\ (out # {} \/ shouldFinish)
               /\ BeingRead' /\ inbuf' = [inbuf EXCEPT !.lo = @ + k]
               /\ readChunks' = 1 /\ processedChunks' = 0 /\ pc' = pc
<1>1. /\ BeingRead /\ internal /\ inbufs = <<>> /\ calls = <<>> /\ processedChunks = 0
  BY LoopFinds
<1>2. UNCHANGED <<internal, inbufs, calls, settings>> /\ lastCodeResult' = ret
  BY DEF AfterCode
<1>3. outbufs' = IF ret # "ERROR" /\ Stored(out, ret, k) THEN Append(outbufs, out) ELSE outbufs
  BY DEF AfterCode
<1>4. CASE ret # "OK" \/ (out = {} /\ ~shouldFinish)
  <2>1. processedChunks' = 1 /\ Leave
    BY <1>1, <1>4 DEF AfterCode, Break, BeingRead
  <2>2. NoNumbers'
    BY <1>1, <1>2 DEF NoNumbers
  <2>3. readChunks' = 0 /\ (Returned' \/ Handling({"outbufs"})')
    BY <1>1, <2>1, LeaveWorking DEF BeingRead
  <2>4. Counted'
    BY <1>1, <1>2, <2>1, <2>2, <2>3 DEF Counted, Handling, BeingRead
  <2> QED
    BY <1>2, <1>3, <1>4, <2>1, <2>3, <2>4 DEF Returned, Handling
<1>5. CASE ret = "OK" /\ (out # {} \/ shouldFinish)
  <2>1. Continue(k)
    BY <1>5 DEF AfterCode
  <2>2. UNCHANGED <<processedChunks, readChunks, threads>>
    BY <2>1 DEF Continue
  <2>3. BeingRead'
    BY <1>1, <1>2, <2>2 DEF BeingRead, Working, threads
  <2> QED
    BY <1>1, <1>2, <1>3, <1>5, <2>1, <2>2, <2>3 DEF BeingRead, Continue, threads
<1> QED
  BY <1>4, <1>5

LEMMA AfterCodeControl ==
  ASSUME IInv, Control, CallsLzmaCode, NEW k, NEW out, NEW ret, AfterCode(k, out, ret),
         UNCHANGED <<chunkCallbacks, nativeStream, writingLastChunk, flushing, flushed, eof, errors>>,
         ret = "OK" => coder'.sequence \in {"run", "finish"},
         ret = "STREAM_END" /\ ~Decoder => shouldFinish
  PROVE  Control'
<1>1. /\ BeingRead /\ internal /\ inbufs = <<>> /\ calls = <<>> /\ processedChunks = 0
      /\ nativeStream /\ ~eof /\ errors = 0 /\ lastCodeResult = "OK"
  BY LoopFinds
<1>2. /\ internal' /\ calls' = <<>> /\ lastCodeResult' = ret /\ shouldFinish' = shouldFinish /\ job' = job
      /\ (ret # "OK" /\ Counted') \/ (ret = "OK" /\ Counted') \/ (ret = "OK" /\ BeingRead')
      /\ pc' \in {"idle", "coding", "outbufs"}
  BY <1>1, LoopMoves DEF settings, BeingRead, Working
<1>3. CallsInOrder' /\ ~BufComes' /\ ~NullComes' /\ ~ErrorComes'
  BY <1>2 DEF CallsInOrder, BufComes, NullComes, ErrorComes
<1>4. ~(NoChunk \/ InQueue)' /\ ~Reported'
  BY <1>2 DEF Counted, BeingRead, NoChunk, InQueue, Reported
<1>5. NothingHeld' /\ ResultHeld'
  BY <1>2, <1>3, <1>4 DEF NothingHeld, ResultHeld
<1>6. Silent' /\ Flushes'
  BY <1>1, <1>2 DEF Silent, Flushes, Control
<1>7. EncoderEnds' /\ Replaced' /\ CoderFree' /\ SequenceRuns'
  BY <1>1, <1>2, <1>3 DEF EncoderEnds, Replaced, CoderFree, SequenceRuns, Control, Flushes, Decoder
<1> QED
  BY <1>3, <1>5, <1>6, <1>7 DEF Control

LEMMA CodingControl ==
  ASSUME IInv, Control, DoLZMACode,
         UNCHANGED <<chunkCallbacks, nativeStream, writingLastChunk, flushing, flushed, eof, errors>>
  PROVE  Control'
<1>1. CASE NoCoder
  <2>1. Working /\ calls = <<>> /\ Len(inbufs) = 1 /\ readChunks = 0
    BY <1>1, WorkingAlone DEF NoCoder, IInv
  <2>2. (Returned' \/ Handling({"outbufs"})') /\ readChunks' = 0
    BY <1>1, <2>1, LeaveWorking DEF NoCoder
  <2>3. /\ UNCHANGED <<internal, coder, lastCodeResult, inbufs, outbufs, processedChunks>>
        /\ UNCHANGED <<shouldFinish, job, calls>>
    BY <1>1 DEF NoCoder, coding, settings
  <2>4. pc' \in {"idle", "outbufs"}
    BY <2>2 DEF Returned, Handling
  <2>5. InQueue /\ InQueue' /\ ~Reported
    BY <1>1, <2>1, <2>2, <2>3, WorkingAlone
    DEF NoCoder, IInv, Token, NoChunk, InQueue, BeingRead, Counted, Reported, NoNumbers, Handling
  <2>6. calls = <<>> /\ outbufs = <<>> /\ lastCodeResult = "OK"
    BY <1>1, <2>5 DEF Control, NothingHeld, ResultHeld, NoCoder
  <2>7. CallsInOrder' /\ ~BufComes' /\ ~NullComes' /\ ~ErrorComes'
    BY <2>3, <2>6 DEF CallsInOrder, BufComes, NullComes, ErrorComes
  <2>8. ~BufComes /\ ~NullComes /\ ~ErrorComes
    BY <2>6 DEF BufComes, NullComes, ErrorComes
  <2>9. NothingHeld' /\ ResultHeld'
    BY <2>3, <2>4, <2>5, <2>6, <2>7 DEF NothingHeld, ResultHeld, InQueue, Reported, Counted
  <2> QED
    BY <2>3, <2>5, <2>7, <2>8, <2>9
    DEF Control, CoderFree, SequenceRuns, Silent, Flushes, EncoderEnds, Replaced, Decoder
<1>2. CASE FetchChunk
  <2>1. Working /\ calls = <<>> /\ Len(inbufs) = 1 /\ readChunks = 0 /\ internal
    BY <1>2, WorkingAlone DEF FetchChunk, IInv
  <2>2. InQueue
    BY <1>2, <2>1 DEF FetchChunk, IInv, Token, NoChunk, InQueue, BeingRead, Counted, Reported, LastIsNumber
  <2>3. /\ UNCHANGED <<internal, coder, lastCodeResult, outbufs, processedChunks>>
        /\ UNCHANGED <<shouldFinish, job, calls, pc>> /\ readChunks' = 1
    BY <1>2, <2>1 DEF FetchChunk, settings, threads
  <2>4. lastCodeResult = "OK" /\ ~eof /\ ~Reported
    BY <2>1, <2>2 DEF Control, ResultHeld, Silent, InQueue, Counted, Reported, Working
  <2>5. CallsInOrder' /\ ~BufComes' /\ ~NullComes' /\ ~ErrorComes'
    BY <2>1, <2>3 DEF CallsInOrder, BufComes, NullComes, ErrorComes
  <2>6. NothingHeld' /\ ResultHeld'
    BY <2>1, <2>3, <2>4, <2>5 DEF NothingHeld, ResultHeld, NoChunk, InQueue, Reported, Working
  <2> QED
    BY <2>1, <2>3, <2>4, <2>5, <2>6
    DEF Control, CoderFree, SequenceRuns, Silent, Flushes, EncoderEnds, Replaced, Decoder
<1>3. CASE CodeProgress
  <2>1. CallsLzmaCode
    BY <1>3 DEF CodeProgress
  <2>2. PICK k \in Takes(coder, inbuf) : \E out \in Emissions(Pool(k)), ret \in {"OK", "STREAM_END"} :
          /\ ret = "STREAM_END" => Ending(k, Action)
          /\ coder'.sequence = IF ret = "STREAM_END" THEN "end"
                               ELSE IF Action = "FINISH" THEN "finish" ELSE "run"
          /\ AfterCode(k, out, ret)
    BY <1>3 DEF CodeProgress
  <2>3. PICK out \in Emissions(Pool(k)), ret \in {"OK", "STREAM_END"} :
          /\ ret = "STREAM_END" => Ending(k, Action)
          /\ coder'.sequence = IF ret = "STREAM_END" THEN "end"
                               ELSE IF Action = "FINISH" THEN "finish" ELSE "run"
          /\ AfterCode(k, out, ret)
    BY <2>2
  <2>4. ret = "OK" => coder'.sequence \in {"run", "finish"}
    BY <2>3
  <2>5. ret = "STREAM_END" /\ ~Decoder => shouldFinish
    BY <2>3 DEF Ending, Action
  <2> QED
    BY <2>1, <2>3, <2>4, <2>5, AfterCodeControl
<1>4. CASE CodeStuck
  <2>1. CallsLzmaCode /\ AfterCode(0, {}, IF coder.stuck THEN "ERROR" ELSE "OK")
    BY <1>4 DEF CodeStuck
  <2>2. coder'.sequence \in {"run", "finish"}
    <3>1. coder' = [coder EXCEPT !.stuck = TRUE,
                                 !.sequence = IF Action = "FINISH" THEN "finish" ELSE "run"]
      BY <1>4 DEF CodeStuck
    <3>2. coder \in Coder
      BY DEF IInv, TypeOK, NativeTypeOK
    <3> HIDE DEF Action
    <3> QED
      BY <3>1, <3>2 DEF Coder
  <2>3. (IF coder.stuck THEN "ERROR" ELSE "OK") # "STREAM_END"
    OBVIOUS
  <2> QED
    BY <2>1, <2>2, <2>3, AfterCodeControl
<1>5. CASE CodeFails
  <2>1. CallsLzmaCode /\ AfterCode(0, {}, "ERROR")
    BY <1>5 DEF CodeFails
  <2>2. "ERROR" # "OK" /\ "ERROR" # "STREAM_END"
    OBVIOUS
  <2> QED
    BY <2>1, <2>2, AfterCodeControl
<1>6. CASE CodeEnded
  <2>1. FALSE
    BY <1>6, LoopFinds DEF CodeEnded
  <2> QED
    BY <2>1
<1> QED
  BY <1>1, <1>2, <1>3, <1>4, <1>5, <1>6 DEF DoLZMACode

LEMMA WorkerControl ==
  ASSUME IInv, Control, WorkerStarts \/ WorkerThrows \/ WorkerOnOK,
         UNCHANGED <<chunkCallbacks, nativeStream, writingLastChunk, flushing, flushed, eof, errors>>
  PROVE  Control'
<1>1. /\ UNCHANGED <<internal, coder, lastCodeResult, inbufs, outbufs, processedChunks>>
      /\ UNCHANGED <<shouldFinish, job, readChunks, calls>>
      /\ pc = pc' \/ (WorkerOnOK /\ pc = "idle" /\ pc' = "outbufs")
  BY DEF WorkerStarts, WorkerThrows, WorkerOnOK, coding, settings, locals
<1>2. /\ calls = <<>> /\ (InQueue \/ Counted)
      /\ WorkerOnOK => Returned
  BY DEF IInv, WorkerStarts, WorkerThrows, WorkerOnOK, Token, NoChunk, InQueue, BeingRead, Counted,
     Reported, Queued, Working, Returned, Handling, Quiet
<1>3. CallsInOrder' /\ ~BufComes' /\ ~NullComes' /\ ~ErrorComes' /\ ~NullComes /\ ~ErrorComes
  BY <1>1, <1>2 DEF CallsInOrder, BufComes, NullComes, ErrorComes
<1>4. ~Reported /\ ~Reported' /\ ~NoChunk'
  BY <1>1, <1>2 DEF Reported, NoChunk, LastIsNumber, InQueue, Counted
<1>5. /\ pc \notin {"chunks", "reset"}
      /\ InQueue' => InQueue
      /\ Counted => Counted'
  <2>1. pc \notin {"chunks", "reset"}
    BY <1>2, <1>3 DEF Control, ResultHeld
  <2>2. InQueue' => InQueue
    BY <1>1, <1>2 DEF InQueue, Counted
  <2>3. Counted => Counted'
    <3> SUFFICES ASSUME Counted PROVE Counted'
      OBVIOUS
    <3>1. Token'
      BY WorkerToken DEF IInv
    <3> QED
      BY <1>1, <1>2, <3>1 DEF Token, NoChunk, InQueue, BeingRead, Counted, Reported
  <2> QED
    BY <2>1, <2>2, <2>3
<1>6. NothingHeld' /\ ResultHeld'
  BY <1>1, <1>2, <1>3, <1>4, <1>5 DEF Control, NothingHeld, ResultHeld, InQueue, Counted
<1> QED
  BY <1>1, <1>3, <1>4, <1>6
  DEF Control, CoderFree, SequenceRuns, Silent, Flushes, EncoderEnds, Replaced, Decoder

(* Where the handlers are. *)
LEMMA HandlersFind ==
  ASSUME IInv, Control, InvokeBufferHandlers
  PROVE  /\ pc \in {"outbufs", "chunks", "reset"} /\ calls \in Seq(Call) /\ outbufs \in Seq(SUBSET Units)
         /\ pc = "outbufs" => /\ InQueue \/ Counted
                              /\ NoNumbers /\ ~NullComes /\ ~ErrorComes
         /\ pc = "chunks" => Counted /\ NoNumbers
         /\ pc = "reset" => Reported
         /\ pc \in {"chunks", "reset"} =>
              /\ lastCodeResult # "OK" /\ outbufs = <<>> /\ (NullComes \/ ErrorComes)
              /\ internal
         /\ InQueue => outbufs = <<>> /\ lastCodeResult = "OK"
<1>1. pc \in {"outbufs", "chunks", "reset"}
  BY DEF InvokeBufferHandlers, HandOutput, HandResult, HandChunks, HandNothing,
     HandChunksBeforeReset, HandReset
<1>2. calls \in Seq(Call) /\ outbufs \in Seq(SUBSET Units)
  BY DEF IInv, TypeOK, NativeTypeOK
<1>3. pc = "outbufs" => InQueue \/ Counted
  BY DEF IInv, Token, NoChunk, InQueue, BeingRead, Counted, Reported, Queued, Working, Returned,
     Handling, Quiet
<1>4. pc = "outbufs" => NoNumbers /\ ~NullComes /\ ~ErrorComes
  BY <1>3 DEF Control, ResultHeld, InQueue, Counted
<1>5. pc \in {"chunks", "reset"} =>
        /\ lastCodeResult # "OK" /\ outbufs = <<>> /\ (NullComes \/ ErrorComes)
        /\ internal /\ (Counted \/ pc = "reset")
  BY DEF Control, ResultHeld
<1>6. pc = "reset" => Reported
  <2>1. ~InQueue \/ calls = <<>>
    BY DEF Control, NothingHeld
  <2>2. calls = <<>> => ~NullComes /\ ~ErrorComes
    BY DEF NullComes, ErrorComes
  <2> QED
    BY <1>5, <2>1, <2>2 DEF IInv, Token, NoChunk, InQueue, BeingRead, Counted, Reported, Queued,
       Working, Returned, Handling, Quiet
<1>7. pc = "chunks" => Counted /\ NoNumbers
  BY <1>5 DEF Counted
<1>8. InQueue => outbufs = <<>> /\ lastCodeResult = "OK"
  BY <1>6 DEF Control, NothingHeld, ResultHeld, InQueue, Counted, Reported
<1> QED
  BY <1>1, <1>2, <1>3, <1>4, <1>5, <1>6, <1>7, <1>8

LEMMA HandlersControl ==
  ASSUME IInv, Control, InvokeBufferHandlers, Token',
         UNCHANGED <<chunkCallbacks, nativeStream, writingLastChunk, flushing, flushed, eof, errors>>
  PROVE  Control'
<1> USE HandlersFind
<1>0. /\ UNCHANGED <<inbufs, readChunks, shouldFinish, job>>
      /\ CallsInOrder /\ calls \in Seq(Call)
      /\ Reported /\ pc = "idle" => FALSE
  BY DEF InvokeBufferHandlers, HandOutput, HandResult, HandChunks, HandNothing,
     HandChunksBeforeReset, HandReset, coding, settings, locals, Control
<1>1. CASE HandOutput
  <2>1. /\ UNCHANGED <<internal, coder, lastCodeResult, processedChunks, pc>> /\ pc = "outbufs"
        /\ calls' = Append(calls, BufCall(Head(outbufs))) /\ outbufs # <<>> /\ outbufs' = Tail(outbufs)
    BY <1>1 DEF HandOutput, threads
  <2>2. CallsInOrder' /\ BufComes' /\ ~NullComes' /\ ~ErrorComes'
    BY <1>0, <2>1, OneMoreCall DEF BufCall
  <2>3. Counted /\ internal
    BY <2>1 DEF Control, CoderFree, ResultHeld, Silent, NothingHeld
  <2>4. Counted'
    BY <1>0, <2>1, <2>3 DEF Token, Counted, NoChunk, InQueue, BeingRead, Reported
  <2>5. NothingHeld' /\ ResultHeld'
    BY <2>1, <2>2, <2>3, <2>4
    DEF Control, NothingHeld, ResultHeld, Counted, NoChunk, InQueue, Reported
  <2>6. ~eof
    BY <2>1, <2>3 DEF Control, Silent
  <2> QED
    BY <1>0, <2>1, <2>2, <2>3, <2>5, <2>6
    DEF Control, CoderFree, SequenceRuns, Silent, Flushes, EncoderEnds, Replaced, Decoder
<1>2. CASE HandResult
  <2> DEFINE call == IF lastCodeResult = "STREAM_END" THEN NullCall ELSE ErrorCall
  <2>1. /\ UNCHANGED <<internal, coder, lastCodeResult, processedChunks, outbufs>>
        /\ pc = "outbufs" /\ pc' = "chunks"
        /\ calls' = Append(calls, call) /\ outbufs = <<>> /\ lastCodeResult # "OK"
    BY <1>2 DEF HandResult, coding
  <2>2. /\ call.kind = "null" <=> lastCodeResult = "STREAM_END"
        /\ call.kind = "error" <=> lastCodeResult = "ERROR"
        /\ call.kind \in {"null", "error"}
    BY <2>1 DEF NullCall, ErrorCall, IInv, TypeOK, NativeTypeOK, CodeResults
  <2> HIDE DEF call
  <2>3. /\ CallsInOrder' /\ BufComes' = BufComes
        /\ NullComes' <=> lastCodeResult = "STREAM_END"
        /\ ErrorComes' <=> lastCodeResult = "ERROR"
    <3>1. /\ CallsInOrder'
          /\ BufComes' <=> BufComes \/ call.kind = "buf"
          /\ NullComes' <=> NullComes \/ call.kind = "null"
          /\ ErrorComes' <=> ErrorComes \/ call.kind = "error"
      BY <1>0, <2>1, <2>2, OneMoreCall
    <3>2. BufComes \in BOOLEAN /\ BufComes' \in BOOLEAN
      BY DEF BufComes
    <3> QED
      BY <2>1, <2>2, <3>1, <3>2
  <2>4. Counted /\ internal
    BY <2>1 DEF Control, ResultHeld
  <2>5. Counted'
    BY <1>0, <2>1, <2>4 DEF Token, Counted, NoChunk, InQueue, BeingRead, Reported
  <2>6. NothingHeld' /\ ResultHeld'
    BY <2>1, <2>2, <2>3, <2>4, <2>5 DEF Control, NothingHeld, ResultHeld, Counted, NoChunk, InQueue, Reported
  <2>7. ~eof
    BY <2>1, <2>4 DEF Control, Silent
  <2> QED
    BY <1>0, <2>1, <2>3, <2>4, <2>6, <2>7
    DEF Control, CoderFree, SequenceRuns, Silent, Flushes, EncoderEnds, Replaced, Decoder
<1>3. CASE HandChunks
  <2>1. /\ UNCHANGED <<internal, coder, lastCodeResult, outbufs>>
        /\ pc = "outbufs" /\ pc' = "idle" /\ processedChunks > 0
        /\ calls' = Append(calls, NumberCall(processedChunks)) /\ outbufs = <<>> /\ lastCodeResult = "OK"
    BY <1>3 DEF HandChunks, HandlersReturn
  <2>2. /\ CallsInOrder' /\ ~NullComes' /\ ~ErrorComes'
        /\ BufComes' <=> BufComes
    BY <1>0, <2>1, OneMoreCall DEF NumberCall
  <2>3. Counted
    BY <2>1 DEF InQueue
  <2>4. Reported' /\ ~NoChunk' /\ ~InQueue'
    <3>1. processedChunks' = 0
      BY <1>3 DEF HandChunks
    <3>2. \E i \in DOMAIN calls' : calls'[i].kind = "number"
      BY <1>0, <2>1 DEF NumberCall
    <3> QED
      BY <1>0, <2>1, <2>3, <3>1, <3>2 DEF Token, NoChunk, InQueue, BeingRead, Counted, Reported, NoNumbers
  <2>5. NothingHeld' /\ ResultHeld'
    BY <2>1, <2>2, <2>4 DEF NothingHeld, ResultHeld, Reported, Counted
  <2> QED
    BY <1>0, <2>1, <2>2, <2>3, <2>4, <2>5, Zenon
    DEF Control, CoderFree, SequenceRuns, Silent, Flushes, EncoderEnds, Replaced, Decoder
<1>4. CASE HandNothing
  <2>1. /\ UNCHANGED <<internal, coder, lastCodeResult, processedChunks, outbufs, calls>>
        /\ pc = "outbufs" /\ pc' = "idle" /\ processedChunks = 0
        /\ outbufs = <<>> /\ lastCodeResult = "OK"
    BY <1>4 DEF HandNothing, HandlersReturn, coding
  <2>2. /\ CallsInOrder' = CallsInOrder /\ BufComes' = BufComes
        /\ NullComes' = NullComes /\ ErrorComes' = ErrorComes
    BY <2>1, SameCalls
  <2>3. InQueue /\ calls = <<>> /\ ~Reported'
    BY <2>1 DEF Counted, Control, NothingHeld, Reported, LastIsNumber
  <2>4. NothingHeld' /\ ResultHeld'
    BY <2>1, <2>2, <2>3 DEF NothingHeld, ResultHeld, InQueue, Counted
  <2> QED
    BY <1>0, <2>1, <2>2, <2>3, <2>4
    DEF Control, CoderFree, SequenceRuns, Silent, Flushes, EncoderEnds, Replaced, Decoder
<1>5. CASE HandChunksBeforeReset
  <2>1. /\ UNCHANGED <<internal, coder, lastCodeResult, outbufs>>
        /\ pc = "chunks" /\ pc' = "reset" /\ processedChunks > 0
        /\ calls' = Append(calls, NumberCall(processedChunks))
    BY <1>5 DEF HandChunksBeforeReset
  <2>2. /\ CallsInOrder'
        /\ BufComes' <=> BufComes
        /\ NullComes' <=> NullComes
        /\ ErrorComes' <=> ErrorComes
    BY <1>0, <2>1, OneMoreCall DEF NumberCall
  <2>3. ~NoChunk' /\ ~InQueue'
    <3>1. \E i \in DOMAIN calls' : calls'[i].kind = "number"
      BY <1>0, <2>1 DEF NumberCall
    <3>2. calls' # <<>>
      BY <1>0, <2>1
    <3> QED
      BY <3>1, <3>2 DEF NoChunk, InQueue, NoNumbers
  <2>4. NothingHeld' /\ ResultHeld'
    BY <2>1, <2>2, <2>3 DEF Control, NothingHeld, ResultHeld
  <2> QED
    BY <1>0, <2>1, <2>2, <2>4
    DEF Control, CoderFree, SequenceRuns, Silent, Flushes, EncoderEnds, Replaced, Decoder
<1>6. CASE HandReset
  <2>1. /\ ~internal' /\ coder' = FreshCoder /\ lastCodeResult' = "OK" /\ processedChunks' = 0
        /\ UNCHANGED <<outbufs, calls>> /\ pc \in {"chunks", "reset"} /\ pc' = "idle"
        /\ pc = "chunks" => processedChunks = 0
    BY <1>6 DEF HandReset, resetUnderlying, HandlersReturn
  <2>2. /\ CallsInOrder' = CallsInOrder /\ BufComes' = BufComes
        /\ NullComes' = NullComes /\ ErrorComes' = ErrorComes
    BY <2>1, SameCalls
  <2>3. pc = "reset" /\ Reported
    BY <2>1 DEF Counted
  <2>4. Reported' /\ ~NoChunk' /\ ~InQueue'
    <3>1. LastIsNumber' /\ ~NoNumbers'
      BY <2>1, <2>3 DEF Reported, LastIsNumber, NoNumbers
    <3> QED
      BY <1>0, <2>1, <2>3, <3>1 DEF Token, NoChunk, InQueue, BeingRead, Counted, Reported
  <2>5. NothingHeld' /\ ResultHeld'
    BY <2>1, <2>2, <2>4 DEF Control, NothingHeld, ResultHeld, Reported, Counted
  <2>6. ~eof
    BY <2>1 DEF Control, Silent
  <2> QED
    BY <1>0, <2>1, <2>2, <2>4, <2>5, <2>6
    DEF Control, CoderFree, SequenceRuns, Silent, Flushes, EncoderEnds, Replaced, Decoder, FreshCoder
<1> QED
  BY <1>1, <1>2, <1>3, <1>4, <1>5, <1>6 DEF InvokeBufferHandlers

LEMMA NativeTurnControl ==
  ASSUME IInv, Control, NativeTurn
  PROVE  Control'
<1>1. UNCHANGED <<chunkCallbacks, nativeStream, writingLastChunk, flushing, flushed, eof, errors>>
  BY DEF NativeTurn, streamVars, transformVars, outputVars
<1>2. Token'
  BY NativeTurnIInv
<1> QED
  BY <1>1, <1>2, CodingControl, WorkerControl, HandlersControl DEF NativeTurn, NativeStep

(* Nothing is with the native object and the next chunk may be given to    *)
(* it, or the stream only goes on.                                         *)
LEMMA TransformControl ==
  ASSUME IInv, Control, Clear, outbufs = <<>>, lastCodeResult = "OK", calls' = <<>>, ~flushing,
         UNCHANGED <<nativeStream, writingLastChunk, flushing, flushed, eof, errors>>,
         (Decoder => job.restartable) /\ nativeStream => internal /\ ~eof,
         NEW chunk \in Chunk, Transform(chunk, <<>>)
  PROVE  Control'
<1>1. CallsInOrder' /\ ~BufComes' /\ ~NullComes' /\ ~ErrorComes'
  BY DEF CallsInOrder, BufComes, NullComes, ErrorComes
<1>2. /\ UNCHANGED <<internal, coder, lastCodeResult, outbufs, processedChunks, job>>
      /\ shouldFinish' = shouldFinish
      /\ pc' \in {"idle", "coding", "aborted"}
      /\ chunkCallbacks' # <<>> => chunkCallbacks'[1].kind = "write"
  <2>1. CASE nativeUnchanged /\ chunkCallbacks' = <<>>
    BY <2>1 DEF nativeUnchanged, coding, settings, threads, Clear
  <2>2. CASE \E data : /\ ~Empty(data) /\ Code(data, ~synchronous)
                       /\ chunkCallbacks' = Append(<<>>, WriteCallback(RestOf(chunk)))
    <3>1. chunkCallbacks'[1] = WriteCallback(RestOf(chunk))
      BY <2>2
    <3> QED
      BY <2>2, <3>1 DEF Code, WriteCallback, Clear, IInv, TypeOK, NativeTypeOK
  <2> QED
    BY <2>1, <2>2 DEF Transform
<1>3. ~Counted' /\ ~Reported'
  BY <1>2 DEF Counted, Reported, LastIsNumber, Clear
<1>4. NothingHeld' /\ ResultHeld'
  BY <1>1, <1>2, <1>3 DEF NothingHeld, ResultHeld
<1> QED
  BY <1>1, <1>2, <1>4
  DEF Control, CoderFree, SequenceRuns, Silent, Flushes, EncoderEnds, Replaced, Decoder

LEMMA CleanupControl ==
  ASSUME Control, Released, lastCodeResult = "OK", processedChunks = 0, outbufs = <<>>, pc = "idle",
         (~NoChunk' /\ ~InQueue' /\ Len(chunkCallbacks') = 1) \/ calls' = <<>>,
         CallsInOrder', ~BufComes', ~NullComes', ~ErrorComes', cleanup,
         eof', errors' > 0 \/ flushed', writingLastChunk' = flushing', flushed' => flushing',
         shouldFinish => flushing',
         chunkCallbacks' # <<>> => (chunkCallbacks'[1].kind = "flush" <=> flushing')
  PROVE  Control'
<1>1. /\ ~internal' /\ coder' = FreshCoder /\ lastCodeResult' = "OK" /\ processedChunks' = 0
      /\ UNCHANGED <<outbufs, shouldFinish, job, pc>> /\ ~nativeStream'
  BY DEF cleanup, ResetUnderlying, nativeUnchanged, coding, settings, threads, Released, Control, CoderFree
<1>2. ~Counted' /\ (NoChunk' \/ InQueue' => calls' = <<>>)
  BY <1>1 DEF Counted
<1>3. NothingHeld' /\ ResultHeld'
  BY <1>1, <1>2 DEF NothingHeld, ResultHeld
<1> QED
  BY <1>1, <1>3
  DEF Control, CoderFree, SequenceRuns, Silent, Flushes, EncoderEnds, Replaced, FreshCoder

LEMMA StartWriteControl ==
  ASSUME IInv, Control, StartWrite
  PROVE  Control'
<1>1. ~writing /\ ~flushing
  BY DEF IInv, StartWrite, OneAtATime, TypeOK
<1>2. NoChunk /\ Clear /\ chunkCallbacks = <<>> /\ calls = <<>>
  BY <1>1, HandOverIsClear DEF IInv
<1>3. outbufs = <<>> /\ lastCodeResult = "OK" /\ ~NullComes /\ ~ErrorComes
  BY <1>2, NoCalls DEF Control, NothingHeld, ResultHeld, NoChunk, Counted
<1>4. (Decoder => job.restartable) /\ nativeStream => internal /\ ~eof
  BY <1>1, <1>3 DEF Control, Replaced
<1>5. [lo |-> taken, hi |-> written] \in Chunk
  BY MakeChunk, FileFacts DEF IInv, StartWrite, TypeOK, NativeTypeOK
<1>6. /\ Transform([lo |-> taken, hi |-> written], <<>>) /\ calls' = <<>>
      /\ UNCHANGED <<nativeStream, writingLastChunk, flushing, flushed, eof, errors>>
  BY <1>2 DEF StartWrite, outputVars
<1> QED
  BY <1>1, <1>2, <1>3, <1>4, <1>5, <1>6, TransformControl

LEMMA FlushControl ==
  ASSUME IInv, Control, Flush
  PROVE  Control'
<1>1. ~writing /\ ~flushing /\ flushing' /\ writingLastChunk' /\ calls' = calls /\ errors' = errors
  BY DEF Flush
<1>2. NoChunk /\ Clear /\ chunkCallbacks = <<>> /\ calls' = <<>>
  BY <1>1, HandOverIsClear DEF IInv
<1>3. /\ outbufs = <<>> /\ lastCodeResult = "OK" /\ ~NullComes /\ ~ErrorComes /\ ~Counted
  BY <1>2, NoCalls DEF Control, NothingHeld, ResultHeld, NoChunk, Counted
<1>4. CallsInOrder' /\ ~BufComes' /\ ~NullComes' /\ ~ErrorComes'
  BY <1>2 DEF CallsInOrder, BufComes, NullComes, ErrorComes
<1>5. CASE /\ cleanup /\ flushed' = TRUE /\ eof' = TRUE
           /\ UNCHANGED chunkCallbacks
  BY <1>1, <1>2, <1>3, <1>4, <1>5, CleanupControl DEF IInv, Clear, Quiet
<1>6. CASE nativeUnchanged /\ ~nativeStream /\ UNCHANGED <<flushed, eof, chunkCallbacks, nativeStream, countVars>>
  <2>1. /\ UNCHANGED <<internal, coder, lastCodeResult, outbufs, processedChunks, job, shouldFinish, pc>>
    BY <1>6 DEF nativeUnchanged, coding, settings, threads
  <2>2. ~Counted' /\ ~Reported'
    BY <1>2, <2>1 DEF Counted, Reported, LastIsNumber, Clear
  <2>3. NothingHeld' /\ ResultHeld'
    BY <1>2, <1>3, <1>4, <2>1, <2>2 DEF NothingHeld, ResultHeld, Clear
  <2> QED
    BY <1>1, <1>2, <1>4, <1>6, <2>1, <2>3
    DEF Control, CoderFree, SequenceRuns, Silent, Flushes, EncoderEnds, Replaced, Decoder
<1>7. CASE /\ nativeStream
           /\ chunkCallbacks' = Append(chunkCallbacks, FlushCallback)
           /\ Code(NoInput, ~synchronous)
           /\ UNCHANGED <<flushed, eof, nativeStream, countVars>>
  <2>1. /\ UNCHANGED <<internal, coder, lastCodeResult, outbufs, processedChunks, job>>
        /\ pc' \in {"idle", "coding", "aborted"}
    BY <1>2, <1>7 DEF Code, Clear
  <2>2. chunkCallbacks'[1].kind = "flush"
    BY <1>2, <1>7 DEF FlushCallback
  <2>3. ~Counted' /\ ~Reported'
    BY <1>2, <2>1 DEF Counted, Reported, LastIsNumber, Clear
  <2>4. NothingHeld' /\ ResultHeld'
    BY <1>2, <1>3, <1>4, <2>1, <2>3 DEF NothingHeld, ResultHeld
  <2> QED
    BY <1>1, <1>2, <1>3, <1>4, <1>7, <2>1, <2>2, <2>4
    DEF Control, CoderFree, SequenceRuns, Silent, Flushes, EncoderEnds, Replaced, Decoder
<1> QED
  BY <1>5, <1>6, <1>7 DEF Flush

(* What an immediate finds when it is served. *)
LEMMA ImmediateServed ==
  ASSUME IInv, Control, NEW kind, Immediate(kind)
  PROVE  /\ Reported /\ Quiet /\ pc = "idle" /\ inbufs = <<>> /\ readChunks = 0 /\ processedChunks = 0
         /\ Len(chunkCallbacks) = 1 /\ outbufs = <<>> /\ lastCodeResult = "OK"
         /\ CallsInOrder' /\ calls' \in Seq(Call)
         /\ kind \in {"null", "error"} => ~internal
         /\ kind \in {"buf", "null", "error"} => ~eof /\ errors = 0
         /\ kind # "buf" => ~BufComes' /\ ~NullComes' /\ ~ErrorComes'
         /\ kind = "number" => calls' = <<>> /\ ~NullComes /\ ~ErrorComes
<1>1. /\ Quiet /\ pc = "idle" /\ readChunks = 0 /\ processedChunks = 0 /\ Len(chunkCallbacks) = 1
      /\ InQueue \/ Reported
      /\ kind = "number" => calls' = <<>>
  BY ImmediateFinds DEF IInv
<1>2. Reported
  BY <1>1 DEF Control, NothingHeld, Immediate
<1>3. outbufs = <<>> /\ lastCodeResult = "OK"
  BY <1>1, <1>2 DEF Control, NothingHeld, ResultHeld, Counted
<1>4. calls \in Seq(Call) /\ CallsInOrder
  BY DEF IInv, TypeOK, NativeTypeOK, Control
<1>5. /\ CallsInOrder'
      /\ kind # "null" /\ NullComes => NullComes'
      /\ kind # "error" /\ ErrorComes => ErrorComes'
      /\ kind # "buf" => ~BufComes' /\ ~NullComes' /\ ~ErrorComes'
      /\ kind = "buf" => BufComes
      /\ kind = "null" => NullComes
      /\ kind = "error" => ErrorComes
  BY <1>4, OneCallLess
<1>6. kind \in {"null", "error"} => ~internal
  BY <1>1, <1>5 DEF Control, ResultHeld
<1>7. kind \in {"buf", "null", "error"} => ~eof
  BY <1>5 DEF Control, Silent
<1>8. kind \in {"buf", "null", "error"} => errors = 0
  BY <1>7 DEF Control, Silent, IInv, TypeOK
<1> QED
  BY <1>1, <1>2, <1>3, <1>4, <1>5, <1>6, <1>7, <1>8 DEF Reported, Immediate

LEMMA ImmediatesControl ==
  ASSUME IInv, Control, Immediates
  PROVE  Control'
<1>1. CASE OnError
  <2> USE <1>1 DEF OnError
  <2>1. /\ outbufs = <<>> /\ lastCodeResult = "OK" /\ inbufs = <<>> /\ pc = "idle" /\ processedChunks = 0
        /\ CallsInOrder' /\ ~BufComes' /\ ~NullComes' /\ ~ErrorComes'
        /\ errors = 0 /\ Len(chunkCallbacks) = 1 /\ readChunks = 0
    BY ImmediateServed
  <2>2. cleanup /\ eof' /\ errors' > 0
    BY <2>1
  <2>3. /\ UNCHANGED <<flushing, flushed, chunkCallbacks, writingLastChunk>>
    BY DEF transformVars
  <2>4. inbufs' = <<>>
    BY <2>1, <2>2 DEF cleanup, ResetUnderlying, nativeUnchanged, coding
  <2>5. ~NoChunk' /\ ~InQueue'
    BY <2>1, <2>3, <2>4 DEF NoChunk, InQueue
  <2> QED
    BY <2>1, <2>2, <2>3, <2>5, CleanupControl DEF IInv, Control, Flushes
<1>2. CASE OnBuffer
  <2> USE <1>2 DEF OnBuffer
  <2>1. /\ Reported /\ outbufs = <<>> /\ lastCodeResult = "OK" /\ inbufs = <<>> /\ pc = "idle"
        /\ CallsInOrder' /\ ~eof /\ Len(chunkCallbacks) = 1 /\ processedChunks = 0
    BY ImmediateServed
  <2>2. /\ UNCHANGED <<internal, coder, lastCodeResult, inbufs, outbufs, processedChunks>>
        /\ UNCHANGED <<readChunks, pc, shouldFinish, job>>
        /\ UNCHANGED <<flushing, flushed, chunkCallbacks, writingLastChunk, nativeStream, eof, errors>>
    BY DEF nativeUnchanged, coding, locals, threads, settings, transformVars, streamVars
  <2>3. /\ NullComes' => NullComes
        /\ ErrorComes' => ErrorComes
        /\ NullComes => NullComes'
        /\ ErrorComes => ErrorComes'
    BY OneCallLess DEF IInv, TypeOK, NativeTypeOK, Control
  <2>4. ~NoChunk' /\ ~InQueue' /\ ~Counted'
    BY <2>1, <2>2 DEF NoChunk, InQueue, Counted
  <2>5. NothingHeld' /\ ResultHeld'
    BY <2>1, <2>2, <2>3, <2>4 DEF Control, NothingHeld, ResultHeld
  <2> QED
    BY <2>1, <2>2, <2>3, <2>5
    DEF Control, CoderFree, SequenceRuns, Silent, Flushes, EncoderEnds, Replaced, Decoder
<1>3. CASE OnStreamEnd
  <2> USE <1>3 DEF OnStreamEnd
  <2>1. /\ Reported /\ outbufs = <<>> /\ lastCodeResult = "OK" /\ inbufs = <<>> /\ pc = "idle"
        /\ CallsInOrder' /\ ~BufComes' /\ ~NullComes' /\ ~ErrorComes'
        /\ ~internal /\ ~eof /\ errors = 0 /\ Len(chunkCallbacks) = 1 /\ processedChunks = 0
        /\ readChunks = 0
    BY ImmediateServed
  <2>2. NullComes
    BY OneCallLess DEF IInv, TypeOK, NativeTypeOK, Control
  <2>3. /\ UNCHANGED <<lastCodeResult, inbufs, outbufs, processedChunks, readChunks, pc, shouldFinish, job>>
        /\ UNCHANGED <<flushing, flushed, chunkCallbacks, writingLastChunk, nativeStream, errors>>
        /\ coder' = FreshCoder
    BY <2>1 DEF nativeUnchanged, restart, ResetUnderlying, coding, locals, threads, settings, transformVars,
       streamVars, Control, CoderFree
  <2>4. \/ ~internal' /\ eof' /\ (Decoder => job.restartable) /\ nativeStream /\ flushing
        \/ ~internal' /\ eof' /\ ~((Decoder => job.restartable) /\ nativeStream)
        \/ internal' /\ ~eof'
    <3>1. CASE writingLastChunk
      BY <2>1, <3>1 DEF nativeUnchanged, coding, Control, Flushes
    <3>2. CASE ~writingLastChunk /\ nativeStream /\ job.restartable
      BY <2>1, <3>2 DEF restart, ResetUnderlying
    <3>3. CASE ~writingLastChunk /\ ~(nativeStream /\ job.restartable)
      BY <2>1, <2>2, <3>3 DEF nativeUnchanged, coding, Control, Flushes, EncoderEnds
    <3> QED
      BY <3>1, <3>2, <3>3
  <2>5. ~NoChunk' /\ ~InQueue' /\ ~Counted'
    BY <2>1, <2>3 DEF NoChunk, InQueue, Counted
  <2>6. Reported'
    <3>1. Immediates
      BY <1>3, Zenon DEF Immediates
    <3>2. Token'
      BY <3>1, ImmediatesIInv, Zenon
    <3> QED
      BY <2>1, <2>3, <2>5, <3>2 DEF Token, BeingRead
  <2>7. NothingHeld' /\ ResultHeld' /\ CoderFree' /\ SequenceRuns'
    BY <2>1, <2>3, <2>5 DEF NothingHeld, ResultHeld, CoderFree, SequenceRuns, FreshCoder
  <2>8. Silent' /\ Flushes' /\ EncoderEnds'
    BY <2>1, <2>3, <2>4 DEF Silent, Flushes, EncoderEnds, Control
  <2>9. Replaced'
    BY <2>1, <2>3, <2>4, <2>6 DEF Replaced, Decoder
  <2> QED
    BY <2>1, <2>7, <2>8, <2>9 DEF Control
<1>4. CASE OnNumber
  <2> DEFINE left == SubSeq(chunkCallbacks, Head(calls).n + 1, Len(chunkCallbacks))
             callback == Head(chunkCallbacks)
  <2>1. Immediate("number")
    BY <1>4 DEF OnNumber
  <2>2. /\ outbufs = <<>> /\ lastCodeResult = "OK" /\ inbufs = <<>> /\ pc = "idle" /\ readChunks = 0
        /\ processedChunks = 0 /\ calls' = <<>> /\ ~NullComes /\ ~ErrorComes /\ Quiet
        /\ CallsInOrder' /\ ~BufComes' /\ ~NullComes' /\ ~ErrorComes'
        /\ Len(chunkCallbacks) = 1
    BY <2>1, ImmediateServed
  <2>3. Head(calls).n = 1
    BY <2>1, ImmediateFinds DEF IInv
  <2>4. left = <<>> /\ callback = chunkCallbacks[1] /\ callback \in Callback /\ chunkCallbacks # <<>>
    <3>1. chunkCallbacks \in Seq(Callback) /\ chunkCallbacks # <<>>
      BY <2>2 DEF IInv, TypeOK
    <3>2. left = <<>>
      BY <2>2, <2>3, <3>1
    <3> QED
      BY <2>2, <3>1, <3>2
  <2> HIDE DEF left, callback
  <2>5. callback.kind = "flush" <=> flushing
    BY <2>4 DEF Control, Flushes
  <2>6. UNCHANGED <<flushing, writingLastChunk, errors>>
    BY <1>4 DEF OnNumber
  <2>7. callback.rest \in Chunk
    BY <2>4 DEF Callback
  <2>8. CASE /\ callback.kind = "write"
             /\ Transform(callback.rest, left)
             /\ UNCHANGED <<flushed, eof, nativeStream, countVars>>
    <3>1. ~flushing
      BY <2>5, <2>8
    <3>2. (Decoder => job.restartable) /\ nativeStream => internal /\ ~eof
      BY <2>2, <3>1 DEF Control, Replaced
    <3> QED
      BY <2>2, <2>4, <2>6, <2>7, <2>8, <3>1, <3>2, TransformControl DEF Clear
  <2>9. CASE /\ callback.kind = "write"
             /\ chunkCallbacks' = left
             /\ nativeUnchanged
             /\ UNCHANGED <<flushed, eof, isFinished, nativeStream, countVars>>
    <3>1. ~flushing
      BY <2>5, <2>9
    <3>2. /\ UNCHANGED <<internal, coder, lastCodeResult, outbufs, processedChunks, job, shouldFinish, pc>>
      BY <2>9 DEF nativeUnchanged, coding, settings, threads
    <3>3. ~Counted' /\ ~Reported'
      BY <2>2, <3>2 DEF Counted, Reported, LastIsNumber
    <3>4. NothingHeld' /\ ResultHeld'
      BY <2>2, <3>2, <3>3 DEF NothingHeld, ResultHeld
    <3> QED
      BY <2>2, <2>4, <2>6, <2>9, <3>1, <3>2, <3>4
      DEF Control, CoderFree, SequenceRuns, Silent, Flushes, EncoderEnds, Replaced, Decoder
  <2>10. CASE /\ callback.kind = "flush"
              /\ cleanup /\ chunkCallbacks' = left
              /\ flushed' = TRUE /\ eof' = TRUE
    <3>1. flushing /\ writingLastChunk
      BY <2>5, <2>10 DEF Control, Flushes
    <3> QED
      BY <2>2, <2>4, <2>6, <2>10, <3>1, CleanupControl DEF IInv
  <2> QED
    BY <1>4, <2>8, <2>9, <2>10 DEF OnNumber, left, callback
<1> QED
  BY <1>1, <1>2, <1>3, <1>4 DEF Immediates

LEMMA NextControl == IInv /\ Control /\ [Next]_vars => Control'
<1> SUFFICES ASSUME IInv, Control, [Next]_vars PROVE Control'
  OBVIOUS
<1>1. CASE UNCHANGED vars
  <2>1. /\ UNCHANGED <<internal, coder, lastCodeResult, inbufs, outbufs, processedChunks>>
        /\ UNCHANGED <<readChunks, mutex, workers, finished, pc, calls, shouldFinish, job>>
        /\ UNCHANGED <<chunkCallbacks, nativeStream, writingLastChunk, flushing, flushed, eof, errors>>
    BY <1>1 DEF vars, nativeVars, coding, settings, locals, threads, transformVars, outputVars, streamVars
  <2>2. /\ CallsInOrder' = CallsInOrder /\ BufComes' = BufComes
        /\ NullComes' = NullComes /\ ErrorComes' = ErrorComes
    BY <2>1, SameCalls
  <2>3. NoChunk' = NoChunk /\ InQueue' = InQueue /\ Counted' = Counted /\ Reported' = Reported
    BY <2>1, SamePlaces
  <2> QED
    BY <2>1, <2>2, <2>3
    DEF Control, CoderFree, SequenceRuns, NothingHeld, ResultHeld, Silent, Flushes, EncoderEnds,
        Replaced, Decoder
<1> QED
  BY <1>1, StartWriteControl, FlushControl, ImmediatesControl, CallerControl, NativeTurnControl
  DEF Next, Rest

LEMMA ControlInductive == Spec => [](IInv /\ Control)
<1>1. Init => IInv /\ Control
  BY InitIInv, InitControl
<1>2. IInv /\ Control /\ [Next]_vars => (IInv /\ Control)'
  BY NextIInv, NextControl
<1> QED
  BY <1>1, <1>2, PTL DEF Spec

(* Behind push(null) no output comes any more, in whatever order the       *)
(* threads, the immediates and the caller take their turns: bufferHandler  *)
(* would push it in vain.                                                  *)
THEOREM StreamNothingAfterEof == Spec => []NothingAfterEof
<1>1. Control => NothingAfterEof
  BY DEF Control, Silent, BufComes, NothingAfterEof
<1> QED
  BY <1>1, ControlInductive, PTL

(* Whenever the coding loop is entered there is a coder, also behind the   *)
(* end of a member and behind chunks of padding.                           *)
THEOREM StreamCoderAtHand == Spec => []CoderAtHand
<1>1. IInv /\ Control => CoderAtHand
  <2> SUFFICES ASSUME IInv, Control, Coding, Decoder => job.restartable, ~internal PROVE FALSE
    BY DEF CoderAtHand
  <2>1. Working /\ calls = <<>> /\ processedChunks = 0
    BY WorkingAlone DEF IInv
  <2>2. nativeStream
    BY <2>1 DEF IInv, Released, Working
  <2>3. ~NullComes /\ ~ErrorComes /\ ~Reported
    BY <2>1, NoCalls DEF Reported, LastIsNumber
  <2> QED
    BY <2>2, <2>3 DEF Control, Replaced
<1> QED
  BY <1>1, ControlInductive, PTL

-----------------------------------------------------------------------------
(* Nobody waits in vain *)

(* What has not called back yet is with the native object, or there is     *)
(* none any more.                                                          *)
Expecting ==
  nativeStream /\ (writing \/ (flushing /\ ~flushed)) => chunkCallbacks # <<>>

(* A chunk in the queue has a thread that is on its way to it. *)
Awaited ==
  (Decoder => job.restartable) /\ inbufs # <<>> => Queued \/ Working \/ pc = "aborted"

LEMMA CodeAwaited ==
  ASSUME Clear \/ inbufs = <<>>,
         \/ nativeUnchanged
         \/ \E again : ResetUnderlying(again)
         \/ Clear /\ \E chunk, async : Code(chunk, async)
  PROVE  Awaited'
<1>1. CASE nativeUnchanged \/ \E again : ResetUnderlying(again)
  <2>1. inbufs' = <<>>
    BY <1>1 DEF Clear, nativeUnchanged, coding, ResetUnderlying
  <2> QED
    BY <2>1 DEF Awaited
<1>2. CASE Clear /\ \E chunk, async : Code(chunk, async)
  <2>1. Queued' \/ Working' \/ pc' = "aborted"
    BY <1>2 DEF Code, Clear, Quiet, Queued, Working
  <2> QED
    BY <2>1 DEF Awaited
<1> QED
  BY <1>1, <1>2

LEMMA TransformExpects ==
  ASSUME Clear, ~flushing', UNCHANGED nativeStream, NEW chunk, Transform(chunk, <<>>)
  PROVE  Expecting' /\ Awaited'
<1>1. CASE ~nativeStream /\ nativeUnchanged
  BY <1>1, CodeAwaited DEF Expecting
<1>2. CASE ~writing' /\ nativeUnchanged
  BY <1>2, CodeAwaited DEF Expecting
<1>3. CASE /\ \E data : Code(data, ~synchronous)
           /\ chunkCallbacks' = Append(<<>>, WriteCallback(RestOf(chunk)))
  <2>1. chunkCallbacks' # <<>>
    BY <1>3
  <2>2. Awaited'
    BY <1>3, CodeAwaited
  <2> QED
    BY <2>1, <2>2 DEF Expecting
<1> QED
  BY <1>1, <1>2, <1>3, Zenon DEF Transform

LEMMA StartWriteExpects ==
  ASSUME IInv, StartWrite
  PROVE  Expecting' /\ Awaited'
<1>1. ~writing /\ ~flushing
  BY DEF IInv, StartWrite, OneAtATime, TypeOK
<1>2. Clear /\ chunkCallbacks = <<>>
  BY <1>1, HandOverIsClear DEF IInv
<1>3. Transform([lo |-> taken, hi |-> written], <<>>) /\ ~flushing' /\ nativeStream' = nativeStream
  BY <1>1, <1>2 DEF StartWrite
<1> QED
  BY <1>2, <1>3, TransformExpects

LEMMA FlushExpects ==
  ASSUME IInv, Flush
  PROVE  Expecting' /\ Awaited'
<1>1. Clear /\ chunkCallbacks = <<>>
  BY HandOverIsClear DEF IInv, Flush
<1>2. CASE cleanup
  BY <1>1, <1>2, CodeAwaited DEF cleanup, Expecting
<1>3. CASE nativeUnchanged /\ ~nativeStream /\ UNCHANGED nativeStream
  BY <1>1, <1>3, CodeAwaited DEF Expecting
<1>4. CASE chunkCallbacks' = Append(chunkCallbacks, FlushCallback) /\ Code(NoInput, ~synchronous)
  <2>1. chunkCallbacks' # <<>>
    BY <1>1, <1>4
  <2> QED
    BY <1>1, <1>4, <2>1, CodeAwaited DEF Expecting
<1> QED
  BY <1>2, <1>3, <1>4 DEF Flush

LEMMA ImmediatesExpect ==
  ASSUME IInv, Control, Expecting, Immediates
  PROVE  Expecting' /\ Awaited'
<1>1. CASE OnError
  <2>1. inbufs = <<>> /\ errors = 0
    BY <1>1, ImmediateServed DEF OnError
  <2>2. cleanup
    BY <1>1, <2>1 DEF OnError
  <2> QED
    BY <2>1, <2>2, CodeAwaited DEF cleanup, Expecting
<1>2. CASE OnBuffer \/ OnStreamEnd
  <2>1. inbufs = <<>>
    BY <1>2, ImmediateServed DEF OnBuffer, OnStreamEnd
  <2>2. nativeUnchanged \/ \E again : ResetUnderlying(again)
    BY <1>2 DEF OnBuffer, OnStreamEnd, restart
  <2>3. UNCHANGED <<nativeStream, writing, flushing, flushed, chunkCallbacks>>
    BY <1>2 DEF OnBuffer, OnStreamEnd, transformVars, streamVars
  <2>4. Awaited'
    BY <2>1, <2>2, CodeAwaited
  <2> QED
    BY <2>3, <2>4 DEF Expecting
<1>3. CASE OnNumber
  <2> DEFINE left == SubSeq(chunkCallbacks, Head(calls).n + 1, Len(chunkCallbacks))
             callback == Head(chunkCallbacks)
  <2>1. Immediate("number")
    BY <1>3 DEF OnNumber
  <2>2. /\ inbufs = <<>> /\ pc = "idle" /\ readChunks = 0 /\ processedChunks = 0 /\ Quiet
        /\ Len(chunkCallbacks) = 1 /\ Head(calls).n = 1
    BY <2>1, ImmediateServed, ImmediateFinds DEF IInv
  <2>3. Clear
    BY <2>2 DEF Clear
  <2>4. left = <<>> /\ callback = chunkCallbacks[1] /\ chunkCallbacks # <<>>
    <3>1. chunkCallbacks \in Seq(Callback)
      BY DEF IInv, TypeOK
    <3>2. chunkCallbacks # <<>>
      BY <2>2
    <3>3. left = <<>>
      BY <2>2, <3>1
    <3> QED
      BY <3>1, <3>2, <3>3
  <2> HIDE DEF left, callback
  <2>5. callback.kind = "flush" <=> flushing
    BY <2>4 DEF Control, Flushes
  <2>6. flushing' = flushing
    BY <1>3 DEF OnNumber
  <2>7. CASE /\ callback.kind = "write"
             /\ Transform(callback.rest, left)
             /\ UNCHANGED nativeStream
    <3>1. ~flushing'
      BY <2>5, <2>6, <2>7
    <3> QED
      BY <2>3, <2>4, <2>7, <3>1, TransformExpects
  <2>8. CASE /\ callback.kind = "write"
             /\ writing' = FALSE
             /\ nativeUnchanged
    <3>1. ~flushing'
      BY <2>5, <2>6, <2>8
    <3>2. Awaited'
      BY <2>2, <2>8, CodeAwaited
    <3> QED
      BY <2>8, <3>1, <3>2 DEF Expecting
  <2>9. CASE cleanup
    BY <2>2, <2>9, CodeAwaited DEF cleanup, Expecting
  <2> QED
    BY <1>3, <2>7, <2>8, <2>9 DEF OnNumber, left, callback
<1> QED
  BY <1>1, <1>2, <1>3 DEF Immediates

LEMMA NativeTurnAwaits ==
  ASSUME IInv, Control, Awaited, bufsize <= MaxVector, NativeTurn
  PROVE  Awaited'
<1> SUFFICES ASSUME Decoder' => job'.restartable, inbufs' # <<>>
             PROVE  Queued' \/ Working' \/ pc' = "aborted"
  BY DEF Awaited
<1>1. job' = job
  BY DEF NativeTurn, NativeStep, DoLZMACode, NoCoder, FetchChunk, CodeProgress, CodeStuck, CodeFails,
     CodeEnded, AfterCode, WorkerStarts, WorkerThrows, WorkerOnOK, InvokeBufferHandlers, HandOutput,
     HandResult, HandChunks, HandNothing, HandChunksBeforeReset, HandReset, settings
<1>2. Decoder => job.restartable
  BY <1>1 DEF Decoder
<1>3. CASE NoCoder
  <2>1. Working /\ calls = <<>> /\ processedChunks = 0
    BY <1>3, WorkingAlone DEF IInv, NoCoder
  <2>2. nativeStream
    BY <2>1 DEF IInv, Released, Working
  <2>3. ~NullComes /\ ~ErrorComes /\ ~Reported
    BY <2>1, NoCalls DEF Reported, LastIsNumber
  <2> QED
    BY <1>2, <1>3, <2>2, <2>3 DEF Control, Replaced, NoCoder
<1>4. CASE FetchChunk
  <2>1. Len(inbufs) = 1 /\ inbufs \in Seq(Chunk)
    BY <1>4, WorkingAlone DEF IInv, FetchChunk, TypeOK, NativeTypeOK
  <2>2. inbufs' = <<>>
    BY <1>4, <2>1 DEF FetchChunk
  <2> QED
    BY <2>2
<1>5. CASE CodeProgress \/ CodeStuck \/ CodeFails \/ CodeEnded
  <2>1. CallsLzmaCode /\ inbufs' = inbufs
    BY <1>5 DEF CodeProgress, CodeStuck, CodeFails, CodeEnded, AfterCode
  <2> QED
    BY <2>1, LoopFinds
<1>6. CASE WorkerStarts
  <2>1. Queued \/ Working \/ pc = "aborted"
    BY <1>2, <1>6 DEF Awaited, WorkerStarts, coding
  <2> QED
    BY <1>6, <2>1 DEF WorkerStarts, Queued, Working
<1>7. CASE WorkerThrows
  BY <1>7, SizeAssumption DEF WorkerThrows, IInv, TypeOK, NativeTypeOK
<1>8. CASE WorkerOnOK
  <2>1. Queued \/ Working \/ pc = "aborted"
    BY <1>2, <1>8 DEF Awaited, WorkerOnOK, coding
  <2> QED
    BY <1>8, <2>1 DEF WorkerOnOK, Queued, Working
<1>9. CASE InvokeBufferHandlers
  <2>1. inbufs' = inbufs /\ pc \in {"outbufs", "chunks", "reset"}
    BY <1>9 DEF InvokeBufferHandlers, HandOutput, HandResult, HandChunks, HandNothing,
       HandChunksBeforeReset, HandReset, coding
  <2> QED
    BY <1>2, <2>1 DEF Awaited, Queued, Working
<1> QED
  BY <1>3, <1>4, <1>5, <1>6, <1>7, <1>8, <1>9 DEF NativeTurn, NativeStep, DoLZMACode

LEMMA NextExpects ==
  IInv /\ Control /\ Expecting /\ Awaited /\ bufsize <= MaxVector /\ [Next]_vars => Expecting' /\ Awaited'
<1> SUFFICES ASSUME IInv, Control, Expecting, Awaited, bufsize <= MaxVector, [Next]_vars
             PROVE  Expecting' /\ Awaited'
  OBVIOUS
<1>1. CASE \/ UNCHANGED vars \/ Rest
           \/ Write \/ EndInput \/ AssignBufsize \/ ReadBufsize
  <2>1. /\ UNCHANGED <<coding, job, threads, transformVars, streamVars>>
    BY <1>1 DEF Rest, Write, EndInput, AssignBufsize, ReadBufsize, SetBufsize, vars, nativeVars, settings
  <2> QED
    BY <2>1 DEF Expecting, Awaited, coding, threads, transformVars, streamVars, Decoder, Queued, Working
<1>2. CASE NativeTurn
  <2>1. UNCHANGED <<transformVars, streamVars>>
    BY <1>2 DEF NativeTurn
  <2>2. Expecting'
    BY <2>1 DEF Expecting, transformVars, streamVars
  <2> QED
    BY <1>2, <2>2, NativeTurnAwaits
<1> QED
  BY <1>1, <1>2, StartWriteExpects, FlushExpects, ImmediatesExpect DEF Next

LEMMA SomebodyTurns ==
  ASSUME IInv, NotAhead, Control, Expecting, Awaited
  PROVE  NeverStranded
<1> SUFFICES ASSUME Decoder => job.restartable, Unanswered, ~Over PROVE SomebodyIsDue
  BY DEF NeverStranded
<1>1. ~flushed /\ pc # "aborted" /\ nativeStream
  BY DEF Over, Control, Flushes
<1>2. CASE NoChunk
  <2>1. ~writing /\ ~flushing /\ pc = "idle"
    BY <1>1, <1>2 DEF Expecting, NoChunk
  <2>2. taken < written \/ (endCalled /\ taken = written)
    BY <2>1 DEF Unanswered, NotAhead, IInv, TypeOK
  <2> QED
    BY <2>1, <2>2 DEF SomebodyIsDue
<1>3. CASE InQueue
  <2>1. Queued \/ Working
    BY <1>1, <1>3 DEF InQueue, Awaited
  <2> QED
    BY <2>1 DEF SomebodyIsDue, NativeIsDue, Queued, Working, Coding
<1>4. CASE BeingRead
  BY <1>4 DEF SomebodyIsDue, NativeIsDue, BeingRead, Working, Coding
<1>5. CASE Counted
  BY <1>5 DEF SomebodyIsDue, NativeIsDue, Counted, Returned, Handling, Locked
<1>6. CASE Reported
  <2>1. CASE Handling({"reset"})
    BY <2>1 DEF SomebodyIsDue, NativeIsDue, Handling, Locked
  <2>2. CASE pc = "idle"
    <3>1. calls \in Seq(Call) /\ calls # <<>> /\ LastIsNumber /\ Len(chunkCallbacks) = 1
      BY <1>6 DEF Reported, LastIsNumber, IInv, TypeOK, NativeTypeOK
    <3>2. Head(calls).kind = "number" => Head(calls).n = 1
      BY <3>1 DEF LastIsNumber
    <3> QED
      BY <2>2, <3>1, <3>2 DEF SomebodyIsDue
  <2> QED
    BY <1>6, <2>1, <2>2 DEF Reported
<1> QED
  BY <1>2, <1>3, <1>4, <1>5, <1>6 DEF IInv, Token

(* As long as a write or the flush has not called back, some thread or     *)
(* callback has a turn to take: no chunk is left in a queue that nobody    *)
(* will look into, also behind the end of a member, and none of the two    *)
(* sides waits for the other.  What parks a chunk is a worker that cannot  *)
(* make its output vector (see EndsEventually), and a decoder that was not *)
(* to be restarted.                                                        *)
THEOREM StreamNeverStrands == Spec => NobodyWaitsInVain
<1>1. Init => Expecting /\ Awaited
  BY DEF Init, NativeInit, Expecting, Awaited
<1>2. IInv /\ Control /\ Expecting /\ Awaited /\ bufsize <= MaxVector /\ [Next]_vars
        => Expecting' /\ Awaited'
  BY NextExpects
<1>3. IInv /\ NotAhead /\ Control /\ Expecting /\ Awaited => NeverStranded
  BY SomebodyTurns
<1> QED
  BY <1>1, <1>2, <1>3, ControlInductive, WorkIsMeasured, PTL DEF Spec, NobodyWaitsInVain

(* A stream that has called back from _flush has let go of its native      *)
(* object.                                                                 *)
FlushedLetsGo == flushed => ~nativeStream

LEMMA NextLetsGo == FlushedLetsGo /\ [Next]_vars => FlushedLetsGo'
<1> SUFFICES ASSUME FlushedLetsGo, [Next]_vars PROVE FlushedLetsGo'
  OBVIOUS
<1>1. CASE Flush
  BY <1>1 DEF Flush, cleanup, FlushedLetsGo
<1>2. CASE OnError
  BY <1>2 DEF OnError, cleanup, FlushedLetsGo, transformVars
<1>3. CASE OnNumber
  BY <1>3 DEF OnNumber, cleanup, FlushedLetsGo
<1>4. CASE \/ UNCHANGED vars \/ Rest \/ NativeTurn \/ StartWrite \/ OnBuffer \/ OnStreamEnd
           \/ Write \/ EndInput \/ AssignBufsize \/ ReadBufsize
  <2>1. flushed' = flushed /\ nativeStream' = nativeStream
    BY <1>4 DEF Rest, NativeTurn, StartWrite, OnBuffer, OnStreamEnd, Write, EndInput, AssignBufsize,
       ReadBufsize, vars, transformVars, streamVars
  <2> QED
    BY <2>1 DEF FlushedLetsGo
<1> QED
  BY <1>1, <1>2, <1>3, <1>4 DEF Next, Immediates

(* A stream that has failed, or has called back from _flush, is not        *)
(* counted as open any more: cleanup comes before both, and no later step  *)
(* takes that back.  No fairness is needed.                                *)
THEOREM StreamOverIsCountedDown == Spec => OverIsCountedDown
<1>1. Init => FlushedLetsGo
  BY DEF Init, FlushedLetsGo
<1>2. IInv /\ Control /\ FlushedLetsGo => (errors > 0 \/ flushed => curAsyncStreamsCount = 0)
  <2> SUFFICES ASSUME IInv, Control, FlushedLetsGo, errors > 0 \/ flushed
               PROVE  curAsyncStreamsCount = 0
    OBVIOUS
  <2>1. ~nativeStream
    BY DEF Control, Silent, FlushedLetsGo
  <2> QED
    BY <2>1, Zenon DEF IInv, CountsOnce
<1> QED
  BY <1>1, <1>2, NextLetsGo, ControlInductive, PTL DEF Spec, OverIsCountedDown

-----------------------------------------------------------------------------
(* What is given out: pushed, then the calls, then outbufs *)

OutputOf(p, c, o) ==
  [i \in 0 .. (Len(c) + Len(o)) |->
     IF i = 0 THEN p ELSE IF i <= Len(c) THEN c[i].out ELSE o[i - Len(c)]]

OutputLength == Len(calls) + Len(outbufs)
Output == OutputOf(pushed, calls, outbufs)

Emitted == {u \in Units : \E i \in 0 .. OutputLength : u \in Output[i]}

Ordered ==
  \A i, j \in 0 .. OutputLength : i < j => \A u \in Output[i], v \in Output[j] : u < v

(* Only calls with a buffer carry output, and none is empty. *)
CallsCarry ==
  /\ \A i \in DOMAIN calls : calls[i].kind = "buf" <=> calls[i].out # {}
  /\ \A i \in DOMAIN outbufs : outbufs[i] # {}

Gapless ==
  /\ Emitted \subseteq Payload
  /\ \A u \in Emitted, v \in Payload : v < u => v \in Emitted

Outputs == Ordered /\ CallsCarry /\ Gapless

LEMMA OutputOfFacts ==
  ASSUME NEW C, NEW c \in Seq(C), NEW D, NEW o \in Seq(D), NEW p
  PROVE  /\ Len(c) \in Nat /\ Len(o) \in Nat
         /\ DOMAIN c = 1 .. Len(c) /\ DOMAIN o = 1 .. Len(o)
         /\ OutputOf(p, c, o)[0] = p
         /\ \A i \in 1 .. Len(c) : OutputOf(p, c, o)[i] = c[i].out
         /\ \A i \in 1 .. Len(o) : OutputOf(p, c, o)[Len(c) + i] = o[i]
         /\ \A i \in 0 .. (Len(c) + Len(o)) :
              \/ OutputOf(p, c, o)[i] = p
              \/ \E call \in C : OutputOf(p, c, o)[i] = call.out
              \/ OutputOf(p, c, o)[i] \in D
         /\ OutputOf(p, c, o) = [i \in 0 .. (Len(c) + Len(o)) |-> OutputOf(p, c, o)[i]]
<1>1. /\ Len(c) \in Nat /\ Len(o) \in Nat
      /\ DOMAIN c = 1 .. Len(c) /\ DOMAIN o = 1 .. Len(o)
      /\ \A i \in 1 .. Len(c) : c[i] \in C
      /\ \A i \in 1 .. Len(o) : o[i] \in D
  <2>1. Len(c) \in Nat /\ DOMAIN c = 1 .. Len(c) /\ \A i \in DOMAIN c : c[i] \in C
    OBVIOUS
  <2>2. Len(o) \in Nat /\ DOMAIN o = 1 .. Len(o) /\ \A i \in DOMAIN o : o[i] \in D
    OBVIOUS
  <2> QED
    BY <2>1, <2>2
<1> DEFINE n == Len(c) + Len(o)
<1>2. n \in Nat
  BY <1>1
<1>3. \A i \in 0 .. n : OutputOf(p, c, o)[i] =
        IF i = 0 THEN p ELSE IF i <= Len(c) THEN c[i].out ELSE o[i - Len(c)]
  BY DEF OutputOf
<1>4. OutputOf(p, c, o)[0] = p
  BY <1>2, <1>3
<1>5. \A i \in 1 .. Len(c) : OutputOf(p, c, o)[i] = c[i].out
  BY <1>1, <1>3
<1>6. \A i \in 1 .. Len(o) : OutputOf(p, c, o)[Len(c) + i] = o[i]
  <2> SUFFICES ASSUME NEW i \in 1 .. Len(o) PROVE OutputOf(p, c, o)[Len(c) + i] = o[i]
    OBVIOUS
  <2>1. /\ Len(c) + i \in 0 .. n /\ ~(Len(c) + i <= Len(c))
        /\ Len(c) + i # 0 /\ (Len(c) + i) - Len(c) = i
    BY <1>1
  <2> QED
    BY <1>3, <2>1
<1>7. \A i \in 0 .. n :
        \/ OutputOf(p, c, o)[i] = p
        \/ \E call \in C : OutputOf(p, c, o)[i] = call.out
        \/ OutputOf(p, c, o)[i] \in D
  <2> SUFFICES ASSUME NEW i \in 0 .. n
               PROVE  \/ OutputOf(p, c, o)[i] = p
                      \/ \E call \in C : OutputOf(p, c, o)[i] = call.out
                      \/ OutputOf(p, c, o)[i] \in D
    OBVIOUS
  <2>1. CASE i = 0
    BY <1>4, <2>1
  <2>2. CASE i \in 1 .. Len(c)
    BY <1>1, <1>5, <2>2
  <2>3. CASE i > Len(c)
    <3>1. i - Len(c) \in 1 .. Len(o) /\ Len(c) + (i - Len(c)) = i
      BY <1>1, <2>3
    <3>2. OutputOf(p, c, o)[i] = o[i - Len(c)]
      BY <1>6, <3>1
    <3> QED
      BY <1>1, <3>1, <3>2
  <2> QED
    BY <1>1, <2>1, <2>2, <2>3
<1>8. OutputOf(p, c, o) = [i \in 0 .. n |-> OutputOf(p, c, o)[i]]
  BY DEF OutputOf
<1> QED
  BY <1>1, <1>4, <1>5, <1>6, <1>7, <1>8

OutputShape ==
  /\ calls \in Seq(Call) /\ outbufs \in Seq(SUBSET Units)
  /\ Len(calls) \in Nat /\ Len(outbufs) \in Nat /\ OutputLength \in Nat
  /\ OutputLength = Len(calls) + Len(outbufs)
  /\ DOMAIN calls = 1 .. Len(calls) /\ DOMAIN outbufs = 1 .. Len(outbufs)
  /\ Output[0] = pushed
  /\ \A i \in 1 .. Len(calls) : Output[i] = calls[i].out
  /\ \A i \in 1 .. Len(outbufs) : Output[Len(calls) + i] = outbufs[i]
  /\ \A i \in 0 .. OutputLength : Output[i] \in SUBSET Units
  /\ Output = [i \in 0 .. OutputLength |-> Output[i]]
  /\ Units \subseteq Nat

LEMMA OutputFacts ==
  ASSUME TypeOK
  PROVE  OutputShape
<1>1. /\ pushed \in SUBSET Units /\ outbufs \in Seq(SUBSET Units)
      /\ calls \in Seq(Call) /\ Units \subseteq Nat
  BY FileFacts DEF TypeOK, NativeTypeOK
<1>2. \A call \in Call : call.out \in SUBSET Units
  BY DEF Call
<1>4. /\ Len(calls) \in Nat /\ Len(outbufs) \in Nat
      /\ DOMAIN calls = 1 .. Len(calls) /\ DOMAIN outbufs = 1 .. Len(outbufs)
      /\ Output[0] = pushed
      /\ \A i \in 1 .. Len(calls) : Output[i] = calls[i].out
      /\ \A i \in 1 .. Len(outbufs) : Output[Len(calls) + i] = outbufs[i]
      /\ \A i \in 0 .. OutputLength : Output[i] \in SUBSET Units
      /\ Output = [i \in 0 .. OutputLength |-> Output[i]]
  <2> DEFINE p == pushed
             c == calls
             o == outbufs
             U == Units
             C == Call
             D == SUBSET U
  <2>1. /\ p \in SUBSET U /\ o \in Seq(D) /\ c \in Seq(C) /\ D = SUBSET U
        /\ \A call \in C : call.out \in SUBSET U
    BY <1>1, <1>2
  <2>2. Output = OutputOf(p, c, o) /\ OutputLength = Len(c) + Len(o)
    BY DEF Output, OutputLength
  <2> HIDE DEF p, c, o, U, C, D
  <2>3. /\ Len(c) \in Nat /\ Len(o) \in Nat
        /\ DOMAIN c = 1 .. Len(c) /\ DOMAIN o = 1 .. Len(o)
        /\ OutputOf(p, c, o)[0] = p
        /\ \A i \in 1 .. Len(c) : OutputOf(p, c, o)[i] = c[i].out
        /\ \A i \in 1 .. Len(o) : OutputOf(p, c, o)[Len(c) + i] = o[i]
        /\ \A i \in 0 .. (Len(c) + Len(o)) :
             \/ OutputOf(p, c, o)[i] = p
             \/ \E call \in C : OutputOf(p, c, o)[i] = call.out
             \/ OutputOf(p, c, o)[i] \in D
        /\ OutputOf(p, c, o) = [i \in 0 .. (Len(c) + Len(o)) |-> OutputOf(p, c, o)[i]]
    BY <2>1, OutputOfFacts
  <2>4. \A i \in 0 .. (Len(c) + Len(o)) : OutputOf(p, c, o)[i] \in SUBSET U
    BY <2>1, <2>3
  <2> QED
    BY <2>2, <2>3, <2>4 DEF p, c, o, U
<1>5. OutputLength = Len(calls) + Len(outbufs) /\ OutputLength \in Nat
  BY <1>4 DEF OutputLength
<1> QED
  BY <1>1, <1>2, <1>4, <1>5 DEF OutputShape

LEMMA OutputFactsNext ==
  ASSUME TypeOK'
  PROVE  OutputShape'
<1>1. /\ pushed' \in SUBSET Units' /\ outbufs' \in Seq(SUBSET Units')
      /\ calls' \in Seq(Call') /\ job' \in Jobs
  BY DEF TypeOK, NativeTypeOK
<1>2. Units' \subseteq Nat
  BY DEF Units
<1>3. \A call \in Call' : call.out \in SUBSET Units'
  BY DEF Call
<1>4. /\ Len(calls') \in Nat /\ Len(outbufs') \in Nat
      /\ DOMAIN calls' = 1 .. Len(calls') /\ DOMAIN outbufs' = 1 .. Len(outbufs')
      /\ Output'[0] = pushed'
      /\ \A i \in 1 .. Len(calls') : Output'[i] = calls'[i].out
      /\ \A i \in 1 .. Len(outbufs') : Output'[Len(calls') + i] = outbufs'[i]
      /\ \A i \in 0 .. OutputLength' : Output'[i] \in SUBSET Units'
      /\ Output' = [i \in 0 .. OutputLength' |-> Output'[i]]
  <2> DEFINE p == pushed'
             c == calls'
             o == outbufs'
             U == Units'
             C == Call'
             D == SUBSET U
  <2>1. /\ p \in SUBSET U /\ o \in Seq(D) /\ c \in Seq(C) /\ D = SUBSET U
        /\ \A call \in C : call.out \in SUBSET U
    BY <1>1, <1>3
  <2>2. Output' = OutputOf(p, c, o) /\ OutputLength' = Len(c) + Len(o)
    BY DEF Output, OutputLength
  <2> HIDE DEF p, c, o, U, C, D
  <2>3. /\ Len(c) \in Nat /\ Len(o) \in Nat
        /\ DOMAIN c = 1 .. Len(c) /\ DOMAIN o = 1 .. Len(o)
        /\ OutputOf(p, c, o)[0] = p
        /\ \A i \in 1 .. Len(c) : OutputOf(p, c, o)[i] = c[i].out
        /\ \A i \in 1 .. Len(o) : OutputOf(p, c, o)[Len(c) + i] = o[i]
        /\ \A i \in 0 .. (Len(c) + Len(o)) :
             \/ OutputOf(p, c, o)[i] = p
             \/ \E call \in C : OutputOf(p, c, o)[i] = call.out
             \/ OutputOf(p, c, o)[i] \in D
        /\ OutputOf(p, c, o) = [i \in 0 .. (Len(c) + Len(o)) |-> OutputOf(p, c, o)[i]]
    BY <2>1, OutputOfFacts
  <2>4. \A i \in 0 .. (Len(c) + Len(o)) : OutputOf(p, c, o)[i] \in SUBSET U
    BY <2>1, <2>3
  <2> QED
    BY <2>2, <2>3, <2>4 DEF p, c, o, U
<1>5. OutputLength' = Len(calls') + Len(outbufs') /\ OutputLength' \in Nat
  BY <1>4 DEF OutputLength
<1> QED
  BY <1>1, <1>2, <1>4, <1>5 DEF OutputShape

(* What was put at the end comes after the rest. *)
LEMMA OutputGrows ==
  ASSUME TypeOK, TypeOK', Units' = Units, Payload' = Payload, NEW out \in SUBSET Units, Ordered, Gapless,
         OutputLength' = OutputLength + 1, Output'[OutputLength + 1] = out,
         \A i \in 0 .. OutputLength : Output'[i] = Output[i],
         \A u \in Emitted, v \in out : u < v,
         out \subseteq Payload,
         \A u \in out, v \in Payload : v < u => v \in Emitted \cup out
  PROVE  Ordered' /\ Gapless' /\ Emitted' = Emitted \cup out
<1>0. OutputShape /\ OutputShape'
  BY OutputFacts, OutputFactsNext
<1>1. OutputLength \in Nat /\ \A i \in 0 .. OutputLength : Output[i] \in SUBSET Units
  BY <1>0 DEF OutputShape
<1>2. Units \subseteq Nat
  BY <1>0 DEF OutputShape
<1>3. \A i \in 0 .. OutputLength, u \in Units : u \in Output[i] => u \in Emitted
  BY DEF Emitted
<1>4. Emitted' = Emitted \cup out
  <2>1. \A u \in Units : (\E i \in 0 .. OutputLength' : u \in Output'[i]) <=> (u \in Emitted \/ u \in out)
    <3> SUFFICES ASSUME NEW u \in Units
                 PROVE  (\E i \in 0 .. OutputLength' : u \in Output'[i]) <=> (u \in Emitted \/ u \in out)
      OBVIOUS
    <3>1. \A i \in 0 .. (OutputLength + 1) : i \in 0 .. OutputLength \/ i = OutputLength + 1
      BY <1>1
    <3>2. OutputLength + 1 \in 0 .. OutputLength' /\ \A i \in 0 .. OutputLength : i \in 0 .. OutputLength'
      BY <1>1
    <3> QED
      BY <3>1, <3>2 DEF Emitted
  <2> QED
    BY <2>1 DEF Emitted
<1>5. Ordered'
  <2> SUFFICES ASSUME NEW i \in 0 .. OutputLength', NEW j \in 0 .. OutputLength', i < j,
                      NEW u \in Output'[i], NEW v \in Output'[j]
               PROVE  u < v
    BY DEF Ordered
  <2>1. i \in 0 .. OutputLength /\ u \in Output[i] /\ u \in Units
    BY <1>1
  <2>2. CASE j \in 0 .. OutputLength
    BY <2>1, <2>2 DEF Ordered
  <2>3. CASE j = OutputLength + 1
    BY <1>3, <2>1, <2>3
  <2> QED
    BY <1>1, <2>2, <2>3
<1>6. Gapless'
  BY <1>1, <1>2, <1>4 DEF Gapless
<1> QED
  BY <1>4, <1>5, <1>6

LEMMA SameOutput ==
  ASSUME OutputLength' = OutputLength, Output' = Output, Units' = Units, Payload' = Payload
  PROVE  Ordered' = Ordered /\ Gapless' = Gapless /\ Emitted' = Emitted
<1>1. Emitted' = Emitted
  BY DEF Emitted
<1> QED
  BY <1>1 DEF Ordered, Gapless

(* The first call is served, and what it carries is pushed. *)
LEMMA OutputServed ==
  ASSUME TypeOK, TypeOK', Units' = Units, Payload' = Payload, Ordered, CallsCarry, Gapless, calls # <<>>,
         calls' = Tail(calls), outbufs' = outbufs, pushed' = pushed \cup Head(calls).out
  PROVE  Ordered' /\ CallsCarry' /\ Gapless' /\ Emitted' = Emitted
<1>0. OutputShape /\ OutputShape'
  BY OutputFacts, OutputFactsNext
<1>1. /\ calls \in Seq(Call) /\ Len(calls) \in Nat /\ Len(outbufs) \in Nat /\ OutputLength \in Nat
      /\ Len(calls) >= 1 /\ Len(calls') = Len(calls) - 1 /\ Head(calls) = calls[1]
      /\ \A i \in 1 .. Len(calls) - 1 : calls'[i] = calls[i + 1]
      /\ DOMAIN calls' = 1 .. Len(calls) - 1 /\ DOMAIN calls = 1 .. Len(calls)
  BY <1>0 DEF OutputShape
<1>2. OutputLength' = OutputLength - 1 /\ OutputLength >= 1
  BY <1>1 DEF OutputLength
<1>3. Output'[0] = Output[0] \cup Output[1]
  <2>1. Output'[0] = pushed' /\ Output[0] = pushed /\ 1 \in 1 .. Len(calls)
    BY <1>1, <1>0 DEF OutputShape
  <2>2. Output[1] = calls[1].out
    BY <2>1, <1>0 DEF OutputShape
  <2> QED
    BY <1>1, <2>1, <2>2
<1>4. \A i \in 1 .. OutputLength' : Output'[i] = Output[i + 1]
  <2> SUFFICES ASSUME NEW i \in 1 .. OutputLength' PROVE Output'[i] = Output[i + 1]
    OBVIOUS
  <2>1. CASE i <= Len(calls')
    <3>1. i \in 1 .. Len(calls') /\ i + 1 \in 1 .. Len(calls) /\ i \in 1 .. Len(calls) - 1
      BY <1>1, <2>1
    <3>2. Output'[i] = calls'[i].out
      BY <3>1, <1>0 DEF OutputShape
    <3>3. Output[i + 1] = calls[i + 1].out
      BY <3>1, <1>0 DEF OutputShape
    <3> QED
      BY <1>1, <3>1, <3>2, <3>3
  <2>2. CASE i > Len(calls')
    <3> DEFINE m == i - Len(calls')
    <3>1. /\ m \in 1 .. Len(outbufs) /\ i = Len(calls') + m /\ i + 1 = Len(calls) + m
          /\ m \in 1 .. Len(outbufs')
      BY <1>1, <1>2, <2>2 DEF OutputLength
    <3> HIDE DEF m
    <3>2. Output'[Len(calls') + m] = outbufs'[m]
      BY <3>1, <1>0 DEF OutputShape
    <3>3. Output[Len(calls) + m] = outbufs[m]
      BY <3>1, <1>0 DEF OutputShape
    <3> QED
      BY <3>1, <3>2, <3>3
  <2> QED
    BY <1>1, <1>2, <2>1, <2>2
<1>5. Emitted' = Emitted
  <2>1. \A u \in Units : (\E i \in 0 .. OutputLength' : u \in Output'[i]) <=> (\E i \in 0 .. OutputLength : u \in Output[i])
    <3> SUFFICES ASSUME NEW u \in Units
                 PROVE  /\ \A i \in 0 .. OutputLength' : u \in Output'[i] => \E j \in 0 .. OutputLength : u \in Output[j]
                        /\ \A j \in 0 .. OutputLength : u \in Output[j] => \E i \in 0 .. OutputLength' : u \in Output'[i]
      OBVIOUS
    <3>1. ASSUME NEW i \in 0 .. OutputLength', u \in Output'[i]
          PROVE  \E j \in 0 .. OutputLength : u \in Output[j]
      <4>1. 0 \in 0 .. OutputLength /\ 1 \in 0 .. OutputLength /\ i + 1 \in 0 .. OutputLength
        BY <1>1, <1>2
      <4>2. i = 0 \/ i \in 1 .. OutputLength'
        BY <1>2
      <4> QED
        BY <1>3, <1>4, <3>1, <4>1, <4>2
    <3>2. ASSUME NEW j \in 0 .. OutputLength, u \in Output[j]
          PROVE  \E i \in 0 .. OutputLength' : u \in Output'[i]
      <4>1. CASE j = 0 \/ j = 1
        <5>1. 0 \in 0 .. OutputLength'
          BY <1>1, <1>2
        <5> QED
          BY <1>3, <3>2, <4>1, <5>1
      <4>2. CASE j > 1
        <5>1. j - 1 \in 1 .. OutputLength' /\ (j - 1) + 1 = j /\ j - 1 \in 0 .. OutputLength'
          BY <1>1, <1>2, <4>2
        <5> QED
          BY <1>4, <3>2, <5>1
      <4> QED
        BY <4>1, <4>2
    <3> QED
      BY <3>1, <3>2
  <2> QED
    BY <2>1 DEF Emitted
<1>6. Ordered'
  <2> SUFFICES ASSUME NEW i \in 0 .. OutputLength', NEW j \in 0 .. OutputLength', i < j,
                      NEW u \in Output'[i], NEW v \in Output'[j]
               PROVE  u < v
    BY DEF Ordered
  <2>1. j \in 1 .. OutputLength' /\ j + 1 \in 0 .. OutputLength /\ v \in Output[j + 1]
    BY <1>1, <1>2, <1>4
  <2>2. CASE i = 0
    <3>1. 0 < j + 1 /\ 1 < j + 1 /\ 0 \in 0 .. OutputLength /\ 1 \in 0 .. OutputLength
      BY <1>1, <1>2, <2>1
    <3> QED
      BY <1>3, <2>1, <2>2, <3>1 DEF Ordered
  <2>3. CASE i > 0
    <3>1. i \in 1 .. OutputLength' /\ i + 1 \in 0 .. OutputLength /\ i + 1 < j + 1
      BY <1>1, <1>2, <2>1, <2>3
    <3>2. u \in Output[i + 1]
      BY <1>4, <3>1
    <3> QED
      BY <2>1, <3>1, <3>2 DEF Ordered
  <2> QED
    BY <2>2, <2>3
<1>7. CallsCarry'
  <2>1. \A i \in DOMAIN calls' : i + 1 \in DOMAIN calls /\ calls'[i] = calls[i + 1]
    BY <1>1
  <2> QED
    BY <2>1 DEF CallsCarry
<1> QED
  BY <1>5, <1>6, <1>7 DEF Gapless

(* A buffer changes hands from outbufs to a call. *)
LEMMA OutputHanded ==
  ASSUME TypeOK, TypeOK', outbufs # <<>>, calls' = Append(calls, BufCall(Head(outbufs))),
         outbufs' = Tail(outbufs), pushed' = pushed, CallsCarry
  PROVE  OutputLength' = OutputLength /\ Output' = Output /\ CallsCarry'
<1>0. OutputShape /\ OutputShape'
  BY OutputFacts, OutputFactsNext
<1>1. /\ Len(calls) \in Nat /\ Len(outbufs) \in Nat /\ OutputLength \in Nat /\ Len(outbufs) >= 1
      /\ Len(calls') = Len(calls) + 1 /\ Len(outbufs') = Len(outbufs) - 1
      /\ DOMAIN calls' = 1 .. Len(calls) + 1 /\ DOMAIN outbufs' = 1 .. Len(outbufs) - 1
      /\ DOMAIN calls = 1 .. Len(calls) /\ DOMAIN outbufs = 1 .. Len(outbufs)
      /\ calls'[Len(calls) + 1] = BufCall(outbufs[1])
      /\ \A i \in 1 .. Len(calls) : calls'[i] = calls[i]
      /\ \A i \in 1 .. Len(outbufs) - 1 : outbufs'[i] = outbufs[i + 1]
  BY <1>0 DEF OutputShape
<1>2. OutputLength' = OutputLength
  BY <1>1 DEF OutputLength
<1>3. \A i \in 0 .. OutputLength : Output'[i] = Output[i]
  <2> SUFFICES ASSUME NEW i \in 0 .. OutputLength PROVE Output'[i] = Output[i]
    OBVIOUS
  <2>1. CASE i = 0
    BY <2>1, <1>0 DEF OutputShape
  <2>2. CASE i \in 1 .. Len(calls)
    <3>1. i \in 1 .. Len(calls')
      BY <1>1, <2>2
    <3>2. Output'[i] = calls'[i].out
      BY <3>1, <1>0 DEF OutputShape
    <3> QED
      BY <1>1, <2>2, <3>2, <1>0 DEF OutputShape
  <2>3. CASE i = Len(calls) + 1
    <3>1. i \in 1 .. Len(calls') /\ 1 \in 1 .. Len(outbufs)
      BY <1>1, <2>3
    <3>2. Output'[i] = calls'[i].out
      BY <3>1, <1>0 DEF OutputShape
    <3>3. Output[Len(calls) + 1] = outbufs[1]
      BY <3>1, <1>0 DEF OutputShape
    <3> QED
      BY <1>1, <2>3, <3>2, <3>3 DEF BufCall
  <2>4. CASE i > Len(calls) + 1
    <3> DEFINE m == i - Len(calls')
    <3>1. /\ m \in 1 .. Len(outbufs') /\ m + 1 \in 1 .. Len(outbufs) /\ m \in 1 .. Len(outbufs) - 1
          /\ i = Len(calls') + m /\ i = Len(calls) + (m + 1)
      BY <1>1, <2>4 DEF OutputLength
    <3> HIDE DEF m
    <3>2. Output'[Len(calls') + m] = outbufs'[m]
      BY <3>1, <1>0 DEF OutputShape
    <3>3. Output[Len(calls) + (m + 1)] = outbufs[m + 1]
      BY <3>1, <1>0 DEF OutputShape
    <3> QED
      BY <1>1, <3>1, <3>2, <3>3
  <2> QED
    BY <1>1, <2>1, <2>2, <2>3, <2>4
<1>4. Output' = Output
  <2>1. Output = [i \in 0 .. OutputLength |-> Output[i]] /\ Output' = [i \in 0 .. OutputLength' |-> Output'[i]]
    BY <1>0 DEF OutputShape
  <2> QED
    BY <1>2, <1>3, <2>1
<1>5. CallsCarry'
  <2>1. \A i \in DOMAIN calls' : i \in DOMAIN calls \/ i = Len(calls) + 1
    BY <1>1
  <2>2. outbufs[1] # {}
    BY <1>1 DEF CallsCarry
  <2>3. \A i \in DOMAIN outbufs' : outbufs'[i] = outbufs[i + 1] /\ i + 1 \in DOMAIN outbufs
    BY <1>1
  <2> QED
    BY <1>1, <2>1, <2>2, <2>3 DEF CallsCarry, BufCall
<1> QED
  BY <1>2, <1>4, <1>5

(* A call without output is appended behind all output. *)
LEMMA OutputToldBehind ==
  ASSUME TypeOK, TypeOK', Units' = Units, Payload' = Payload, Outputs, outbufs = <<>>, outbufs' = <<>>,
         pushed' = pushed, NEW call, call.out = {}, call.kind # "buf", calls' = Append(calls, call)
  PROVE  Outputs' /\ Emitted' = Emitted
<1>0. OutputShape /\ OutputShape'
  BY OutputFacts, OutputFactsNext
<1>1. /\ Len(calls) \in Nat /\ Len(outbufs) = 0 /\ Len(outbufs') = 0 /\ OutputLength = Len(calls)
      /\ Len(calls') = Len(calls) + 1 /\ OutputLength' = OutputLength + 1 /\ OutputLength \in Nat
      /\ DOMAIN calls' = 1 .. Len(calls) + 1 /\ DOMAIN calls = 1 .. Len(calls)
      /\ calls'[Len(calls) + 1] = call
      /\ \A i \in 1 .. Len(calls) : calls'[i] = calls[i]
      /\ DOMAIN outbufs' = DOMAIN outbufs
  BY <1>0 DEF OutputShape, OutputLength
<1>2. \A i \in 0 .. OutputLength : Output'[i] = Output[i]
  <2> SUFFICES ASSUME NEW i \in 0 .. OutputLength PROVE Output'[i] = Output[i]
    OBVIOUS
  <2>1. CASE i = 0
    BY <2>1, <1>0 DEF OutputShape
  <2>2. CASE i \in 1 .. Len(calls)
    <3>1. i \in 1 .. Len(calls')
      BY <1>1, <2>2
    <3>2. Output'[i] = calls'[i].out
      BY <3>1, <1>0 DEF OutputShape
    <3> QED
      BY <1>1, <2>2, <3>2, <1>0 DEF OutputShape
  <2> QED
    BY <1>1, <2>1, <2>2
<1>3. Output'[OutputLength + 1] = {}
  <2>1. Len(calls) + 1 \in 1 .. Len(calls')
    BY <1>1
  <2>2. Output'[Len(calls) + 1] = calls'[Len(calls) + 1].out
    BY <2>1, <1>0 DEF OutputShape
  <2> QED
    BY <1>1, <2>2
<1>4. Ordered' /\ Gapless' /\ Emitted' = Emitted \cup {}
  <2>1. {} \in SUBSET Units
    OBVIOUS
  <2> QED
    BY <1>1, <1>2, <1>3, <2>1, OutputGrows DEF Outputs
<1>5. CallsCarry'
  <2>1. \A i \in DOMAIN calls' : i \in DOMAIN calls \/ i = Len(calls) + 1
    BY <1>1
  <2> QED
    BY <1>1, <2>1 DEF Outputs, CallsCarry
<1> QED
  BY <1>4, <1>5 DEF Outputs

(* The loop stores one more output buffer. *)
LEMMA OutputStored ==
  ASSUME TypeOK, TypeOK', Units' = Units, Payload' = Payload, Outputs, pushed' = pushed, calls' = calls,
         NEW out \in SUBSET Units, out # {}, outbufs' = Append(outbufs, out),
         \A u \in Emitted, v \in out : u < v,
         out \subseteq Payload,
         \A u \in out, v \in Payload : v < u => v \in Emitted \cup out
  PROVE  Outputs' /\ Emitted' = Emitted \cup out
<1>0. OutputShape /\ OutputShape'
  BY OutputFacts, OutputFactsNext
<1>1. /\ Len(calls) \in Nat /\ Len(outbufs) \in Nat /\ Len(outbufs') = Len(outbufs) + 1
      /\ OutputLength' = OutputLength + 1 /\ OutputLength \in Nat /\ OutputLength = Len(calls) + Len(outbufs)
      /\ DOMAIN outbufs' = 1 .. Len(outbufs) + 1 /\ DOMAIN outbufs = 1 .. Len(outbufs)
      /\ outbufs'[Len(outbufs) + 1] = out
      /\ \A i \in 1 .. Len(outbufs) : outbufs'[i] = outbufs[i]
  BY <1>0 DEF OutputShape, OutputLength
<1>2. \A i \in 0 .. OutputLength : Output'[i] = Output[i]
  <2> SUFFICES ASSUME NEW i \in 0 .. OutputLength PROVE Output'[i] = Output[i]
    OBVIOUS
  <2>1. CASE i = 0
    BY <2>1, <1>0 DEF OutputShape
  <2>2. CASE i \in 1 .. Len(calls)
    BY <2>2, <1>0 DEF OutputShape
  <2>3. CASE i > Len(calls)
    <3> DEFINE m == i - Len(calls)
    <3>1. m \in 1 .. Len(outbufs) /\ m \in 1 .. Len(outbufs') /\ i = Len(calls) + m
      BY <1>1, <2>3
    <3> HIDE DEF m
    <3>2. Output'[Len(calls') + m] = outbufs'[m]
      BY <3>1, <1>0 DEF OutputShape
    <3>3. Output[Len(calls) + m] = outbufs[m]
      BY <3>1, <1>0 DEF OutputShape
    <3> QED
      BY <1>1, <3>1, <3>2, <3>3
  <2> QED
    BY <1>1, <2>1, <2>2, <2>3
<1>3. Output'[OutputLength + 1] = out
  <2>1. Len(outbufs) + 1 \in 1 .. Len(outbufs') /\ Len(calls) + (Len(outbufs) + 1) = OutputLength + 1
    BY <1>1
  <2>2. Output'[Len(calls') + (Len(outbufs) + 1)] = outbufs'[Len(outbufs) + 1]
    BY <2>1, <1>0 DEF OutputShape
  <2> QED
    BY <1>1, <2>1, <2>2
<1>4. Ordered' /\ Gapless' /\ Emitted' = Emitted \cup out
  BY <1>1, <1>2, <1>3, OutputGrows DEF Outputs
<1>5. CallsCarry'
  <2>1. \A i \in DOMAIN outbufs' : i \in DOMAIN outbufs \/ i = Len(outbufs) + 1
    BY <1>1
  <2> QED
    BY <1>1, <2>1 DEF Outputs, CallsCarry
<1> QED
  BY <1>4, <1>5 DEF Outputs

-----------------------------------------------------------------------------
(* Where the input is, and what became of its payload *)

Restartable == Decoder /\ job.restartable

(* Nothing has failed. *)
Healthy == errors = 0 /\ lastCodeResult # "ERROR" /\ ~ErrorComes

(* What lies in front of it was taken in by a coder, or skipped. *)
Pos ==
  IF chunkCallbacks = <<>> \/ flushing THEN taken
  ELSE IF inbufs # <<>> THEN inbufs[1].lo
  ELSE IF readChunks = 1 THEN inbuf.lo
  ELSE chunkCallbacks[1].rest.lo

(* A chunk that starts here does not part the 'YZ' at a member's end. *)
Clean(l) == Restartable => \A e \in Ends : e = Len(File) \/ l # e - 1

(* A member that ends in the chunk ends with it. *)
Whole(chunk) == Restartable => \A e \in Ends : chunk.lo < e /\ e <= chunk.hi => e = chunk.hi

HandedOver ==
  /\ endCalled => written = Len(File)
  /\ taken <= written
  /\ written \in job.cuts \cup {0} /\ taken \in job.cuts \cup {0}
  /\ bufsize > 0

(* The piece of a chunk that is with the native object, and its rest. *)
WriteInHand ==
  chunkCallbacks # <<>> /\ ~flushing =>
    /\ chunkCallbacks[1].rest.hi = taken
    /\ ~Empty(chunkCallbacks[1].rest) => Clean(chunkCallbacks[1].rest.lo)
    /\ inbufs # <<>> => /\ inbufs[1].hi = chunkCallbacks[1].rest.lo
                        /\ ~Empty(inbufs[1]) /\ Whole(inbufs[1])
    /\ readChunks = 1 => inbuf.hi = chunkCallbacks[1].rest.lo /\ Whole(inbuf)

FlushInHand ==
  chunkCallbacks # <<>> /\ flushing =>
    /\ shouldFinish
    /\ inbufs # <<>> => inbufs[1] = NoInput
    /\ readChunks = 1 => inbuf = NoInput

(* The payload in front of Pos was given out or is with the coder.         *)
Accounted ==
  Healthy =>
    /\ \A u \in Payload : u <= Pos <=> u \in Emitted \/ u \in coder.pending
    /\ \A u \in Emitted, v \in coder.pending : u < v
    /\ coder.pending \subseteq Payload
    /\ lastCodeResult = "STREAM_END" => coder.pending = {}

MemberEndsAt(p) == IF job.restartable THEN p \in Ends ELSE \E e \in Ends : e <= p

(* A decoder tells the end of a member at the end of a member.             *)
MemberEnds ==
  /\ Decoder /\ (coder.ended \/ lastCodeResult = "STREAM_END" \/ NullComes) =>
       ~flushing /\ MemberEndsAt(Pos)
  /\ coder.ended => /\ Decoder
                    /\ job.restartable => Empty(inbuf)
                    /\ readChunks = 1 \/ lastCodeResult # "OK"

(* No decoder has read junk, a decoder of a single member has skipped it.  *)
JunkFree ==
  Healthy /\ Decoder =>
    \A u \in Units : u <= Pos /\ File[u] = "junk" => ~job.restartable /\ \A e \in Ends : e < u

(* Behind the end of a member there are only zeroes so far. *)
Padding(p) == \E e \in Ends : e <= p /\ \A u \in Units : e < u /\ u <= p => File[u] = "zero"

Finishing ==
  isFinished =>
    /\ Decoder /\ Clear /\ coder = FreshCoder
    /\ errors = 0 /\ ~NullComes /\ ~ErrorComes
    /\ IF job.restartable THEN Padding(Pos) ELSE eof

(* The callback of _flush is due when the result was told. *)
FlushAnswered ==
  /\ processedChunks > 0 /\ flushing => lastCodeResult # "OK"
  /\ ~NoNumbers /\ flushing /\ Healthy => eof \/ NullComes

Data ==
  /\ SoundJob /\ Outputs /\ HandedOver /\ WriteInHand /\ FlushInHand
  /\ Accounted /\ MemberEnds /\ JunkFree /\ Finishing /\ FlushAnswered

LEMMA SoundFacts ==
  ASSUME job \in Jobs, SoundJob
  PROVE  /\ ~job.timeout
         /\ Ends \subseteq Units /\ Units \subseteq Nat /\ Units = 1 .. Len(File) /\ Len(File) \in Nat
         /\ Payload \subseteq Units
         /\ Restartable => \A e \in Ends : \/ e = Len(File)
                                           \/ /\ e > 1 /\ File[e - 1] = "Y" /\ File[e] = "Z"
                                              /\ e - 1 \notin job.cuts
         /\ Decoder /\ ~job.restartable =>
              \A e \in Ends : /\ Ends = {e}
                              /\ \A u \in Units : u > e => File[u] \notin {"head", "data"}
<1>1. /\ Units \subseteq Nat /\ Units = 1 .. Len(File) /\ Len(File) \in Nat /\ Payload \subseteq Units
      /\ File \in Seq(Kinds)
  BY FileFacts DEF Units
<1>2. Ends \subseteq Units
  BY <1>1, JobsAssumption DEF IsJob, Ends, Units, File
<1>3. DOMAIN File = Units
  BY <1>1
<1> QED
  BY <1>1, <1>2, <1>3 DEF SoundJob, Sound, Restartable, Decoder, Ends, File

(* A write begins where no footer is parted. *)
LEMMA CutsAreClean ==
  ASSUME job \in Jobs, SoundJob, NEW l \in job.cuts \cup {0}
  PROVE  Clean(l)
BY SoundFacts DEF Clean

LEMMA PieceFits ==
  ASSUME job \in Jobs, SoundJob, NEW chunk \in Chunk, ~Empty(chunk), Clean(chunk.lo)
  PROVE  /\ FirstPiece(chunk).lo = chunk.lo
         /\ chunk.lo < FirstPiece(chunk).hi /\ FirstPiece(chunk).hi <= chunk.hi
         /\ Whole(FirstPiece(chunk))
         /\ RestOf(chunk).lo = FirstPiece(chunk).hi /\ RestOf(chunk).hi = chunk.hi
         /\ ~Empty(RestOf(chunk)) => /\ Clean(RestOf(chunk).lo)
                                     /\ File[FirstPiece(chunk).hi] = "Z"
<1>1. /\ chunk.lo \in Nat /\ chunk.hi \in Nat /\ chunk.lo < chunk.hi
      /\ chunk.hi <= Len(File) /\ Len(File) \in Nat
      /\ chunk = [lo |-> chunk.lo, hi |-> chunk.hi]
  BY ChunkFacts, FileFacts DEF Empty, Chunk
<1>2. RestOf(chunk).lo = FirstPiece(chunk).hi /\ RestOf(chunk).hi = chunk.hi
  BY DEF RestOf
<1>3. \A e \in Ends : Restartable =>
        \/ e = Len(File)
        \/ /\ e > 1 /\ File[e - 1] = "Y" /\ File[e] = "Z" /\ e - 1 # chunk.lo
           /\ chunk.lo < e /\ e <= chunk.hi => e - 1 \in IndexOfYZ(chunk)
  <2> SUFFICES ASSUME NEW e \in Ends, Restartable, e # Len(File)
               PROVE  /\ e > 1 /\ File[e - 1] = "Y" /\ File[e] = "Z" /\ e - 1 # chunk.lo
                      /\ chunk.lo < e /\ e <= chunk.hi => e - 1 \in IndexOfYZ(chunk)
    OBVIOUS
  <2>1. e > 1 /\ File[e - 1] = "Y" /\ File[e] = "Z" /\ e \in Nat
    BY SoundFacts
  <2>2. e - 1 # chunk.lo
    BY <1>1, <2>1 DEF Clean
  <2>3. ASSUME chunk.lo < e, e <= chunk.hi PROVE e - 1 \in IndexOfYZ(chunk)
    <3>1. e - 1 \in (chunk.lo + 1) .. (chunk.hi - 1) /\ (e - 1) + 1 = e
      BY <1>1, <2>1, <2>2, <2>3
    <3> QED
      BY <2>1, <3>1 DEF IndexOfYZ
  <2> QED
    BY <2>1, <2>2, <2>3
<1>4. Ends \subseteq Nat /\ \A e \in Ends : e <= Len(File)
  BY SoundFacts, <1>1
<1>5. CASE IndexOfYZ(chunk) = {}
  <2>1. FirstPiece(chunk) = chunk
    BY <1>5 DEF FirstPiece
  <2>2. Whole(chunk)
    <3> SUFFICES ASSUME Restartable, NEW e \in Ends, chunk.lo < e, e <= chunk.hi PROVE e = chunk.hi
      BY DEF Whole
    <3> QED
      BY <1>1, <1>3, <1>4, <1>5
  <2>3. Empty(RestOf(chunk))
    BY <1>2, <2>1 DEF Empty
  <2> QED
    BY <1>1, <1>2, <2>1, <2>2, <2>3
<1>6. CASE IndexOfYZ(chunk) # {}
  <2> DEFINE m == Smallest(IndexOfYZ(chunk))
  <2>1. IndexOfYZ(chunk) \in SUBSET Nat
    BY <1>1 DEF IndexOfYZ
  <2>2. m \in IndexOfYZ(chunk) /\ \A y \in IndexOfYZ(chunk) : m <= y
    BY <1>6, <2>1, SmallestFacts
  <2>3. m \in (chunk.lo + 1) .. (chunk.hi - 1) /\ File[m] = "Y" /\ File[m + 1] = "Z"
    BY <2>2 DEF IndexOfYZ
  <2>4. FirstPiece(chunk) = [chunk EXCEPT !.hi = m + 1]
    BY <1>6 DEF FirstPiece
  <2> HIDE DEF m
  <2>5. FirstPiece(chunk) = [lo |-> chunk.lo, hi |-> m + 1]
    BY <1>1, <2>4
  <2>6. Whole(FirstPiece(chunk))
    <3> SUFFICES ASSUME Restartable, NEW e \in Ends, chunk.lo < e, e <= m + 1 PROVE e = m + 1
      BY <2>5 DEF Whole
    <3>1. e \in Nat /\ m \in Nat /\ m + 1 <= chunk.hi /\ m + 1 <= Len(File)
      BY <1>1, <1>4, <2>3
    <3>2. CASE e = Len(File)
      BY <1>1, <3>1, <3>2
    <3>3. CASE e - 1 \in IndexOfYZ(chunk)
      BY <2>2, <3>1, <3>3
    <3> QED
      BY <1>1, <1>3, <3>1, <3>2, <3>3
  <2>7. Clean(m + 1)
    <3> SUFFICES ASSUME Restartable, NEW e \in Ends, e # Len(File), m + 1 = e - 1 PROVE FALSE
      BY DEF Clean
    <3> QED
      BY <1>3, <2>3
  <2> QED
    BY <1>1, <1>2, <2>3, <2>5, <2>6, <2>7
<1> QED
  BY <1>5, <1>6

LEMMA SkipFits ==
  ASSUME job \in Jobs, NEW chunk \in Chunk
  PROVE  /\ SkipLeadingZeroes(chunk).hi = chunk.hi
         /\ chunk.lo <= SkipLeadingZeroes(chunk).lo /\ SkipLeadingZeroes(chunk).lo <= chunk.hi
         /\ \A u \in Units : chunk.lo < u /\ u <= SkipLeadingZeroes(chunk).lo => File[u] = "zero"
<1> DEFINE S == {l \in chunk.lo .. chunk.hi : l = chunk.hi \/ File[l + 1] # "zero"}
           m == Smallest(S)
<1>1. /\ chunk.lo \in Nat /\ chunk.hi \in Nat /\ chunk.lo <= chunk.hi
      /\ chunk = [lo |-> chunk.lo, hi |-> chunk.hi]
  BY ChunkFacts DEF Chunk
<1>2. S \in SUBSET Nat /\ chunk.hi \in S
  BY <1>1
<1>3. m \in S /\ \A y \in S : m <= y
  BY <1>2, SmallestFacts
<1>4. m \in chunk.lo .. chunk.hi
  BY <1>3
<1>5. SkipLeadingZeroes(chunk) = [chunk EXCEPT !.lo = m]
  BY DEF SkipLeadingZeroes
<1> HIDE DEF m
<1>6. SkipLeadingZeroes(chunk) = [lo |-> m, hi |-> chunk.hi]
  BY <1>1, <1>5
<1>7. ASSUME NEW u \in Units, chunk.lo < u, u <= m PROVE File[u] = "zero"
  <2>1. u \in Nat
    BY FileFacts
  <2>2. u - 1 \in chunk.lo .. chunk.hi /\ (u - 1) + 1 = u /\ ~(m <= u - 1)
    BY <1>1, <1>4, <1>7, <2>1
  <2>3. u - 1 \notin S
    BY <1>3, <2>2
  <2> QED
    BY <2>2, <2>3
<1> QED
  BY <1>1, <1>4, <1>6, <1>7

(* What _transform gives to the coder, and what it leaves for later. *)
LEMMA TransformFits ==
  ASSUME job \in Jobs, SoundJob, NEW chunk \in Chunk, ~Empty(chunk), Clean(chunk.lo),
         NEW data, data = IF isFinished THEN SkipLeadingZeroes(FirstPiece(chunk)) ELSE FirstPiece(chunk)
  PROVE  /\ data \in Chunk /\ RestOf(chunk) \in Chunk
         /\ chunk.lo <= data.lo /\ data.lo <= chunk.hi
         /\ data.hi = RestOf(chunk).lo /\ RestOf(chunk).hi = chunk.hi
         /\ Whole(data)
         /\ ~Empty(RestOf(chunk)) => Clean(RestOf(chunk).lo)
         /\ data.lo # chunk.lo => isFinished
         /\ \A u \in Units : chunk.lo < u /\ u <= data.lo => File[u] = "zero"
         /\ Empty(data) => data.lo = chunk.hi
<1> DEFINE piece == FirstPiece(chunk)
<1>1. piece \in Chunk /\ RestOf(chunk) \in Chunk
  BY PieceFacts
<1>2. /\ piece.lo = chunk.lo /\ chunk.lo < piece.hi /\ piece.hi <= chunk.hi /\ Whole(piece)
      /\ RestOf(chunk).lo = piece.hi /\ RestOf(chunk).hi = chunk.hi
      /\ ~Empty(RestOf(chunk)) => Clean(RestOf(chunk).lo) /\ File[piece.hi] = "Z"
  BY PieceFits
<1> HIDE DEF piece
<1>3. /\ chunk.lo \in Nat /\ chunk.hi \in Nat /\ piece.lo \in Nat /\ piece.hi \in Nat
      /\ piece.hi <= Len(File) /\ Len(File) \in Nat
  BY <1>1, ChunkFacts, FileFacts
<1>4. CASE ~isFinished
  <2>1. data = piece
    BY <1>4 DEF piece
  <2>2. \A u \in Units : ~(chunk.lo < u /\ u <= data.lo)
    BY <1>2, <1>3, <2>1, FileFacts
  <2> QED
    BY <1>1, <1>2, <1>3, <2>1, <2>2 DEF Empty
<1>5. CASE isFinished
  <2>1. data = SkipLeadingZeroes(piece) /\ data \in Chunk
    BY <1>1, <1>5, SkipFacts DEF piece
  <2>2. /\ data.hi = piece.hi /\ piece.lo <= data.lo /\ data.lo <= piece.hi /\ data.lo \in Nat
        /\ \A u \in Units : piece.lo < u /\ u <= data.lo => File[u] = "zero"
    BY <1>1, <2>1, SkipFits, ChunkFacts
  <2>3. Whole(data)
    <3> SUFFICES ASSUME Restartable, NEW e \in Ends, data.lo < e, e <= data.hi PROVE e = data.hi
      BY DEF Whole
    <3>1. e \in Nat
      BY SoundFacts
    <3> QED
      BY <1>2, <1>3, <2>2, <3>1 DEF Whole
  <2>4. ASSUME Empty(data) PROVE data.lo = chunk.hi
    <3>1. data.lo = piece.hi
      BY <2>2, <2>4 DEF Empty
    <3>2. piece.hi \in Units
      BY <1>2, <1>3, FileFacts
    <3>3. File[piece.hi] = "zero"
      BY <1>2, <1>3, <2>2, <3>1, <3>2
    <3>4. Empty(RestOf(chunk))
      BY <1>2, <3>3
    <3> QED
      BY <1>2, <3>1, <3>4 DEF Empty
  <2> QED
    BY <1>1, <1>2, <1>3, <1>5, <2>1, <2>2, <2>3, <2>4
<1> QED
  BY <1>4, <1>5

-----------------------------------------------------------------------------
(* Steps that leave the chunk where it is *)

LEMMA SameHand ==
  ASSUME UNCHANGED <<job, chunkCallbacks, flushing, taken, inbufs, readChunks, inbuf, shouldFinish>>
  PROVE  /\ Pos' = Pos /\ WriteInHand' = WriteInHand /\ FlushInHand' = FlushInHand
         /\ SoundJob' = SoundJob /\ Units' = Units /\ Payload' = Payload /\ File' = File
         /\ Ends' = Ends /\ Decoder' = Decoder
BY DEF Pos, WriteInHand, FlushInHand, SoundJob, Clean, Whole, Restartable, Decoder, Ends, File, Units,
   Payload

LEMMA StillData ==
  ASSUME Data,
         UNCHANGED <<job, chunkCallbacks, flushing, taken, inbufs, readChunks, inbuf, shouldFinish>>,
         HandedOver', Outputs', Emitted' = Emitted,
         Healthy' => /\ Healthy /\ coder'.pending = coder.pending
                     /\ lastCodeResult' = "STREAM_END" => lastCodeResult = "STREAM_END",
         coder'.ended => coder.ended /\ lastCodeResult' = lastCodeResult,
         lastCodeResult' = "STREAM_END" => lastCodeResult = "STREAM_END",
         NullComes' => NullComes \/ lastCodeResult = "STREAM_END",
         Finishing', FlushAnswered'
  PROVE  Data'
<1>1. /\ Pos' = Pos /\ WriteInHand' /\ FlushInHand' /\ SoundJob' /\ Units' = Units
      /\ Payload' = Payload /\ File' = File /\ Ends' = Ends /\ Decoder' = Decoder
  BY SameHand DEF Data
<1>2. Accounted'
  BY <1>1 DEF Data, Accounted
<1>3. MemberEnds'
  BY <1>1 DEF Data, MemberEnds, MemberEndsAt
<1>4. JunkFree'
  BY <1>1 DEF Data, JunkFree
<1> QED
  BY <1>1, <1>2, <1>3, <1>4 DEF Data

LEMMA InitData ==
  ASSUME Init, SoundJob
  PROVE  Data
<1>1. TypeOK /\ calls = <<>> /\ outbufs = <<>> /\ pushed = {}
  BY InitTypes DEF Init, NativeInit
<1>2. Len(calls) = 0 /\ Len(outbufs) = 0 /\ OutputLength = 0
  BY <1>1 DEF OutputLength
<1>3. Output[0] = {}
  BY <1>1, OutputFacts DEF OutputShape
<1>4. Emitted = {}
  BY <1>2, <1>3 DEF Emitted
<1>5. Outputs
  <2>1. Ordered
    BY <1>2 DEF Ordered
  <2>2. CallsCarry
    BY <1>1 DEF CallsCarry
  <2> QED
    BY <1>4, <2>1, <2>2 DEF Outputs, Gapless
<1>6. HandedOver
  BY SizeAssumption DEF Init, NativeInit, HandedOver
<1>7. WriteInHand /\ FlushInHand /\ Pos = 0
  BY DEF Init, WriteInHand, FlushInHand, Pos
<1>8. Accounted
  <2>1. \A u \in Payload : ~(u <= 0)
    BY <1>1, FileFacts DEF TypeOK, NativeTypeOK
  <2> QED
    BY <1>4, <1>7, <2>1 DEF Init, NativeInit, FreshCoder, Accounted
<1>9. MemberEnds
  BY <1>1, NoCalls DEF Init, NativeInit, FreshCoder, MemberEnds
<1>10. JunkFree
  <2>1. \A u \in Units : ~(u <= 0)
    BY <1>1, FileFacts DEF TypeOK, NativeTypeOK
  <2> QED
    BY <1>7, <2>1 DEF JunkFree
<1>11. Finishing /\ FlushAnswered
  BY DEF Init, Finishing, FlushAnswered
<1> QED
  BY <1>5, <1>6, <1>7, <1>8, <1>9, <1>10, <1>11 DEF Data

(* A step without output, calls or a result. *)
LEMMA SameTelling ==
  ASSUME UNCHANGED <<job, calls, outbufs, pushed>>
  PROVE  /\ Outputs' = Outputs /\ Emitted' = Emitted
         /\ NullComes' = NullComes /\ ErrorComes' = ErrorComes /\ NoNumbers' = NoNumbers
<1>1. Units' = Units /\ Payload' = Payload
  BY DEF Units, Payload, Decoder, File
<1>2. OutputLength' = OutputLength /\ Output' = Output
  BY DEF OutputLength, Output
<1>3. Ordered' = Ordered /\ Gapless' = Gapless /\ Emitted' = Emitted
  BY <1>1, <1>2, SameOutput
<1>4. CallsCarry' = CallsCarry
  BY DEF CallsCarry
<1> QED
  BY <1>3, <1>4 DEF Outputs, NullComes, ErrorComes, NoNumbers

LEMMA CallerData ==
  ASSUME IInv, Control, Data, Write \/ EndInput \/ AssignBufsize \/ ReadBufsize
  PROVE  Data'
<1>1. /\ UNCHANGED <<coding, locals, threads, calls, shouldFinish, job>>
      /\ UNCHANGED <<transformVars, outputVars, countVars, streamVars>>
  BY DEF Write, EndInput, AssignBufsize, ReadBufsize, SetBufsize, nativeVars, settings
<1>2. /\ UNCHANGED <<internal, coder, lastCodeResult, inbufs, outbufs, processedChunks>>
      /\ UNCHANGED <<inbuf, readChunks, mutex, workers, finished, pc, calls, shouldFinish, job>>
      /\ UNCHANGED <<chunkCallbacks, isFinished, flushing, taken, pushed, eof, errors>>
  BY <1>1 DEF coding, locals, threads, transformVars, outputVars, streamVars
<1>3. /\ Outputs' = Outputs /\ Emitted' = Emitted
      /\ NullComes' = NullComes /\ ErrorComes' = ErrorComes /\ NoNumbers' = NoNumbers
  BY <1>2, SameTelling
<1>4. HandedOver'
  <2>1. taken' = taken /\ job' = job /\ HandedOver
    BY <1>2 DEF Data
  <2>2. CASE Write
    <3>1. bufsize' = bufsize /\ endCalled' = endCalled /\ ~endCalled
      BY <2>2 DEF Write, nativeVars, settings
    <3>2. PICK cut \in job.cuts : written < cut /\ written' = cut
      BY <2>2 DEF Write
    <3>3. cut \in Nat /\ written \in Nat /\ taken \in Nat
      BY JobsAssumption, FileFacts DEF IInv, TypeOK, NativeTypeOK, IsJob
    <3> QED
      BY <2>1, <3>1, <3>2, <3>3 DEF HandedOver
  <2>3. CASE EndInput
    BY <2>1, <2>3 DEF EndInput, HandedOver, nativeVars, settings, File
  <2>4. CASE AssignBufsize \/ ReadBufsize
    <3>1. PICK n \in Nat : SetBufsize(n) /\ n > 0
      BY <2>4, StreamAssumption, SizeAssumption DEF AssignBufsize, ReadBufsize
    <3>2. UNCHANGED <<written, endCalled>>
      BY <2>4 DEF AssignBufsize, ReadBufsize, callerVars
    <3>3. bufsize' > 0
      BY <3>1, <2>1 DEF SetBufsize, HandedOver
    <3> QED
      BY <2>1, <3>2, <3>3 DEF HandedOver, File
  <2> QED
    BY <2>2, <2>3, <2>4
<1>5. Healthy' = Healthy
  BY <1>2, <1>3 DEF Healthy
<1>6. Pos' = Pos /\ File' = File /\ Ends' = Ends /\ Decoder' = Decoder /\ Units' = Units
  BY <1>2, SameHand
<1>7. Finishing' /\ FlushAnswered'
  BY <1>2, <1>3, <1>5, <1>6 DEF Data, Finishing, FlushAnswered, Padding, Clear, Quiet
<1> QED
  BY <1>2, <1>3, <1>4, <1>5, <1>7, StillData, Zenon DEF Data

LEMMA WorkerData ==
  ASSUME IInv, Control, Data, WorkerStarts \/ WorkerThrows \/ WorkerOnOK,
         UNCHANGED <<callerVars, transformVars, outputVars, streamVars>>
  PROVE  Data'
<1>1. /\ UNCHANGED <<internal, coder, lastCodeResult, inbufs, outbufs, processedChunks>>
      /\ UNCHANGED <<inbuf, readChunks, calls, shouldFinish, job, bufsize, written, endCalled>>
      /\ UNCHANGED <<chunkCallbacks, isFinished, flushing, taken, pushed, eof, errors>>
  BY DEF WorkerStarts, WorkerThrows, WorkerOnOK, coding, settings, locals, transformVars, outputVars,
     streamVars, callerVars
<1>2. /\ Outputs' = Outputs /\ Emitted' = Emitted
      /\ NullComes' = NullComes /\ ErrorComes' = ErrorComes /\ NoNumbers' = NoNumbers
  BY <1>1, SameTelling
<1>3. Healthy' = Healthy
  BY <1>1, <1>2 DEF Healthy
<1>4. Pos' = Pos /\ File' = File
  BY <1>1, SameHand
<1>5. HandedOver'
  BY <1>1, <1>4 DEF Data, HandedOver
<1>6. ~Clear
  BY DEF WorkerStarts, WorkerThrows, WorkerOnOK, Clear, Quiet
<1>7. Finishing' /\ FlushAnswered'
  BY <1>1, <1>2, <1>3, <1>6 DEF Data, Finishing, FlushAnswered
<1> QED
  BY <1>1, <1>2, <1>3, <1>5, <1>7, StillData, Zenon DEF Data

(* While the handlers or the coding loop are at work the coder has not     *)
(* come to its end before.                                                 *)
LEMMA NotFinished ==
  ASSUME Finishing, ~Clear, isFinished' = isFinished
  PROVE  ~isFinished /\ Finishing'
BY DEF Finishing

LEMMA NumbersGrow ==
  ASSUME calls \in Seq(Call), NEW call, calls' = Append(calls, call), call.kind # "number"
  PROVE  NoNumbers' = NoNumbers
<1>1. Len(calls) \in Nat /\ DOMAIN calls = 1 .. Len(calls) /\ DOMAIN calls' = 1 .. Len(calls) + 1
  OBVIOUS
<1>2. calls'[Len(calls) + 1] = call /\ \A i \in 1 .. Len(calls) : calls'[i] = calls[i]
  OBVIOUS
<1> QED
  BY <1>1, <1>2 DEF NoNumbers

LEMMA HandlersData ==
  ASSUME IInv, IInv', Control, Control', Data, InvokeBufferHandlers,
         UNCHANGED <<callerVars, transformVars, outputVars, streamVars>>
  PROVE  Data'
<1>1. /\ UNCHANGED <<inbufs, inbuf, readChunks, shouldFinish, job, bufsize, written, endCalled>>
      /\ UNCHANGED <<chunkCallbacks, isFinished, flushing, taken, pushed, eof, errors>>
  BY DEF InvokeBufferHandlers, HandOutput, HandResult, HandChunks, HandNothing,
     HandChunksBeforeReset, HandReset, coding, settings, locals, transformVars, outputVars, streamVars,
     callerVars
<1>2. File' = File /\ Units' = Units /\ Payload' = Payload
  BY <1>1, SameHand
<1>3. HandedOver'
  BY <1>1, <1>2 DEF Data, HandedOver
<1>4. Finishing'
  BY <1>1, HandlersFind, NotFinished DEF Data, Clear
<1>5. TypeOK /\ TypeOK' /\ Outputs /\ CallsCarry /\ FlushAnswered
  BY DEF IInv, Data, Outputs
<1>6. CASE HandOutput
  <2>1. /\ UNCHANGED <<coder, lastCodeResult, processedChunks>> /\ pc = "outbufs"
        /\ calls' = Append(calls, BufCall(Head(outbufs))) /\ outbufs # <<>> /\ outbufs' = Tail(outbufs)
    BY <1>6 DEF HandOutput
  <2>2. OutputLength' = OutputLength /\ Output' = Output /\ CallsCarry'
    BY <1>1, <1>5, <2>1, OutputHanded
  <2>3. Outputs' /\ Emitted' = Emitted
    BY <1>2, <1>5, <2>2, SameOutput DEF Outputs
  <2>4. CallsInOrder' /\ ~NullComes' /\ ~ErrorComes' /\ ~NullComes /\ ~ErrorComes
    BY <2>1, HandlersFind, OneMoreCall DEF BufCall, Control
  <2>5. Healthy' = Healthy /\ NoNumbers' = NoNumbers
    BY <1>1, <2>1, <2>4, HandlersFind, NumbersGrow DEF Healthy, BufCall
  <2>6. FlushAnswered'
    BY <1>1, <1>5, <2>1, <2>4, <2>5 DEF FlushAnswered
  <2> QED
    BY <1>1, <1>3, <1>4, <2>1, <2>3, <2>4, <2>5, <2>6, StillData
<1>7. CASE HandResult
  <2> DEFINE call == IF lastCodeResult = "STREAM_END" THEN NullCall ELSE ErrorCall
  <2>1. /\ UNCHANGED <<coder, lastCodeResult, processedChunks, outbufs>> /\ pc = "outbufs"
        /\ calls' = Append(calls, call) /\ outbufs = <<>> /\ lastCodeResult # "OK" /\ pc' = "chunks"
    BY <1>7 DEF HandResult, coding
  <2>2. call.out = {} /\ call.kind \in {"null", "error"}
    BY DEF NullCall, ErrorCall
  <2> HIDE DEF call
  <2>3. Outputs' /\ Emitted' = Emitted
    BY <1>1, <1>2, <1>5, <2>1, <2>2, OutputToldBehind
  <2>4. NoNumbers' = NoNumbers
    BY <2>1, <2>2, HandlersFind, NumbersGrow
  <2>5. Healthy' => Healthy
    BY <1>1, <2>1, HandlersFind DEF Healthy
  <2>6. NullComes' => lastCodeResult = "STREAM_END"
    BY <2>1 DEF Control, ResultHeld
  <2>7. FlushAnswered'
    BY <1>1, <1>5, <2>1, <2>4, HandlersFind DEF FlushAnswered
  <2> QED
    BY <1>1, <1>3, <1>4, <2>1, <2>3, <2>5, <2>6, <2>7, StillData
<1>8. CASE HandChunks \/ HandChunksBeforeReset
  <2>1. /\ UNCHANGED <<coder, lastCodeResult, outbufs>> /\ processedChunks' = 0
        /\ outbufs = <<>> /\ calls' = Append(calls, NumberCall(processedChunks))
    BY <1>8, HandlersFind DEF HandChunks, HandChunksBeforeReset
  <2>2. NumberCall(processedChunks).out = {} /\ NumberCall(processedChunks).kind = "number"
    BY DEF NumberCall
  <2>3. Outputs' /\ Emitted' = Emitted
    BY <1>1, <1>2, <1>5, <2>1, <2>2, OutputToldBehind
  <2>4. (NullComes' <=> NullComes) /\ (ErrorComes' <=> ErrorComes)
    BY <2>1, <2>2, HandlersFind, OneMoreCall DEF Control
  <2>5. Healthy' => Healthy
    BY <1>1, <2>1, <2>4 DEF Healthy
  <2>6. FlushAnswered'
    <3>1. CASE HandChunks
      <4>1. lastCodeResult = "OK" /\ processedChunks > 0
        BY <3>1 DEF HandChunks
      <4> QED
        BY <1>1, <1>5, <2>1, <4>1 DEF FlushAnswered
    <3>2. CASE HandChunksBeforeReset
      <4>1. NullComes \/ ErrorComes
        BY <3>2, HandlersFind DEF HandChunksBeforeReset
      <4> QED
        BY <1>1, <2>1, <2>4, <4>1 DEF FlushAnswered, Healthy
    <3> QED
      BY <1>8, <3>1, <3>2
  <2> QED
    BY <1>1, <1>3, <1>4, <2>1, <2>3, <2>4, <2>5, <2>6, StillData
<1>9. CASE HandNothing
  <2>1. UNCHANGED <<coder, lastCodeResult, outbufs, calls, processedChunks>>
    BY <1>9 DEF HandNothing, coding
  <2>2. /\ Outputs' = Outputs /\ Emitted' = Emitted
        /\ NullComes' = NullComes /\ ErrorComes' = ErrorComes /\ NoNumbers' = NoNumbers
    BY <1>1, <2>1, SameTelling
  <2>3. Healthy' = Healthy
    BY <1>1, <2>1, <2>2 DEF Healthy
  <2>4. FlushAnswered'
    BY <1>1, <1>5, <2>1, <2>2, <2>3 DEF FlushAnswered
  <2> QED
    BY <1>1, <1>3, <1>4, <1>5, <2>1, <2>2, <2>3, <2>4, StillData
<1>10. CASE HandReset
  <2>1. /\ coder' = FreshCoder /\ lastCodeResult' = "OK" /\ processedChunks' = 0
        /\ UNCHANGED <<outbufs, calls>> /\ pc \in {"chunks", "reset"}
    BY <1>10 DEF HandReset, resetUnderlying
  <2>2. /\ Outputs' = Outputs /\ Emitted' = Emitted
        /\ NullComes' = NullComes /\ ErrorComes' = ErrorComes /\ NoNumbers' = NoNumbers
    BY <1>1, <2>1, SameTelling
  <2>3. Healthy' => Healthy /\ lastCodeResult = "STREAM_END"
    <3>1. Healthy' => ~ErrorComes /\ errors = 0
      BY <1>1, <2>2 DEF Healthy
    <3>2. lastCodeResult # "OK" /\ (NullComes \/ ErrorComes)
      BY <2>1, HandlersFind
    <3>3. NullComes => lastCodeResult = "STREAM_END"
      BY <2>1 DEF Control, ResultHeld
    <3> QED
      BY <3>1, <3>2, <3>3 DEF Healthy
  <2>4. Healthy' => coder'.pending = coder.pending
    BY <2>1, <2>3 DEF Data, Accounted, FreshCoder
  <2>5. ~coder'.ended
    BY <2>1 DEF FreshCoder
  <2>6. FlushAnswered'
    BY <1>1, <1>5, <2>1, <2>2, <2>3 DEF FlushAnswered
  <2> QED
    BY <1>1, <1>3, <1>4, <1>5, <2>1, <2>2, <2>3, <2>4, <2>5, <2>6, StillData
<1> QED
  BY <1>6, <1>7, <1>8, <1>9, <1>10 DEF InvokeBufferHandlers

-----------------------------------------------------------------------------
(* The coding loop *)

(* What a call of lzma_code starts from. *)
LEMMA LoopData ==
  ASSUME IInv, Control, Data, CallsLzmaCode
  PROVE  /\ Healthy /\ ~isFinished /\ readChunks = 1 /\ inbuf \in Chunk
         /\ inbuf.lo \in Nat /\ inbuf.hi \in Nat /\ inbuf.lo <= inbuf.hi /\ inbuf.hi <= Len(File)
         /\ Size(inbuf) = inbuf.hi - inbuf.lo
         /\ Pos = IF flushing THEN taken ELSE inbuf.lo
         /\ flushing => inbuf = NoInput /\ shouldFinish /\ Size(inbuf) = 0
         /\ ~flushing => inbuf.hi = chunkCallbacks[1].rest.lo /\ Whole(inbuf)
         /\ coder.ended => /\ Decoder /\ ~flushing /\ MemberEndsAt(Pos)
                           /\ job.restartable => Empty(inbuf)
         /\ taken \in Nat
<1>1. /\ BeingRead /\ internal /\ inbufs = <<>> /\ calls = <<>> /\ errors = 0 /\ lastCodeResult = "OK"
  BY LoopFinds
<1>2. chunkCallbacks # <<>> /\ readChunks = 1 /\ ~Clear
  <2>1. Len(<<>>) = 0
    OBVIOUS
  <2> QED
    BY <1>1, <2>1 DEF BeingRead, Clear
<1>3. Healthy
  BY <1>1 DEF Healthy, ErrorComes
<1>4. ~isFinished
  BY <1>2 DEF Data, Finishing
<1>5. /\ inbuf.lo \in Nat /\ inbuf.hi \in Nat /\ inbuf.lo <= inbuf.hi /\ inbuf.hi <= Len(File)
      /\ inbuf \in Chunk /\ taken \in Nat
  BY ChunkFacts, FileFacts DEF IInv, TypeOK, NativeTypeOK
<1>6. Pos = IF flushing THEN taken ELSE inbuf.lo
  BY <1>1, <1>2 DEF Pos
<1>7. flushing => inbuf = NoInput /\ shouldFinish /\ Size(inbuf) = 0
  BY <1>2 DEF Data, FlushInHand, NoInput, Size
<1>8. ~flushing => inbuf.hi = chunkCallbacks[1].rest.lo /\ Whole(inbuf)
  BY <1>2 DEF Data, WriteInHand
<1>9. coder.ended => /\ Decoder /\ ~flushing /\ MemberEndsAt(Pos)
                     /\ job.restartable => Empty(inbuf)
  BY DEF Data, MemberEnds
<1> QED
  BY <1>2, <1>3, <1>4, <1>5, <1>6, <1>7, <1>8, <1>9 DEF Size

(* Where a call of lzma_code leads. *)
LEMMA LoopAfter ==
  ASSUME IInv, Control, Data, CallsLzmaCode,
         NEW k \in 0 .. Size(inbuf), NEW out, NEW ret, AfterCode(k, out, ret),
         UNCHANGED <<callerVars, transformVars, outputVars, streamVars>>
  PROVE  /\ Pos' = IF flushing THEN taken
                   ELSE IF ret # "OK" \/ (out = {} /\ ~shouldFinish) THEN inbuf.hi ELSE inbuf.lo + k
         /\ SoundJob' /\ HandedOver' /\ WriteInHand' /\ FlushInHand' /\ Finishing' /\ FlushAnswered'
         /\ lastCodeResult' = ret /\ errors' = errors /\ ~NullComes' /\ ~ErrorComes'
         /\ UNCHANGED <<job, calls, pushed, flushing>>
         /\ File' = File /\ Units' = Units /\ Payload' = Payload /\ Ends' = Ends /\ Decoder' = Decoder
         /\ outbufs' = IF ret # "ERROR" /\ Stored(out, ret, k) THEN Append(outbufs, out) ELSE outbufs
         /\ readChunks' = 1 <=> ~(ret # "OK" \/ (out = {} /\ ~shouldFinish))
         /\ Empty(inbuf)' <=> ret # "OK" \/ (out = {} /\ ~shouldFinish) \/ inbuf.lo + k = inbuf.hi
<1> DEFINE breaks == ret # "OK" \/ (out = {} /\ ~shouldFinish)
<1>1. /\ UNCHANGED <<job, shouldFinish, bufsize, calls, pushed, eof, errors, isFinished>>
      /\ UNCHANGED <<chunkCallbacks, flushing, taken, written, endCalled, inbufs>>
      /\ lastCodeResult' = ret
  BY DEF AfterCode, settings, callerVars, transformVars, outputVars, streamVars
<1>2. /\ calls = <<>> /\ inbufs = <<>> /\ chunkCallbacks # <<>> /\ BeingRead
  <2>1. Len(<<>>) = 0
    OBVIOUS
  <2> QED
    BY <2>1, LoopFinds DEF BeingRead
<1>3. File' = File /\ Units' = Units /\ Payload' = Payload /\ Ends' = Ends /\ Decoder' = Decoder /\ SoundJob' = SoundJob
  BY <1>1 DEF File, Units, Payload, Ends, Decoder, SoundJob
<1>4. /\ ~NullComes' /\ ~ErrorComes' /\ NoNumbers'
  BY <1>1, <1>2 DEF NullComes, ErrorComes, NoNumbers
<1>5. /\ outbufs' = IF ret # "ERROR" /\ Stored(out, ret, k) THEN Append(outbufs, out) ELSE outbufs
      /\ \/ /\ breaks /\ readChunks' = 0 /\ processedChunks' = 1 /\ inbuf' = NoInput
         \/ /\ ~breaks /\ readChunks' = 1 /\ processedChunks' = 0
            /\ inbuf' = [inbuf EXCEPT !.lo = @ + k]
  <2>1. outbufs' = IF ret # "ERROR" /\ Stored(out, ret, k) THEN Append(outbufs, out) ELSE outbufs
    BY DEF AfterCode
  <2>2. CASE breaks
    <3>1. Break
      BY <2>2 DEF AfterCode
    <3> QED
      BY <1>2, <2>1, <2>2, <3>1 DEF Break, Leave, BeingRead
  <2>3. CASE ~breaks
    <3>1. Continue(k)
      BY <2>3 DEF AfterCode
    <3> QED
      BY <1>2, <2>1, <2>3, <3>1 DEF Continue, BeingRead
  <2> QED
    BY <2>2, <2>3
<1> HIDE DEF breaks
<1>6. /\ inbuf.lo \in Nat /\ inbuf.hi \in Nat /\ inbuf.lo <= inbuf.hi /\ k \in Nat /\ inbuf.lo + k <= inbuf.hi
      /\ inbuf = [lo |-> inbuf.lo, hi |-> inbuf.hi]
  BY LoopData DEF Chunk
<1>7. ~breaks => inbuf' = [lo |-> inbuf.lo + k, hi |-> inbuf.hi]
  BY <1>5, <1>6
<1>8. breaks => inbuf' = NoInput /\ readChunks' = 0
  BY <1>5
<1>9. Pos' = IF flushing THEN taken ELSE IF breaks THEN inbuf.hi ELSE inbuf.lo + k
  BY <1>1, <1>2, <1>5, <1>7, LoopData DEF Pos
<1>10. HandedOver'
  BY <1>1, <1>3 DEF Data, HandedOver
<1>11. WriteInHand'
  <2> SUFFICES ASSUME ~flushing PROVE WriteInHand'
    BY <1>1 DEF WriteInHand
  <2>1. /\ chunkCallbacks[1].rest.hi = taken
        /\ ~Empty(chunkCallbacks[1].rest) => Clean(chunkCallbacks[1].rest.lo)
        /\ inbuf.hi = chunkCallbacks[1].rest.lo /\ Whole(inbuf)
    BY <1>2, LoopData DEF Data, WriteInHand
  <2>2. ~Empty(chunkCallbacks[1].rest)' => Clean(chunkCallbacks[1].rest.lo)'
    BY <1>1, <1>3, <2>1 DEF Clean, Restartable, Empty
  <2>3. readChunks' = 1 => inbuf'.hi = inbuf.hi /\ Whole(inbuf)'
    <3> SUFFICES ASSUME ~breaks, Restartable, NEW e \in Ends, inbuf.lo + k < e, e <= inbuf.hi
                 PROVE  e = inbuf.hi
      BY <1>1, <1>3, <1>7, <1>8 DEF Whole, Restartable
    <3>1. e \in Nat
      BY SoundFacts DEF Data, IInv, TypeOK, NativeTypeOK
    <3>2. inbuf.lo < e
      BY <1>6, <3>1
    <3> QED
      BY <2>1, <3>2 DEF Whole
  <2>4. inbufs' = <<>>
    BY <1>1, <1>2
  <2> QED
    BY <1>1, <2>1, <2>2, <2>3, <2>4 DEF WriteInHand
<1>12. FlushInHand'
  <2> SUFFICES ASSUME flushing PROVE FlushInHand'
    BY <1>1 DEF FlushInHand
  <2>1. shouldFinish' /\ inbufs' = <<>>
    BY <1>1, <1>2, LoopData
  <2>2. inbuf = NoInput /\ k = 0
    BY LoopData
  <2>3. ~breaks => inbuf' = NoInput
    BY <1>7, <2>2 DEF NoInput
  <2> QED
    BY <1>8, <2>1, <2>3 DEF FlushInHand
<1>13. Finishing'
  BY <1>1, LoopData DEF Finishing
<1>14. FlushAnswered'
  BY <1>1, <1>4, <1>5, LoopData DEF FlushAnswered, breaks
<1>15. /\ readChunks' = 1 <=> ~breaks
       /\ Empty(inbuf)' <=> breaks \/ inbuf.lo + k = inbuf.hi
  BY <1>5, <1>6, <1>7 DEF Empty, NoInput
<1> QED
  BY <1>1, <1>3, <1>4, <1>5, <1>9, <1>10, <1>11, <1>12, <1>13, <1>14, <1>15 DEF breaks, Data

(* A call of lzma_code that neither takes nor gives anything. *)
LEMMA NothingCoded ==
  ASSUME IInv, Control, Data, CallsLzmaCode, NEW ret \in {"OK", "ERROR"}, AfterCode(0, {}, ret),
         UNCHANGED <<callerVars, transformVars, outputVars, streamVars>>,
         ret = "OK" => Empty(inbuf) /\ ~coder.ended,
         coder'.ended = coder.ended, coder'.pending = coder.pending
  PROVE  Data'
<1> DEFINE breaks == ret # "OK" \/ ({} = {} /\ ~shouldFinish)
<1>1. 0 \in 0 .. Size(inbuf)
  BY LoopData
<1>2. /\ Pos' = IF flushing THEN taken ELSE IF breaks THEN inbuf.hi ELSE inbuf.lo + 0
      /\ SoundJob' /\ HandedOver' /\ WriteInHand' /\ FlushInHand' /\ Finishing' /\ FlushAnswered'
      /\ lastCodeResult' = ret /\ errors' = errors /\ ~NullComes' /\ ~ErrorComes'
      /\ UNCHANGED <<job, calls, pushed, flushing>>
      /\ File' = File /\ Units' = Units /\ Payload' = Payload /\ Ends' = Ends /\ Decoder' = Decoder
      /\ outbufs' = IF ret # "ERROR" /\ Stored({}, ret, 0) THEN Append(outbufs, {}) ELSE outbufs
      /\ readChunks' = 1 <=> ~breaks
      /\ Empty(inbuf)' <=> breaks \/ inbuf.lo + 0 = inbuf.hi
  BY <1>1, LoopAfter
<1> HIDE DEF breaks
<1>3. outbufs' = outbufs
  BY <1>2 DEF Stored
<1>4. Outputs' /\ Emitted' = Emitted
  BY <1>2, <1>3, SameTelling DEF Data
<1>5. /\ Healthy /\ inbuf.lo \in Nat /\ inbuf.hi \in Nat /\ inbuf.lo <= inbuf.hi /\ taken \in Nat
      /\ Pos = IF flushing THEN taken ELSE inbuf.lo
      /\ coder.ended => /\ Decoder /\ ~flushing /\ MemberEndsAt(Pos)
                        /\ job.restartable => Empty(inbuf)
  BY LoopData
<1>6. /\ ret = "OK" => Pos' = Pos
      /\ Empty(inbuf) => Pos' = Pos
      /\ Pos' \in Nat /\ Pos \in Nat /\ Pos <= Pos'
  BY <1>2, <1>5 DEF Empty, breaks
<1>7. Healthy' => ret = "OK"
  BY <1>2 DEF Healthy
<1>8. Accounted'
  BY <1>2, <1>4, <1>5, <1>6, <1>7 DEF Data, Accounted
<1>9. JunkFree'
  BY <1>2, <1>5, <1>6, <1>7 DEF Data, JunkFree
<1>10. MemberEnds'
  <2> SUFFICES ASSUME coder.ended
               PROVE  /\ ~flushing /\ MemberEndsAt(Pos') /\ Decoder
                      /\ job.restartable => Empty(inbuf)'
                      /\ ret # "OK"
    BY <1>2 DEF MemberEnds, MemberEndsAt
  <2>1. ret # "OK" /\ breaks
    BY DEF breaks
  <2>2. CASE job.restartable
    BY <1>2, <1>5, <1>6, <2>1, <2>2
  <2>3. CASE ~job.restartable
    <3>1. PICK e \in Ends : e <= Pos
      BY <1>5, <2>3 DEF MemberEndsAt
    <3>2. e \in Nat
      BY SoundFacts DEF Data, IInv, TypeOK, NativeTypeOK
    <3> QED
      BY <1>5, <1>6, <2>1, <2>3, <3>1, <3>2 DEF MemberEndsAt
  <2> QED
    BY <2>2, <2>3
<1> QED
  BY <1>2, <1>4, <1>8, <1>9, <1>10 DEF Data

(* What a call of lzma_code does to the payload. *)
LEMMA PoolFits ==
  ASSUME IInv, Control, Data, CallsLzmaCode, NEW k \in Takes(coder, inbuf), NEW out \in Emissions(Pool(k))
  PROVE  /\ k \in 0 .. Size(inbuf) /\ inbuf.lo + k <= inbuf.hi /\ (flushing => k = 0)
         /\ out \in SUBSET Pool(k) /\ Pool(k) \subseteq Payload
         /\ \A u \in Payload : u <= (IF flushing THEN taken ELSE inbuf.lo + k)
                                 <=> u \in Emitted \/ u \in Pool(k)
         /\ \A u \in Emitted, v \in Pool(k) : u < v
         /\ \A u \in out, v \in Pool(k) \ out : u < v
         /\ \A u \in out, v \in Payload : v < u => v \in Emitted \cup out
         /\ Cardinality(out) = bufsize => out # {}
<1> DEFINE new == ((inbuf.lo + 1) .. (inbuf.lo + k)) \cap Payload
           q == IF flushing THEN taken ELSE inbuf.lo + k
<1>1. /\ Healthy /\ inbuf.lo \in Nat /\ inbuf.hi \in Nat /\ inbuf.lo <= inbuf.hi /\ taken \in Nat
      /\ Size(inbuf) = inbuf.hi - inbuf.lo
      /\ Pos = IF flushing THEN taken ELSE inbuf.lo
      /\ flushing => Size(inbuf) = 0
  BY LoopData
<1>2. k \in 0 .. Size(inbuf)
  BY DEF Takes
<1>3. k \in Nat /\ inbuf.lo + k <= inbuf.hi /\ (flushing => k = 0)
  BY <1>1, <1>2
<1>4. /\ \A u \in Payload : u <= Pos <=> u \in Emitted \/ u \in coder.pending
      /\ \A u \in Emitted, v \in coder.pending : u < v
      /\ coder.pending \subseteq Payload
  BY <1>1 DEF Data, Accounted
<1>5. Payload \subseteq Nat /\ Emitted \subseteq Payload
  BY FileFacts DEF IInv, TypeOK, NativeTypeOK, Data, Outputs, Gapless
<1>6. Pool(k) = coder.pending \cup new
  BY DEF Pool
<1>7. \A u \in Payload : u <= q <=> u <= Pos \/ u \in new
  BY <1>1, <1>3, <1>5
<1>8. \A u \in Payload : u \in new => ~(u <= Pos)
  BY <1>1, <1>3, <1>5
<1> HIDE DEF new, q
<1>9. Pool(k) \subseteq Payload
  BY <1>4, <1>6 DEF new
<1>10. \A u \in Payload : u <= q <=> u \in Emitted \/ u \in Pool(k)
  BY <1>4, <1>6, <1>7
<1>11. \A u \in Emitted, v \in Pool(k) : u < v
  <2> SUFFICES ASSUME NEW u \in Emitted, NEW v \in new PROVE u < v
    BY <1>4, <1>6
  <2>1. u <= Pos /\ ~(v <= Pos) /\ u \in Nat /\ v \in Nat /\ Pos \in Nat
    BY <1>1, <1>4, <1>5, <1>8 DEF new
  <2> QED
    BY <2>1
<1>12. out \in SUBSET Pool(k) /\ \A u \in out, v \in Pool(k) \ out : u < v
  BY DEF Emissions
<1>13. \A u \in out, v \in Payload : v < u => v \in Emitted \cup out
  <2> SUFFICES ASSUME NEW u \in out, NEW v \in Payload, v < u, v \notin out, v \notin Emitted PROVE FALSE
    OBVIOUS
  <2>1. u \in Pool(k) /\ u \in Payload /\ u \in Nat /\ v \in Nat
    BY <1>5, <1>9, <1>12
  <2>2. u <= q /\ q \in Nat
    BY <1>1, <1>3, <1>10, <2>1 DEF q
  <2>3. v \in Pool(k)
    BY <1>10, <2>1, <2>2
  <2> QED
    BY <1>12, <2>1, <2>3
<1>14. Cardinality(out) = bufsize => out # {}
  <2>1. bufsize # 0
    BY DEF Data, HandedOver, IInv, TypeOK, NativeTypeOK
  <2>2. Cardinality({}) = 0
    BY FS_EmptySet
  <2> QED
    BY <2>1, <2>2
<1> QED
  BY <1>2, <1>3, <1>9, <1>10, <1>11, <1>12, <1>13, <1>14 DEF q

(* Input is taken in or output given out. *)
LEMMA ProgressData ==
  ASSUME IInv, IInv', Control, Data, CallsLzmaCode, Running,
         UNCHANGED <<callerVars, transformVars, outputVars, streamVars>>,
         NEW k \in Takes(coder, inbuf), NEW out \in Emissions(Pool(k)), NEW ret \in {"OK", "STREAM_END"},
         ret = "OK" => /\ k > 0 \/ out # {}
                       /\ k = Size(inbuf) \/ Cardinality(out) = bufsize
                       /\ Ending(k, Action) => Cardinality(out) = bufsize,
         ret = "STREAM_END" => Ending(k, Action) /\ out = Pool(k),
         coder'.ended = (Decoder /\ Ending(k, Action)), coder'.pending = Pool(k) \ out,
         AfterCode(k, out, ret)
  PROVE  Data'
<1> DEFINE breaks == ret # "OK" \/ (out = {} /\ ~shouldFinish)
           q == IF flushing THEN taken ELSE inbuf.lo + k
           ends == Ending(k, Action)
<1>1. /\ k \in 0 .. Size(inbuf) /\ inbuf.lo + k <= inbuf.hi /\ (flushing => k = 0)
      /\ out \in SUBSET Pool(k) /\ Pool(k) \subseteq Payload
      /\ \A u \in Payload : u <= q <=> u \in Emitted \/ u \in Pool(k)
      /\ \A u \in Emitted, v \in Pool(k) : u < v
      /\ \A u \in out, v \in Pool(k) \ out : u < v
      /\ \A u \in out, v \in Payload : v < u => v \in Emitted \cup out
      /\ Cardinality(out) = bufsize => out # {}
  BY PoolFits
<1>2. /\ Pos' = IF flushing THEN taken ELSE IF breaks THEN inbuf.hi ELSE inbuf.lo + k
      /\ SoundJob' /\ HandedOver' /\ WriteInHand' /\ FlushInHand' /\ Finishing' /\ FlushAnswered'
      /\ lastCodeResult' = ret /\ errors' = errors /\ ~NullComes' /\ ~ErrorComes'
      /\ UNCHANGED <<job, calls, pushed, flushing>>
      /\ File' = File /\ Units' = Units /\ Payload' = Payload /\ Ends' = Ends /\ Decoder' = Decoder
      /\ outbufs' = IF ret # "ERROR" /\ Stored(out, ret, k) THEN Append(outbufs, out) ELSE outbufs
      /\ readChunks' = 1 <=> ~breaks
      /\ Empty(inbuf)' <=> breaks \/ inbuf.lo + k = inbuf.hi
  BY <1>1, LoopAfter
<1>3. /\ Healthy /\ inbuf.lo \in Nat /\ inbuf.hi \in Nat /\ inbuf.lo <= inbuf.hi /\ taken \in Nat
      /\ Size(inbuf) = inbuf.hi - inbuf.lo
      /\ Pos = IF flushing THEN taken ELSE inbuf.lo
      /\ Whole(inbuf) \/ flushing
      /\ coder.ended => /\ Decoder /\ ~flushing /\ MemberEndsAt(Pos)
                        /\ job.restartable => Empty(inbuf)
  BY LoopData
<1>4. k \in Nat /\ Ends \subseteq Units /\ Units \subseteq Nat /\ Payload \subseteq Units
  <2>1. k \in Nat
    BY <1>1, <1>3
  <2>2. job \in Jobs /\ SoundJob
    BY DEF Data, IInv, TypeOK, NativeTypeOK
  <2> QED
    BY <2>1, <2>2, SoundFacts
<1>5. Decoder /\ ends => /\ ~flushing
                         /\ coder.ended \/ (k > 0 /\ inbuf.lo + k \in Ends)
  BY <1>1, <1>3 DEF Ending
<1>6. ~Decoder /\ ends => k = Size(inbuf)
  BY DEF Ending
<1> HIDE DEF q, ends, breaks
(* A decoder that can be restarted has got nothing behind the end. *)
<1>7. Decoder /\ ends /\ job.restartable => q \in Ends /\ inbuf.lo + k = inbuf.hi
  <2> SUFFICES ASSUME Decoder, ends, job.restartable
               PROVE  q \in Ends /\ inbuf.lo + k = inbuf.hi
    OBVIOUS
  <2>1. CASE coder.ended
    BY <1>1, <1>3, <1>4, <1>5, <2>1 DEF Empty, MemberEndsAt, q
  <2>2. CASE k > 0 /\ inbuf.lo + k \in Ends
    BY <1>1, <1>3, <1>4, <1>5, <2>2 DEF Whole, Restartable, q
  <2> QED
    BY <1>5, <2>1, <2>2
<1>8. Decoder /\ ends /\ ~job.restartable => \E e \in Ends : e <= q
  <2> SUFFICES ASSUME Decoder, ends, ~job.restartable PROVE \E e \in Ends : e <= q
    OBVIOUS
  <2>1. CASE coder.ended
    <3>1. PICK e \in Ends : e <= Pos
      BY <1>3, <2>1 DEF MemberEndsAt
    <3> QED
      BY <1>3, <1>4, <1>5, <3>1 DEF q
  <2>2. CASE k > 0 /\ inbuf.lo + k \in Ends
    BY <1>3, <1>4, <1>5, <2>2 DEF q
  <2> QED
    BY <1>5, <2>1, <2>2
(* What the loop throws away lies behind the end of a single member. *)
<1>9. /\ Pos' \in Nat /\ q \in Nat /\ q <= Pos'
      /\ Pos' = q \/ (Decoder /\ ends /\ ~job.restartable)
  <2>1. ASSUME ret = "OK", out = {} PROVE k = Size(inbuf)
    BY <1>1, <2>1
  <2>2. Pos' # q => ret = "STREAM_END" /\ k # Size(inbuf)
    BY <1>1, <1>2, <1>3, <1>4, <2>1 DEF q, breaks
  <2>3. Pos' # q => Decoder /\ ends /\ ~job.restartable
    BY <1>1, <1>3, <1>4, <1>6, <1>7, <2>2 DEF ends
  <2> QED
    BY <1>1, <1>2, <1>3, <1>4, <2>3 DEF q, breaks
<1>10. Decoder /\ ends /\ ~job.restartable =>
         \A u \in Units : ~(u <= q) => File[u] \notin {"head", "data"} /\ \A e \in Ends : e < u
  <2> SUFFICES ASSUME Decoder, ends, ~job.restartable, NEW u \in Units, ~(u <= q)
               PROVE  File[u] \notin {"head", "data"} /\ \A e \in Ends : e < u
    OBVIOUS
  <2>1. PICK e \in Ends : e <= q
    BY <1>8
  <2>2. Ends = {e} /\ \A v \in Units : v > e => File[v] \notin {"head", "data"}
    BY SoundFacts DEF Data, IInv, TypeOK, NativeTypeOK
  <2>3. e < u
    BY <1>4, <1>9, <2>1
  <2> QED
    BY <1>4, <2>2, <2>3
<1>11. \A u \in Payload : u <= Pos' <=> u <= q
  <2> SUFFICES ASSUME NEW u \in Payload, u <= Pos', ~(u <= q) PROVE FALSE
    BY <1>4, <1>9
  <2>1. Decoder /\ u \in Units /\ File[u] \notin {"head", "data"}
    BY <1>4, <1>9, <1>10
  <2> QED
    BY <2>1 DEF Payload
<1>12. Outputs' /\ Emitted' = Emitted \cup out
  <2>1. CASE out = {}
    <3>1. outbufs' = outbufs
      BY <1>2, <2>1 DEF Stored
    <3> QED
      BY <1>2, <2>1, <3>1, SameTelling DEF Data
  <2>2. CASE out # {}
    <3>1. outbufs' = Append(outbufs, out)
      BY <1>1, <1>2, <2>2 DEF Stored
    <3>2. /\ TypeOK /\ TypeOK' /\ Outputs /\ out \in SUBSET Units
      BY <1>1, <1>4 DEF Data, IInv
    <3>3. /\ \A u \in Emitted, v \in out : u < v
          /\ out \subseteq Payload
      BY <1>1
    <3> QED
      BY <1>1, <1>2, <2>2, <3>1, <3>2, <3>3, OutputStored
  <2> QED
    BY <2>1, <2>2
<1>13. Accounted'
  <2>1. \A u \in Payload : u <= Pos' <=> u \in Emitted \cup out \/ u \in Pool(k) \ out
    BY <1>1, <1>11
  <2>2. \A u \in Emitted \cup out, v \in Pool(k) \ out : u < v
    BY <1>1
  <2>3. ret = "STREAM_END" => Pool(k) \ out = {}
    OBVIOUS
  <2>4. Pool(k) \ out \subseteq Payload
    BY <1>1
  <2>5. Accounted' <=>
          (Healthy' => /\ \A u \in Payload : u <= Pos' <=> u \in Emitted \cup out \/ u \in Pool(k) \ out
                       /\ \A u \in Emitted \cup out, v \in Pool(k) \ out : u < v
                       /\ Pool(k) \ out \subseteq Payload
                       /\ ret = "STREAM_END" => Pool(k) \ out = {})
    BY <1>2, <1>12 DEF Accounted
  <2> QED
    BY <2>1, <2>2, <2>3, <2>4, <2>5
<1>14. MemberEnds'
  <2>1. ASSUME Decoder, ends
        PROVE  /\ ~flushing /\ MemberEndsAt(Pos')
               /\ job.restartable => inbuf.lo + k = inbuf.hi
    BY <1>4, <1>5, <1>7, <1>8, <1>9, <2>1 DEF MemberEndsAt
  <2>2. ends /\ ret = "OK" => readChunks' = 1
    BY <1>1, <1>2 DEF ends, breaks
  <2>3. ret = "STREAM_END" => ends
    BY DEF ends
  <2>4. coder'.ended = (Decoder /\ ends)
    BY DEF ends
  <2>5. MemberEnds' <=>
          /\ Decoder /\ (coder'.ended \/ ret = "STREAM_END") => ~flushing /\ MemberEndsAt(Pos')
          /\ coder'.ended => /\ Decoder
                             /\ job.restartable => Empty(inbuf)'
                             /\ readChunks' = 1 \/ ret # "OK"
    BY <1>2 DEF MemberEnds, MemberEndsAt
  <2> QED
    BY <1>2, <2>1, <2>2, <2>3, <2>4, <2>5
<1>15. JunkFree'
  <2> SUFFICES ASSUME Decoder, NEW u \in Units, u <= Pos', File[u] = "junk"
               PROVE  ~job.restartable /\ \A e \in Ends : e < u
    BY <1>2 DEF JunkFree
  <2>1. CASE u <= Pos
    BY <1>3, <2>1 DEF Data, JunkFree
  <2>2. CASE ~(u <= Pos) /\ u <= q
    <3>1. u - inbuf.lo \in 1 .. k /\ inbuf.lo + (u - inbuf.lo) = u
      BY <1>3, <1>4, <2>2 DEF q
    <3>2. ~Bad(coder, u, u - inbuf.lo = 1)
      BY <3>1 DEF Takes
    <3> QED
      BY <3>2 DEF Bad
  <2>3. CASE ~(u <= q)
    BY <1>9, <1>10, <1>4, <2>3
  <2> QED
    BY <2>1, <2>2, <2>3
<1> QED
  BY <1>2, <1>12, <1>13, <1>14, <1>15 DEF Data

LEMMA CodingData ==
  ASSUME IInv, IInv', Control, Data, DoLZMACode,
         UNCHANGED <<callerVars, transformVars, outputVars, streamVars>>
  PROVE  Data'
<1>1. /\ UNCHANGED <<chunkCallbacks, flushing, taken, written, endCalled, pushed, eof, errors, isFinished>>
  BY DEF callerVars, transformVars, outputVars, streamVars
<1>2. CASE NoCoder
  <2>1. Working /\ Len(inbufs) = 1 /\ readChunks = 0 /\ calls = <<>>
    BY <1>2, WorkingAlone DEF NoCoder, IInv
  <2>2. /\ UNCHANGED <<internal, coder, lastCodeResult, inbufs, outbufs, processedChunks>>
        /\ UNCHANGED <<shouldFinish, bufsize, job, calls, pushed>>
        /\ readChunks' = 0 /\ inbuf' = NoInput
    BY <1>1, <1>2 DEF NoCoder, Leave, coding, settings
  <2>3. inbuf = NoInput
    BY <2>1 DEF IInv, NothingRead
  <2>4. /\ Outputs' = Outputs /\ Emitted' = Emitted
        /\ NullComes' = NullComes /\ ErrorComes' = ErrorComes /\ NoNumbers' = NoNumbers
    BY <2>2, SameTelling
  <2>5. HandedOver'
    BY <1>1, <2>2 DEF Data, HandedOver, File
  <2>6. ~Clear
    BY <2>1 DEF Clear
  <2>7. Finishing'
    BY <1>1, <2>6, NotFinished DEF Data
  <2>8. FlushAnswered' /\ Healthy' = Healthy
    BY <1>1, <2>2, <2>4 DEF Data, FlushAnswered, Healthy
  <2> QED
    BY <1>1, <2>1, <2>2, <2>3, <2>4, <2>5, <2>7, <2>8, StillData DEF Data
<1>3. CASE FetchChunk
  <2>1. /\ Working /\ Len(inbufs) = 1 /\ readChunks = 0 /\ calls = <<>> /\ Len(chunkCallbacks) = 1
        /\ processedChunks = 0 /\ Coding
    BY <1>3, WorkingAlone DEF FetchChunk, IInv
  <2>2. /\ UNCHANGED <<internal, coder, lastCodeResult, outbufs, processedChunks>>
        /\ UNCHANGED <<shouldFinish, bufsize, job, calls, pushed>>
        /\ inbuf' = inbufs[1] /\ readChunks' = 1 /\ inbufs' = Tail(inbufs)
    BY <1>1, <1>3, <2>1 DEF FetchChunk, settings
  <2>3. inbufs' = <<>> /\ inbufs # <<>> /\ chunkCallbacks # <<>>
    <3>1. Len(<<>>) = 0
      OBVIOUS
    <3>2. inbufs \in Seq(Chunk)
      BY DEF IInv, TypeOK, NativeTypeOK
    <3> QED
      BY <2>1, <2>2, <3>1, <3>2
  <2>4. /\ Outputs' = Outputs /\ Emitted' = Emitted
        /\ NullComes' = NullComes /\ ErrorComes' = ErrorComes /\ NoNumbers' = NoNumbers
    BY <2>2, SameTelling
  <2>5. /\ File' = File /\ Units' = Units /\ Payload' = Payload /\ Ends' = Ends /\ Decoder' = Decoder
        /\ SoundJob' = SoundJob
    BY <2>2 DEF File, Units, Payload, Ends, Decoder, SoundJob
  <2>6. Pos' = Pos
    BY <1>1, <2>2, <2>3 DEF Pos
  <2>7. HandedOver'
    BY <1>1, <2>2, <2>5 DEF Data, HandedOver
  <2>8. WriteInHand'
    BY <1>1, <2>2, <2>3, <2>5 DEF Data, WriteInHand, Clean, Whole, Restartable
  <2>9. FlushInHand'
    BY <1>1, <2>2, <2>3 DEF Data, FlushInHand
  <2>10. ~Clear
    BY <2>1 DEF Clear
  <2>11. Finishing'
    BY <1>1, <2>10, NotFinished DEF Data
  <2>12. FlushAnswered' /\ Healthy' = Healthy
    BY <1>1, <2>2, <2>4 DEF Data, FlushAnswered, Healthy
  <2>13. Accounted' /\ JunkFree'
    BY <2>2, <2>4, <2>5, <2>6, <2>12 DEF Data, Accounted, JunkFree
  <2>14. lastCodeResult = "OK"
    <3>1. ~Counted /\ pc # "reset"
      BY <2>1 DEF Counted, Working
    <3> QED
      BY <3>1 DEF Control, ResultHeld
  <2>15. ~coder.ended
    BY <2>1, <2>14 DEF Data, MemberEnds
  <2>16. MemberEnds'
    BY <1>1, <2>2, <2>4, <2>5, <2>6, <2>15 DEF Data, MemberEnds, MemberEndsAt
  <2> QED
    BY <2>4, <2>5, <2>7, <2>8, <2>9, <2>11, <2>12, <2>13, <2>16 DEF Data
<1>4. CASE CodeProgress
  <2>1. ~job.timeout /\ CallsLzmaCode /\ Running
    BY <1>4, SoundFacts DEF CodeProgress, Data, IInv, TypeOK, NativeTypeOK
  <2>2. PICK k \in Takes(coder, inbuf) : \E out \in Emissions(Pool(k)), ret \in {"OK", "STREAM_END"} :
          /\ ret = "OK" => /\ k > 0 \/ out # {}
                           /\ k = Size(inbuf) \/ Cardinality(out) = bufsize
                           /\ Ending(k, Action) => Cardinality(out) = bufsize
          /\ ret = "STREAM_END" => Ending(k, Action) /\ out = Pool(k)
          /\ coder'.ended = (Decoder /\ Ending(k, Action)) /\ coder'.pending = Pool(k) \ out
          /\ AfterCode(k, out, ret)
    BY <1>4, <2>1 DEF CodeProgress
  <2>3. PICK out \in Emissions(Pool(k)), ret \in {"OK", "STREAM_END"} :
          /\ ret = "OK" => /\ k > 0 \/ out # {}
                           /\ k = Size(inbuf) \/ Cardinality(out) = bufsize
                           /\ Ending(k, Action) => Cardinality(out) = bufsize
          /\ ret = "STREAM_END" => Ending(k, Action) /\ out = Pool(k)
          /\ coder'.ended = (Decoder /\ Ending(k, Action)) /\ coder'.pending = Pool(k) \ out
          /\ AfterCode(k, out, ret)
    BY <2>2
  <2> QED
    BY <2>1, <2>3, ProgressData
<1>5. CASE CodeStuck
  <2> DEFINE ret == IF coder.stuck THEN "ERROR" ELSE "OK"
  <2>1. CallsLzmaCode /\ Empty(inbuf) /\ ~Ending(0, Action) /\ AfterCode(0, {}, ret)
    BY <1>5 DEF CodeStuck
  <2>2. coder'.ended = coder.ended /\ coder'.pending = coder.pending
    <3>1. coder' = [coder EXCEPT !.stuck = TRUE,
                                 !.sequence = IF Action = "FINISH" THEN "finish" ELSE "run"]
      BY <1>5 DEF CodeStuck
    <3>2. coder \in Coder
      BY DEF IInv, TypeOK, NativeTypeOK
    <3> HIDE DEF Action
    <3> QED
      BY <3>1, <3>2 DEF Coder
  <2>3. ~coder.ended
    BY <2>1, LoopData DEF Ending
  <2>4. ret \in {"OK", "ERROR"}
    OBVIOUS
  <2> HIDE DEF ret
  <2> QED
    BY <2>1, <2>2, <2>3, <2>4, NothingCoded
<1>6. CASE CodeFails
  <2>1. CallsLzmaCode /\ AfterCode(0, {}, "ERROR")
    BY <1>6 DEF CodeFails
  <2>2. coder'.ended = coder.ended /\ coder'.pending = coder.pending
    BY <1>6 DEF CodeFails, IInv, TypeOK, NativeTypeOK, Coder
  <2> QED
    BY <2>1, <2>2, NothingCoded
<1>7. CASE CodeEnded
  <2>1. FALSE
    BY <1>7, LoopFinds DEF CodeEnded
  <2> QED
    BY <2>1
<1> QED
  BY <1>2, <1>3, <1>4, <1>5, <1>6, <1>7 DEF DoLZMACode

LEMMA NativeTurnData ==
  ASSUME IInv, IInv', Control, Control', Data, NativeTurn
  PROVE  Data'
BY CodingData, WorkerData, HandlersData DEF NativeTurn, NativeStep

-----------------------------------------------------------------------------
(* _transform, _flush and the immediates *)

LEMMA TransformData ==
  ASSUME IInv, Control, Data, Clear, lastCodeResult = "OK", calls' = <<>>, ~flushing,
         UNCHANGED <<flushing, errors, eof, written, endCalled>>,
         ~NullComes, ~ErrorComes, Outputs', Emitted' = Emitted,
         NEW chunk \in Chunk, ~Empty(chunk), Clean(chunk.lo), Transform(chunk, <<>>),
         Pos = chunk.lo, taken' = chunk.hi, taken' <= written, taken' \in job.cuts \cup {0}
  PROVE  Data'
<1> DEFINE data == IF isFinished THEN SkipLeadingZeroes(FirstPiece(chunk)) ELSE FirstPiece(chunk)
<1>1. job \in Jobs /\ SoundJob /\ ~coder.ended
  BY DEF IInv, TypeOK, NativeTypeOK, Data, MemberEnds, Clear
<1>2. /\ data \in Chunk /\ RestOf(chunk) \in Chunk
      /\ chunk.lo <= data.lo /\ data.lo <= chunk.hi
      /\ data.hi = RestOf(chunk).lo /\ RestOf(chunk).hi = chunk.hi
      /\ Whole(data)
      /\ ~Empty(RestOf(chunk)) => Clean(RestOf(chunk).lo)
      /\ data.lo # chunk.lo => isFinished
      /\ \A u \in Units : chunk.lo < u /\ u <= data.lo => File[u] = "zero"
      /\ Empty(data) => data.lo = chunk.hi
  BY <1>1, TransformFits
<1>3. /\ chunk.lo \in Nat /\ chunk.hi \in Nat /\ data.lo \in Nat /\ Payload \subseteq Units /\ Units \subseteq Nat
  BY <1>1, <1>2, ChunkFacts, SoundFacts
<1>4. /\ Transform(chunk, <<>>) =
           (\/ /\ ~nativeStream
               /\ writing' = TRUE
               /\ chunkCallbacks' = <<>>
               /\ UNCHANGED isFinished
               /\ nativeUnchanged
            \/ /\ nativeStream /\ Empty(data)
               /\ writing' = FALSE
               /\ chunkCallbacks' = <<>>
               /\ UNCHANGED isFinished
               /\ nativeUnchanged
            \/ /\ nativeStream /\ ~Empty(data)
               /\ writing' = TRUE
               /\ isFinished' = FALSE
               /\ chunkCallbacks' = Append(<<>>, WriteCallback(RestOf(chunk)))
               /\ Code(data, ~synchronous))
  BY DEF Transform
<1> HIDE DEF data
<1>5. /\ UNCHANGED <<coder, lastCodeResult, processedChunks, readChunks, inbuf, bufsize, job>>
      /\ \/ /\ ~nativeStream /\ chunkCallbacks' = <<>> /\ UNCHANGED <<isFinished, inbufs, pc, threads>>
         \/ /\ nativeStream /\ Empty(data)
            /\ chunkCallbacks' = <<>> /\ UNCHANGED <<isFinished, inbufs, pc, threads>>
         \/ /\ nativeStream /\ ~Empty(data) /\ ~isFinished'
            /\ chunkCallbacks' # <<>> /\ chunkCallbacks'[1] = WriteCallback(RestOf(chunk))
            /\ inbufs' # <<>> /\ inbufs'[1] = data
  <2>1. CASE /\ nativeUnchanged /\ chunkCallbacks' = <<>> /\ UNCHANGED isFinished
             /\ ~nativeStream \/ (nativeStream /\ Empty(data))
    <3>1. /\ UNCHANGED <<coder, lastCodeResult, processedChunks, readChunks, inbuf, bufsize, job>>
          /\ UNCHANGED <<inbufs, pc, threads>>
      BY <2>1 DEF nativeUnchanged, coding, settings, locals, threads
    <3> QED
      BY <2>1, <3>1
  <2>2. CASE /\ nativeStream /\ ~Empty(data) /\ isFinished' = FALSE
             /\ chunkCallbacks' = Append(<<>>, WriteCallback(RestOf(chunk)))
             /\ Code(data, ~synchronous)
    <3>1. chunkCallbacks' # <<>> /\ chunkCallbacks'[1] = WriteCallback(RestOf(chunk))
      BY <2>2
    <3>2. inbufs' = Append(<<>>, data)
      BY <2>2 DEF Code, Clear
    <3>3. inbufs' # <<>> /\ inbufs'[1] = data
      BY <3>2
    <3>4. UNCHANGED <<coder, lastCodeResult, processedChunks, readChunks, inbuf, bufsize, job>>
      BY <2>2 DEF Code, locals
    <3> QED
      BY <2>2, <3>1, <3>3, <3>4
  <2> QED
    BY <1>4, <2>1, <2>2
<1>6. /\ File' = File /\ Units' = Units /\ Payload' = Payload /\ Ends' = Ends /\ Decoder' = Decoder
      /\ SoundJob' /\ ~coder'.ended /\ lastCodeResult' = "OK" /\ readChunks' = 0 /\ processedChunks' = 0
      /\ ~flushing'
  BY <1>1, <1>5 DEF File, Units, Payload, Ends, Decoder, SoundJob, Clear
<1>7. ~NullComes' /\ ~ErrorComes'
  BY DEF NullComes, ErrorComes
<1>8. Healthy' <=> errors = 0
  BY <1>6, <1>7 DEF Healthy
<1>9. Healthy <=> errors = 0
  BY DEF Healthy
<1>10. errors = 0 => nativeStream
  BY DEF Control, Flushes, IInv, TypeOK
<1>11. errors = 0 => Pos' = data.lo
  <2>1. CASE nativeStream /\ Empty(data) /\ chunkCallbacks' = <<>>
    BY <1>2, <2>1 DEF Pos
  <2>2. CASE inbufs' # <<>> /\ inbufs'[1] = data /\ chunkCallbacks' # <<>>
    BY <1>6, <2>2 DEF Pos
  <2> QED
    BY <1>5, <1>10, <2>1, <2>2
<1>12. isFinished => Decoder
  BY DEF Data, Finishing
<1>13. Accounted'
  <2> SUFFICES ASSUME errors = 0
               PROVE  \A u \in Payload : u <= data.lo <=> u \in Emitted \/ u \in coder.pending
    BY <1>5, <1>6, <1>8, <1>9, <1>11 DEF Data, Accounted
  <2>1. ASSUME NEW u \in Payload, chunk.lo < u, u <= data.lo PROVE FALSE
    <3>1. File[u] = "zero" /\ Decoder
      BY <1>2, <1>3, <1>12, <2>1
    <3> QED
      BY <3>1 DEF Payload
  <2>2. \A u \in Payload : u <= chunk.lo <=> u \in Emitted \/ u \in coder.pending
    BY <1>9 DEF Data, Accounted
  <2>3. \A u \in Payload : u <= data.lo <=> u <= chunk.lo
    BY <1>2, <1>3, <2>1
  <2> QED
    BY <2>2, <2>3
<1>14. JunkFree'
  <2> SUFFICES ASSUME errors = 0, Decoder, NEW u \in Units, u <= data.lo, File[u] = "junk"
               PROVE  ~job.restartable /\ \A e \in Ends : e < u
    BY <1>5, <1>6, <1>8, <1>11 DEF JunkFree
  <2> QED
    BY <1>2, <1>3, <1>9 DEF Data, JunkFree
<1>15. MemberEnds'
  BY <1>6, <1>7 DEF MemberEnds
<1>16. FlushAnswered' /\ FlushInHand'
  BY <1>6 DEF FlushAnswered, FlushInHand
<1>17. HandedOver'
  BY <1>5, <1>6 DEF Data, HandedOver
<1>18. WriteInHand'
  <2>1. CASE chunkCallbacks' = <<>>
    BY <2>1 DEF WriteInHand
  <2>2. CASE /\ ~Empty(data) /\ chunkCallbacks'[1] = WriteCallback(RestOf(chunk)) /\ inbufs'[1] = data
    <3>1. inbufs'[1] = data /\ chunkCallbacks'[1].rest = RestOf(chunk)
      BY <2>2 DEF WriteCallback
    <3>2. Whole(inbufs[1])'
      BY <1>2, <1>5, <1>6, <3>1 DEF Whole, Restartable
    <3>3. ~Empty(chunkCallbacks[1].rest)' => Clean(chunkCallbacks[1].rest.lo)'
      BY <1>2, <1>5, <1>6, <3>1 DEF Clean, Restartable, Empty
    <3>4. ~Empty(inbufs[1])'
      BY <2>2, <3>1 DEF Empty
    <3> QED
      BY <1>2, <1>6, <3>1, <3>2, <3>3, <3>4 DEF WriteInHand
  <2> QED
    BY <1>5, <2>1, <2>2
<1>19. Finishing'
  <2> SUFFICES ASSUME isFinished' PROVE Finishing'
    BY DEF Finishing
  <2>1. /\ isFinished /\ Decoder /\ coder = FreshCoder /\ errors = 0
        /\ IF job.restartable THEN Padding(Pos) ELSE eof
    BY <1>5 DEF Data, Finishing
  <2>2. UNCHANGED <<inbufs, pc, threads>>
    BY <1>5
  <2>3. Clear'
    BY <1>5, <1>6, <2>2 DEF Clear, Quiet, threads
  <2>4. job.restartable => Padding(data.lo)
    <3>1. ASSUME job.restartable
          PROVE  \E e \in Ends : e <= chunk.lo /\ \A u \in Units : e < u /\ u <= chunk.lo => File[u] = "zero"
      BY <2>1, <3>1 DEF Padding
    <3>2. Ends \subseteq Nat
      BY <1>1, SoundFacts
    <3> QED
      BY <1>2, <1>3, <3>1, <3>2 DEF Padding
  <2>5. job'.restartable => Padding(Pos)'
    BY <1>5, <1>6, <1>11, <2>1, <2>4 DEF Padding
  <2> QED
    BY <1>5, <1>6, <1>7, <2>1, <2>3, <2>5 DEF Finishing
<1> QED
  BY <1>6, <1>13, <1>14, <1>15, <1>16, <1>17, <1>18, <1>19 DEF Data

LEMMA StartWriteData ==
  ASSUME IInv, Control, Data, StartWrite
  PROVE  Data'
<1>1. ~writing /\ ~flushing
  BY DEF IInv, StartWrite, OneAtATime, TypeOK
<1>2. NoChunk /\ Clear /\ chunkCallbacks = <<>> /\ calls = <<>>
  BY <1>1, HandOverIsClear DEF IInv
<1>3. lastCodeResult = "OK" /\ ~NullComes /\ ~ErrorComes
  BY <1>2, NoCalls DEF Control, ResultHeld, NoChunk, Counted
<1>4. /\ [lo |-> taken, hi |-> written] \in Chunk
      /\ taken \in Nat /\ written \in Nat /\ taken < written
  BY MakeChunk, FileFacts DEF IInv, StartWrite, TypeOK, NativeTypeOK
<1>5. /\ Transform([lo |-> taken, hi |-> written], <<>>) /\ calls' = <<>> /\ taken' = written
      /\ UNCHANGED <<calls, flushing, errors, eof, pushed, written, endCalled>>
  BY <1>2 DEF StartWrite, outputVars, callerVars
<1>6. job' = job /\ outbufs' = outbufs
  BY <1>5 DEF Transform, nativeUnchanged, Code, coding, settings
<1>7. Outputs' /\ Emitted' = Emitted
  BY <1>5, <1>6, SameTelling DEF Data
<1>8. Clean(taken) /\ written \in job.cuts \cup {0}
  BY CutsAreClean DEF Data, HandedOver, IInv, TypeOK, NativeTypeOK
<1>9. Pos = taken
  BY <1>2 DEF Pos
<1> DEFINE chunk == [lo |-> taken, hi |-> written]
<1>10. chunk.lo = taken /\ chunk.hi = written /\ ~Empty(chunk)
  BY <1>4 DEF Empty
<1>11. chunk \in Chunk /\ Transform(chunk, <<>>)
  BY <1>4, <1>5
<1> HIDE DEF chunk
<1> QED
  BY <1>1, <1>2, <1>3, <1>4, <1>5, <1>7, <1>8, <1>9, <1>10, <1>11, TransformData

(* Nothing more can be lost: what was handed over is with the coder. *)
LEMMA FlushData ==
  ASSUME IInv, Control, Data, Flush
  PROVE  Data'
<1>1. /\ ~writing /\ ~flushing /\ flushing'
      /\ UNCHANGED <<calls, errors, pushed, written, endCalled, taken, isFinished>>
  BY DEF Flush, callerVars
<1>2. NoChunk /\ Clear /\ chunkCallbacks = <<>> /\ calls = <<>>
  BY <1>1, HandOverIsClear DEF IInv
<1>3. lastCodeResult = "OK" /\ ~NullComes /\ ~ErrorComes
  BY <1>2, NoCalls DEF Control, ResultHeld, NoChunk, Counted
<1>4. ~coder.ended
  BY <1>2, <1>3 DEF Data, MemberEnds, Clear
<1>5. /\ coder' = coder /\ lastCodeResult' = "OK" /\ processedChunks' = 0 /\ readChunks' = 0
      /\ UNCHANGED <<outbufs, job, bufsize>>
      /\ chunkCallbacks' = <<>> \/ (shouldFinish' /\ inbufs'[1] = NoInput)
      /\ isFinished => Clear' /\ eof'
  <2>1. CASE /\ isFinished
             /\ cleanup /\ eof' = TRUE
             /\ UNCHANGED chunkCallbacks
    <3>1. coder = FreshCoder
      BY <2>1 DEF Data, Finishing
    <3>2. /\ coder' = FreshCoder /\ lastCodeResult' = "OK" /\ processedChunks' = 0
          /\ UNCHANGED <<outbufs, job, bufsize, readChunks, inbufs, threads>>
      BY <1>2, <1>3, <2>1, <3>1 DEF cleanup, ResetUnderlying, nativeUnchanged, coding, settings, locals, Clear
    <3> QED
      BY <1>2, <2>1, <3>1, <3>2 DEF Clear, Quiet, threads
  <2>2. CASE nativeUnchanged /\ ~isFinished /\ UNCHANGED chunkCallbacks
    BY <1>2, <1>3, <2>2 DEF nativeUnchanged, coding, settings, locals, Clear
  <2>3. CASE /\ ~isFinished
             /\ chunkCallbacks' = Append(chunkCallbacks, FlushCallback)
             /\ Code(NoInput, ~synchronous)
    <3>1. inbufs' = Append(<<>>, NoInput)
      BY <1>2, <2>3 DEF Code, Clear
    <3>2. inbufs'[1] = NoInput
      BY <3>1
    <3> QED
      BY <1>2, <1>3, <2>3, <3>2 DEF Code, locals, Clear, NoInput, Empty
  <2> QED
    BY <2>1, <2>2, <2>3 DEF Flush
<1>6. /\ File' = File /\ Units' = Units /\ Payload' = Payload /\ Ends' = Ends /\ Decoder' = Decoder
      /\ SoundJob'
  BY <1>5 DEF File, Units, Payload, Ends, Decoder, SoundJob, Data
<1>7. /\ Outputs' /\ Emitted' = Emitted
      /\ NullComes' = NullComes /\ ErrorComes' = ErrorComes /\ NoNumbers' = NoNumbers
  BY <1>1, <1>5, SameTelling DEF Data
<1>8. Pos' = Pos
  BY <1>1, <1>2 DEF Pos
<1>9. Healthy' = Healthy
  BY <1>1, <1>3, <1>5, <1>7 DEF Healthy
<1>10. Accounted' /\ JunkFree'
  BY <1>3, <1>5, <1>6, <1>7, <1>8, <1>9 DEF Data, Accounted, JunkFree
<1>11. MemberEnds'
  BY <1>3, <1>4, <1>5, <1>7 DEF MemberEnds
<1>12. NoNumbers'
  BY <1>2, <1>7 DEF NoNumbers
<1>13. FlushAnswered' /\ WriteInHand'
  BY <1>1, <1>5, <1>12 DEF FlushAnswered, WriteInHand
<1>14. FlushInHand'
  BY <1>5 DEF FlushInHand
<1>15. HandedOver'
  BY <1>1, <1>5, <1>6 DEF Data, HandedOver
<1>16. Finishing'
  BY <1>1, <1>3, <1>5, <1>6, <1>7, <1>8 DEF Data, Finishing, Padding, FreshCoder
<1> QED
  BY <1>6, <1>7, <1>10, <1>11, <1>13, <1>14, <1>15, <1>16 DEF Data

(* A served call hands on what it carries. *)
LEMMA ServedTelling ==
  ASSUME IInv, IInv', Data, NEW kind, Immediate(kind), job' = job, outbufs' = outbufs,
         pushed' = IF kind = "buf" THEN pushed \cup Head(calls).out ELSE pushed
  PROVE  Outputs' /\ Emitted' = Emitted
<1>1. calls # <<>> /\ Head(calls).kind = kind /\ calls' = Tail(calls)
  BY DEF Immediate
<1>2. kind # "buf" => Head(calls).out = {}
  <2>1. calls \in Seq(Call)
    BY DEF IInv, TypeOK, NativeTypeOK
  <2>2. 1 \in DOMAIN calls /\ Head(calls) = calls[1]
    BY <1>1, <2>1
  <2> QED
    BY <1>1, <2>2 DEF Data, Outputs, CallsCarry
<1>3. pushed' = pushed \cup Head(calls).out
  BY <1>2
<1>4. Units' = Units /\ Payload' = Payload
  BY DEF Units, Payload, File, Decoder
<1>5. TypeOK /\ TypeOK' /\ Ordered /\ CallsCarry /\ Gapless
  BY DEF IInv, Data, Outputs
<1> QED
  BY <1>1, <1>3, <1>4, <1>5, OutputServed DEF Outputs

LEMMA OnErrorData ==
  ASSUME IInv, IInv', Control, Data, OnError
  PROVE  Data'
<1>1. Immediate("error")
  BY DEF OnError
<1>2. /\ inbufs = <<>> /\ readChunks = 0 /\ processedChunks = 0 /\ lastCodeResult = "OK"
      /\ errors = 0 /\ ~NullComes' /\ ~ErrorComes'
  BY <1>1, ImmediateServed
<1>3. ErrorComes
  BY <1>1, OneCallLess DEF IInv, TypeOK, NativeTypeOK, Control
<1>4. cleanup /\ errors' = 1
  BY <1>2 DEF OnError
<1>5. /\ UNCHANGED <<inbufs, outbufs, inbuf, readChunks, shouldFinish, bufsize, job>>
      /\ processedChunks' = 0 /\ lastCodeResult' = "OK" /\ ~coder'.ended
  <2>1. coder' = FreshCoder \/ coder' = coder
    BY <1>4 DEF cleanup, ResetUnderlying, nativeUnchanged, coding
  <2>2. ~coder.ended
    BY <1>2 DEF Data, MemberEnds
  <2>3. ~coder'.ended
    BY <2>1, <2>2 DEF FreshCoder
  <2> QED
    BY <1>2, <1>4, <2>3 DEF cleanup, ResetUnderlying, nativeUnchanged, coding, settings, locals
<1>6. UNCHANGED <<chunkCallbacks, flushing, taken, written, endCalled, isFinished, pushed>>
  BY DEF OnError, callerVars, transformVars
<1>7. Outputs' /\ Emitted' = Emitted
  BY <1>1, <1>5, <1>6, ServedTelling
<1>8. HandedOver'
  BY <1>5, <1>6 DEF Data, HandedOver, File
<1>9. Finishing'
  BY <1>3, <1>6 DEF Data, Finishing
<1>10. ~Healthy' /\ FlushAnswered'
  BY <1>4, <1>5 DEF Healthy, FlushAnswered
<1> QED
  BY <1>2, <1>5, <1>6, <1>7, <1>8, <1>9, <1>10, StillData

LEMMA OnBufferData ==
  ASSUME IInv, IInv', Control, Data, OnBuffer
  PROVE  Data'
<1>1. Immediate("buf")
  BY DEF OnBuffer
<1>2. ~eof /\ processedChunks = 0
  BY <1>1, ImmediateServed
<1>3. /\ UNCHANGED <<coder, lastCodeResult, inbufs, outbufs, inbuf, readChunks, shouldFinish, bufsize, job>>
      /\ UNCHANGED <<internal, processedChunks, threads>>
      /\ UNCHANGED <<chunkCallbacks, flushing, taken, written, endCalled, isFinished, eof, errors>>
      /\ pushed' = pushed \cup Head(calls).out
  BY <1>2 DEF OnBuffer, nativeUnchanged, coding, settings, locals, callerVars, transformVars, streamVars
<1>4. Outputs' /\ Emitted' = Emitted
  BY <1>1, <1>3, ServedTelling
<1>5. /\ NullComes' => NullComes
      /\ ErrorComes' => ErrorComes
      /\ NullComes => NullComes'
      /\ ErrorComes => ErrorComes'
  <2>1. calls \in Seq(Call) /\ CallsInOrder
    BY DEF IInv, TypeOK, NativeTypeOK, Control
  <2>2. "buf" # "null" /\ "buf" # "error"
    OBVIOUS
  <2> QED
    BY <1>1, <2>1, <2>2, OneCallLess
<1>6. ~NoNumbers' => ~NoNumbers
  <2>1. calls \in Seq(Call) /\ calls # <<>> /\ calls' = Tail(calls)
    BY <1>1 DEF Immediate, IInv, TypeOK, NativeTypeOK
  <2>2. \A i \in DOMAIN calls' : i + 1 \in DOMAIN calls /\ calls'[i] = calls[i + 1]
    BY <2>1
  <2> QED
    BY <2>2 DEF NoNumbers
<1>7. Healthy' => Healthy
  BY <1>3, <1>5 DEF Healthy
<1>8. FlushAnswered'
  BY <1>2, <1>3, <1>5, <1>6, <1>7 DEF Data, FlushAnswered
<1>9. HandedOver'
  BY <1>3 DEF Data, HandedOver, File
<1>10. Finishing'
  <2>1. Pos' = Pos /\ Units' = Units /\ Ends' = Ends /\ File' = File /\ Decoder' = Decoder
    BY <1>3, SameHand
  <2>2. Clear => Clear'
    BY <1>3 DEF Clear, Quiet, threads
  <2> QED
    BY <1>3, <1>5, <2>1, <2>2 DEF Data, Finishing, Padding, FreshCoder
<1> QED
  BY <1>3, <1>4, <1>5, <1>7, <1>8, <1>9, <1>10, StillData

LEMMA OnStreamEndData ==
  ASSUME IInv, IInv', Control, Data, OnStreamEnd
  PROVE  Data'
<1>1. Immediate("null")
  BY DEF OnStreamEnd
<1>2. /\ inbufs = <<>> /\ readChunks = 0 /\ processedChunks = 0 /\ lastCodeResult = "OK"
      /\ Quiet /\ pc = "idle"
      /\ errors = 0 /\ ~eof /\ ~internal /\ ~BufComes' /\ ~NullComes' /\ ~ErrorComes'
  BY <1>1, ImmediateServed
<1>3. NullComes /\ ~ErrorComes
  <2>1. calls \in Seq(Call) /\ CallsInOrder
    BY DEF IInv, TypeOK, NativeTypeOK, Control
  <2>2. NullComes /\ (ErrorComes => ErrorComes')
    BY <1>1, <2>1, OneCallLess
  <2> QED
    BY <1>2, <2>2
<1>4. /\ coder = FreshCoder /\ coder' = FreshCoder
      /\ UNCHANGED <<lastCodeResult, inbufs, outbufs, processedChunks, inbuf, readChunks>>
      /\ UNCHANGED <<shouldFinish, bufsize, job, threads>>
  BY <1>2 DEF Control, CoderFree, OnStreamEnd, restart, ResetUnderlying, nativeUnchanged, coding, settings, locals
<1>5. UNCHANGED <<chunkCallbacks, flushing, taken, written, endCalled, pushed, errors>>
  BY DEF OnStreamEnd, callerVars, transformVars
<1>6. Outputs' /\ Emitted' = Emitted
  BY <1>1, <1>4, <1>5, ServedTelling
<1>7. HandedOver'
  BY <1>4, <1>5 DEF Data, HandedOver, File
<1>8. \/ flushing /\ eof' /\ isFinished' = isFinished
      \/ ~flushing /\ isFinished' /\ (job.restartable \/ eof')
  BY DEF OnStreamEnd, Control, Flushes
<1>9. FlushAnswered'
  BY <1>2, <1>4, <1>5, <1>8 DEF FlushAnswered
<1>10. Healthy /\ ~coder'.ended
  BY <1>2, <1>3, <1>4 DEF Healthy, FreshCoder
<1>11. Finishing'
  <2>1. CASE flushing
    BY <1>3, <1>8, <2>1 DEF Data, Finishing
  <2>2. CASE ~flushing
    <3>1. Decoder /\ MemberEndsAt(Pos)
      BY <1>3, <2>2 DEF Control, EncoderEnds, Data, MemberEnds
    <3>2. job.restartable => Padding(Pos)
      <4>1. ASSUME job.restartable, Pos \in Ends
            PROVE  Pos <= Pos /\ \A u \in Units : Pos < u /\ u <= Pos => File[u] = "zero"
        <5>1. Pos \in Nat /\ Units \subseteq Nat
          BY <4>1, SoundFacts DEF Data, IInv, TypeOK, NativeTypeOK
        <5> QED
          BY <5>1
      <4> QED
        BY <3>1, <4>1 DEF Padding, MemberEndsAt
    <3>3. Pos' = Pos /\ Units' = Units /\ Ends' = Ends /\ File' = File /\ Decoder' = Decoder
      BY <1>4, <1>5, SameHand
    <3>4. Clear'
      BY <1>2, <1>4 DEF Clear, Quiet, threads
    <3> QED
      BY <1>2, <1>4, <1>5, <1>8, <2>2, <3>1, <3>2, <3>3, <3>4 DEF Finishing, Padding, FreshCoder
  <2> QED
    BY <2>1, <2>2
<1> QED
  BY <1>2, <1>4, <1>5, <1>6, <1>7, <1>9, <1>10, <1>11, StillData

(* No chunk is with the native object any more. *)
LEMMA DoneData ==
  ASSUME IInv, Control, Data, chunkCallbacks' = <<>>, Outputs', Emitted' = Emitted, Pos' = Pos,
         UNCHANGED <<job, flushing, taken, written, endCalled, bufsize, errors, isFinished>>,
         Healthy' => Healthy /\ coder'.pending = coder.pending,
         ~coder'.ended, lastCodeResult' = "OK", ~NullComes', ~ErrorComes', NoNumbers', processedChunks' = 0,
         isFinished => Clear' /\ coder' = FreshCoder /\ (eof' \/ UNCHANGED eof)
  PROVE  Data'
<1>1. /\ File' = File /\ Units' = Units /\ Payload' = Payload /\ Ends' = Ends /\ Decoder' = Decoder
      /\ SoundJob'
  BY DEF File, Units, Payload, Ends, Decoder, SoundJob, Data
<1>2. Accounted' /\ JunkFree'
  BY <1>1 DEF Data, Accounted, JunkFree
<1>3. MemberEnds' /\ FlushAnswered' /\ WriteInHand' /\ FlushInHand'
  BY DEF MemberEnds, FlushAnswered, WriteInHand, FlushInHand
<1>4. HandedOver'
  BY <1>1 DEF Data, HandedOver
<1>5. Finishing'
  BY <1>1 DEF Data, Finishing, Padding, FreshCoder
<1> QED
  BY <1>1, <1>2, <1>3, <1>4, <1>5 DEF Data

LEMMA OnNumberData ==
  ASSUME IInv, IInv', Control, Data, OnNumber
  PROVE  Data'
<1> DEFINE left == SubSeq(chunkCallbacks, Head(calls).n + 1, Len(chunkCallbacks))
           callback == Head(chunkCallbacks)
<1>1. Immediate("number")
  BY DEF OnNumber
<1>2. /\ inbufs = <<>> /\ readChunks = 0 /\ processedChunks = 0 /\ lastCodeResult = "OK"
      /\ Quiet /\ pc = "idle" /\ Reported /\ Len(chunkCallbacks) = 1
      /\ calls' = <<>> /\ ~NullComes /\ ~ErrorComes
      /\ ~NullComes' /\ ~ErrorComes'
  BY <1>1, ImmediateServed
<1>3. Head(calls).n = 1
  BY <1>1, ImmediateFinds DEF IInv
<1>4. left = <<>> /\ callback = chunkCallbacks[1] /\ callback \in Callback /\ chunkCallbacks # <<>>
  <2>1. chunkCallbacks \in Seq(Callback) /\ chunkCallbacks # <<>>
    <3>1. chunkCallbacks \in Seq(Callback)
      BY DEF IInv, TypeOK
    <3>2. Len(chunkCallbacks) = 1
      BY <1>2
    <3> QED
      BY <3>1, <3>2
  <2>2. left = <<>>
    BY <1>2, <1>3, <2>1
  <2> QED
    BY <1>2, <2>1, <2>2
<1>5. callback.kind = "flush" <=> flushing
  BY <1>4 DEF Control, Flushes
<1>6. /\ UNCHANGED <<written, endCalled, taken, flushing, pushed, errors>>
      /\ \/ /\ callback.kind = "write" /\ ~Empty(callback.rest)
            /\ Transform(callback.rest, left)
            /\ UNCHANGED <<flushed, eof, nativeStream, countVars>>
         \/ /\ callback.kind = "write" /\ Empty(callback.rest)
            /\ chunkCallbacks' = left
            /\ nativeUnchanged
            /\ UNCHANGED <<eof, isFinished>>
         \/ /\ callback.kind = "flush"
            /\ cleanup
            /\ chunkCallbacks' = left
            /\ eof'
            /\ UNCHANGED isFinished
  BY DEF OnNumber, callerVars
<1> HIDE DEF left, callback
<1>7. job' = job /\ outbufs' = outbufs
  BY <1>6 DEF Transform, nativeUnchanged, Code, cleanup, ResetUnderlying, coding, settings
<1>8. Outputs' /\ Emitted' = Emitted
  BY <1>1, <1>6, <1>7, ServedTelling
<1>9. Clear /\ ~coder.ended
  BY <1>2 DEF Clear, Data, MemberEnds
<1>10. ~NoNumbers
  <2>1. calls \in Seq(Call)
    BY DEF IInv, TypeOK, NativeTypeOK
  <2>2. 1 \in DOMAIN calls /\ calls[1].kind = "number"
    BY <1>1, <2>1 DEF Immediate
  <2> QED
    BY <2>2 DEF NoNumbers
<1>11. NoNumbers'
  BY <1>2 DEF NoNumbers
<1>12. ~flushing => /\ Pos = callback.rest.lo /\ callback.rest.hi = taken
                    /\ ~Empty(callback.rest) => Clean(callback.rest.lo)
  BY <1>2, <1>4 DEF Pos, Data, WriteInHand
<1>13. CASE callback.kind = "write" /\ ~Empty(callback.rest) /\ Transform(callback.rest, left) /\ eof' = eof
  <2>1. callback.rest \in Chunk
    BY <1>4 DEF Callback
  <2>2. ~flushing /\ "write" # "flush"
    BY <1>5, <1>13
  <2>3. taken <= written /\ taken \in job.cuts \cup {0}
    BY DEF Data, HandedOver
  <2> QED
    BY <1>2, <1>4, <1>6, <1>8, <1>9, <1>12, <1>13, <2>1, <2>2, <2>3, TransformData
<1>14. CASE /\ callback.kind = "write" /\ Empty(callback.rest) /\ chunkCallbacks' = left
            /\ nativeUnchanged /\ UNCHANGED <<eof, isFinished>>
  <2>1. ~flushing
    BY <1>5, <1>14
  <2>2. /\ UNCHANGED <<coder, lastCodeResult, inbufs, processedChunks, readChunks, bufsize, threads>>
    BY <1>14 DEF nativeUnchanged, coding, settings, locals
  <2>3. Clear' /\ processedChunks' = 0 /\ lastCodeResult' = "OK" /\ ~coder'.ended
    BY <1>2, <1>9, <2>2 DEF Clear, Quiet, threads
  <2>4. Pos' = Pos
    BY <1>4, <1>6, <1>12, <1>14, <2>1 DEF Pos, Empty
  <2>5. Healthy' => Healthy
    BY <1>2, <1>6 DEF Healthy
  <2>6. isFinished => coder' = FreshCoder
    BY <2>2 DEF Data, Finishing
  <2> QED
    BY <1>2, <1>4, <1>6, <1>7, <1>8, <1>11, <1>14, <2>2, <2>3, <2>4, <2>5, <2>6, DoneData
<1>15. CASE callback.kind = "flush" /\ cleanup /\ chunkCallbacks' = left /\ eof' /\ UNCHANGED isFinished
  <2>1. flushing
    BY <1>5, <1>15
  <2>2. /\ UNCHANGED <<inbufs, readChunks, bufsize, threads>>
        /\ processedChunks' = 0 /\ lastCodeResult' = "OK"
        /\ coder' = FreshCoder
    BY <1>2, <1>15 DEF cleanup, ResetUnderlying, nativeUnchanged, coding, settings, locals,
       IInv, Released, Control, CoderFree
  <2>3. Clear' /\ ~coder'.ended
    BY <1>2, <2>2 DEF Clear, Quiet, threads, FreshCoder
  <2>4. Pos' = Pos
    BY <1>6, <2>1 DEF Pos
  <2>5. Healthy' => Healthy /\ coder'.pending = coder.pending
    <3> SUFFICES ASSUME Healthy' PROVE Healthy /\ coder' = coder
      OBVIOUS
    <3>1. Healthy
      BY <1>2, <1>6 DEF Healthy
    <3>2. eof
      BY <1>2, <1>10, <2>1, <3>1 DEF Data, FlushAnswered
    <3>3. coder = FreshCoder
      BY <3>2 DEF Control, Silent, CoderFree
    <3> QED
      BY <2>2, <3>1, <3>3
  <2> QED
    BY <1>2, <1>4, <1>6, <1>7, <1>8, <1>11, <1>15, <2>2, <2>3, <2>4, <2>5, DoneData
<1> QED
  BY <1>6, <1>13, <1>14, <1>15

-----------------------------------------------------------------------------
(* The invariant *)

LEMMA NextData == IInv /\ IInv' /\ Control /\ Control' /\ Data /\ [Next]_vars => Data'
<1> SUFFICES ASSUME IInv, IInv', Control, Control', Data, [Next]_vars PROVE Data'
  OBVIOUS
<1>1. CASE UNCHANGED vars
  <2>1. /\ UNCHANGED <<job, chunkCallbacks, flushing, taken, inbufs, readChunks, inbuf, shouldFinish>>
        /\ UNCHANGED <<coder, lastCodeResult, outbufs, processedChunks, calls, pushed, bufsize>>
        /\ UNCHANGED <<written, endCalled, eof, errors, isFinished, pc, workers, finished, mutex>>
    BY <1>1 DEF vars, nativeVars, coding, settings, locals, threads, callerVars, transformVars,
       outputVars, streamVars
  <2>2. /\ Outputs' = Outputs /\ Emitted' = Emitted
        /\ NullComes' = NullComes /\ ErrorComes' = ErrorComes /\ NoNumbers' = NoNumbers
    BY <2>1, SameTelling
  <2>3. Pos' = Pos /\ Units' = Units /\ Ends' = Ends /\ File' = File /\ Decoder' = Decoder
    BY <2>1, SameHand
  <2>4. HandedOver' /\ FlushAnswered' /\ Healthy' = Healthy
    BY <2>1, <2>2, <2>3 DEF Data, HandedOver, FlushAnswered, Healthy
  <2>5. Clear' = Clear
    BY <2>1 DEF Clear, Quiet
  <2>6. Finishing'
    BY <2>1, <2>2, <2>3, <2>5 DEF Data, Finishing, Padding, FreshCoder
  <2> QED
    BY <2>1, <2>2, <2>4, <2>6, StillData DEF Data
<1> QED
  BY <1>1, StartWriteData, FlushData, OnErrorData, OnBufferData, OnStreamEndData, OnNumberData,
     CallerData, NativeTurnData
  DEF Next, Rest, Immediates

LEMMA DataInductive == SoundJob /\ Spec => [](IInv /\ Control /\ Data)
<1>1. SoundJob /\ Init => IInv /\ Control /\ Data
  BY InitIInv, InitControl, InitData
<1>2. (IInv /\ Control /\ Data) /\ [Next]_vars => (IInv /\ Control /\ Data)'
  BY NextIInv, NextControl, NextData
<1> QED
  BY <1>1, <1>2, PTL DEF Spec

-----------------------------------------------------------------------------
(* What the stream implements *)

LEMMA LargestFacts ==
  ASSUME NEW n \in Nat, NEW S \in SUBSET (0 .. n), S # {}
  PROVE  \E m \in S : \A y \in S : y <= m
<1> DEFINE B == {b \in 0 .. n : \A y \in S : y <= b}
           m == Smallest(B)
<1>1. B \in SUBSET Nat /\ n \in B
  OBVIOUS
<1>2. m \in B /\ \A y \in B : m <= y
  BY <1>1, SmallestFacts
<1>3. m \in 0 .. n /\ \A y \in S : y <= m
  BY <1>2
<1>4. m \in S
  <2> SUFFICES ASSUME m \notin S PROVE FALSE
    OBVIOUS
  <2>1. PICK y \in S : TRUE
    OBVIOUS
  <2>2. m \in Nat /\ y \in Nat /\ y <= m /\ y # m
    BY <1>3, <2>1
  <2>3. m - 1 \in 0 .. n
    BY <1>3, <2>2
  <2> HIDE DEF m
  <2>4. \A x \in S : x <= m - 1
    <3> SUFFICES ASSUME NEW x \in S PROVE x <= m - 1
      OBVIOUS
    <3>1. x \in Nat /\ x <= m /\ x # m
      BY <1>3
    <3> QED
      BY <2>2, <3>1
  <2>5. m - 1 \in B
    BY <2>3, <2>4
  <2> QED
    BY <1>2, <2>2, <2>5
<1> QED
  BY <1>3, <1>4

(* Without output in the queues everything given out was pushed. *)
LEMMA AllPushed ==
  ASSUME TypeOK, CallsCarry, ~BufComes, outbufs = <<>>
  PROVE  Emitted = pushed
<1>1. OutputShape
  BY OutputFacts
<1>2. Len(outbufs) = 0 /\ OutputLength = Len(calls) /\ OutputLength \in Nat /\ pushed \in SUBSET Units
  BY <1>1 DEF OutputShape, TypeOK
<1>3. \A i \in 1 .. OutputLength : Output[i] = {}
  BY <1>1, <1>2 DEF OutputShape, CallsCarry, BufComes
<1>4. Output[0] = pushed
  BY <1>1 DEF OutputShape
<1>5. ASSUME NEW i \in 0 .. OutputLength PROVE i = 0 \/ i \in 1 .. OutputLength
  BY <1>2
<1> QED
  BY <1>2, <1>3, <1>4, <1>5 DEF Emitted

(* The next call brings the next payload. *)
LEMMA NextPayload ==
  ASSUME TypeOK, Outputs, calls # <<>>, Head(calls).kind = "buf",
         NEW more, more = pushed \cup Head(calls).out
  PROVE  /\ pushed \subseteq more /\ pushed # more
         /\ \E bound \in Payload : more = {u \in Payload : u <= bound}
<1>1. OutputShape
  BY OutputFacts
<1>2. /\ Head(calls) = calls[1] /\ 1 \in DOMAIN calls /\ 1 \in 1 .. OutputLength
      /\ Output[0] = pushed /\ Output[1] = Head(calls).out
  <2>1. /\ calls \in Seq(Call) /\ Len(calls) \in Nat /\ Len(outbufs) \in Nat
        /\ OutputLength = Len(calls) + Len(outbufs)
        /\ Output[0] = pushed
        /\ \A i \in 1 .. Len(calls) : Output[i] = calls[i].out
    BY <1>1 DEF OutputShape
  <2>2. Head(calls) = calls[1] /\ 1 \in DOMAIN calls /\ 1 \in 1 .. Len(calls)
    BY <2>1
  <2> QED
    BY <2>1, <2>2
<1>3. Head(calls).out # {}
  BY <1>2 DEF Outputs, CallsCarry
<1>4. \A u \in pushed, v \in Head(calls).out : u < v
  BY <1>1, <1>2 DEF Outputs, Ordered, OutputShape
<1>5. Emitted \subseteq Payload /\ Payload \subseteq Units /\ Units = 1 .. Len(File) /\ Len(File) \in Nat
  BY FileFacts DEF Outputs, Gapless, TypeOK, NativeTypeOK
<1>6. more \subseteq Emitted /\ more \subseteq Nat /\ more \subseteq 0 .. Len(File)
  <2>1. more \subseteq Emitted
    BY <1>1, <1>2 DEF Emitted, OutputShape
  <2>2. Units \subseteq Nat /\ Units \subseteq 0 .. Len(File)
    BY <1>5
  <2> QED
    BY <1>5, <2>1, <2>2
<1>7. pushed # more
  <2>1. PICK v \in Head(calls).out : TRUE
    BY <1>3
  <2>2. v \in Nat
    BY <1>6, <2>1
  <2>3. v \notin pushed
    BY <1>4, <2>1, <2>2
  <2> QED
    BY <2>1, <2>3
<1>8. \A u \in more, v \in Payload : v < u => v \in more
  <2> SUFFICES ASSUME NEW u \in more, NEW v \in Payload, v < u PROVE v \in more
    OBVIOUS
  <2>1. v \in Emitted /\ u \in Nat /\ v \in Nat
    BY <1>5, <1>6 DEF Outputs, Gapless
  <2>2. PICK i \in 0 .. OutputLength : v \in Output[i]
    BY <2>1 DEF Emitted
  <2>3. PICK j \in {0, 1} : u \in Output[j]
    BY <1>2
  <2>4. i \in {0, 1}
    <3> SUFFICES ASSUME i \notin {0, 1} PROVE FALSE
      OBVIOUS
    <3>1. j \in 0 .. OutputLength /\ j < i
      BY <1>1, <1>2 DEF OutputShape
    <3>2. u < v
      BY <2>2, <2>3, <3>1 DEF Outputs, Ordered
    <3> QED
      BY <2>1, <3>2
  <2> QED
    BY <1>2, <2>2, <2>4
<1>9. PICK bound \in more : \A y \in more : y <= bound
  <2>1. more \in SUBSET (0 .. Len(File)) /\ more # {}
    BY <1>3, <1>6
  <2> QED
    BY <1>5, <2>1, LargestFacts
<1>10. more = {u \in Payload : u <= bound}
  <2>1. ASSUME NEW u \in Payload, u <= bound PROVE u \in more
    <3>1. u \in Nat /\ bound \in Nat
      BY <1>5, <1>6
    <3>2. u = bound \/ u < bound
      BY <2>1, <3>1
    <3> QED
      BY <1>8, <1>9, <3>2
  <2> QED
    BY <1>5, <1>6, <1>9, <2>1
<1> QED
  BY <1>5, <1>6, <1>7, <1>9, <1>10

LEMMA JobFixed ==
  ASSUME [Next]_vars
  PROVE  job' = job /\ Payload' = Payload /\ WellFormed' = WellFormed
<1>1. job' = job
  <2>1. NativeTurn => job' = job
    BY DEF NativeTurn, NativeStep, DoLZMACode, NoCoder, FetchChunk, CodeProgress, CodeStuck, CodeFails,
       CodeEnded, AfterCode, WorkerStarts, WorkerThrows, WorkerOnOK, InvokeBufferHandlers, HandOutput,
       HandResult, HandChunks, HandNothing, HandChunksBeforeReset, HandReset, settings
  <2>2. StartWrite \/ Flush \/ Immediates => job' = job
    BY DEF StartWrite, Flush, Immediates, OnError, OnBuffer, OnStreamEnd, OnNumber, Transform, Code,
       cleanup, restart, ResetUnderlying, nativeUnchanged, settings
  <2>3. Write \/ EndInput \/ AssignBufsize \/ ReadBufsize \/ Rest => job' = job
    BY DEF Write, EndInput, AssignBufsize, ReadBufsize, SetBufsize, Rest, vars, nativeVars, settings
  <2> QED
    BY <2>1, <2>2, <2>3 DEF Next, vars, nativeVars, settings
<1> QED
  BY <1>1 DEF Payload, WellFormed, Units, File, Decoder, Ends

(* With an empty coder and empty queues all payload so far was pushed. *)
LEMMA DeliveredSoFar ==
  ASSUME IInv, Data, Healthy, ~BufComes, outbufs = <<>>, coder = FreshCoder
  PROVE  \A u \in Payload : u <= Pos => u \in pushed
<1>1. Emitted = pushed
  BY AllPushed DEF IInv, Data, Outputs
<1> QED
  BY <1>1 DEF Data, Accounted, FreshCoder

LEMMA PushedIsPayload ==
  ASSUME IInv, Data
  PROVE  pushed \subseteq Payload
<1>1. OutputShape
  BY OutputFacts DEF IInv
<1>2. pushed \subseteq Emitted
  <2>1. 0 \in 0 .. OutputLength /\ Output[0] = pushed
    BY <1>1 DEF OutputShape
  <2>2. pushed \subseteq Units
    BY DEF IInv, TypeOK
  <2> QED
    BY <2>1, <2>2 DEF Emitted
<1> QED
  BY <1>2 DEF Data, Outputs, Gapless

(* _flush finds a decoder behind its last member. *)
LEMMA FlushDelivers ==
  ASSUME IInv, Control, Data, Flush, isFinished, ~eof
  PROVE  WellFormed /\ pushed = Payload /\ errors = 0
<1>1. NoChunk /\ chunkCallbacks = <<>> /\ calls = <<>>
  BY HandOverIsClear DEF IInv, Flush
<1>2. /\ Decoder /\ coder = FreshCoder /\ errors = 0 /\ job.restartable /\ Padding(Pos)
  BY DEF Data, Finishing
<1>3. outbufs = <<>> /\ lastCodeResult = "OK"
  BY <1>1 DEF Control, NothingHeld, ResultHeld, NoChunk, Counted
<1>4. Healthy /\ ~BufComes
  BY <1>1, <1>2, <1>3 DEF Healthy, ErrorComes, BufComes
<1>5. Pos = Len(File)
  BY <1>1 DEF Pos, Flush, Data, HandedOver
<1>6. /\ Ends \subseteq Units /\ Units \subseteq Nat /\ Units = 1 .. Len(File) /\ Len(File) \in Nat
      /\ Payload \subseteq Units
  BY SoundFacts DEF IInv, TypeOK, NativeTypeOK, Data
<1>7. \A u \in Units : u <= Pos
  BY <1>5, <1>6
<1>8. pushed = Payload
  BY <1>2, <1>3, <1>4, <1>6, <1>7, DeliveredSoFar, PushedIsPayload
<1>9. PICK e \in Ends : \A u \in Units : e < u => File[u] = "zero"
  BY <1>2, <1>7 DEF Padding
<1>10. \A u \in Units : File[u] # "junk"
  BY <1>2, <1>4, <1>7 DEF Data, JunkFree
<1>11. \A u \in Units : File[u] \in {"head", "data"} => u <= e
  BY <1>6, <1>9
<1> QED
  BY <1>2, <1>8, <1>9, <1>10, <1>11 DEF WellFormed

(* bufferHandler(null) ends an encoder, or a decoder of a single member. *)
LEMMA StreamEndDelivers ==
  ASSUME IInv, Control, Data, OnStreamEnd, eof'
  PROVE  WellFormed /\ pushed = Payload /\ errors = 0 /\ ~eof
<1>1. Immediate("null")
  BY DEF OnStreamEnd
<1>2. /\ lastCodeResult = "OK" /\ errors = 0 /\ ~eof /\ ~internal /\ ~BufComes' /\ ~NullComes' /\ ~ErrorComes'
      /\ outbufs = <<>>
  BY <1>1, ImmediateServed
<1>3. calls \in Seq(Call) /\ CallsInOrder /\ calls # <<>> /\ calls[1].kind = "null" /\ 1 \in DOMAIN calls
  <2>1. calls \in Seq(Call) /\ CallsInOrder
    BY DEF IInv, TypeOK, NativeTypeOK, Control
  <2> QED
    BY <1>1, <2>1 DEF Immediate
<1>4. \A i \in DOMAIN calls : i = 1 \/ calls[i].kind = "number"
  <2> SUFFICES ASSUME NEW i \in DOMAIN calls, i # 1 PROVE calls[i].kind = "number"
    OBVIOUS
  <2>1. 1 < i
    BY <1>3
  <2> QED
    BY <1>3, <2>1 DEF CallsInOrder
<1>5. ~BufComes /\ ~ErrorComes /\ NullComes
  BY <1>3, <1>4 DEF BufComes, ErrorComes, NullComes
<1>6. Healthy /\ coder = FreshCoder
  BY <1>2, <1>5 DEF Healthy, Control, CoderFree
<1>7. /\ Ends \subseteq Units /\ Units \subseteq Nat /\ Units = 1 .. Len(File) /\ Len(File) \in Nat
      /\ Payload \subseteq Units /\ job \in Jobs /\ SoundJob
  BY SoundFacts DEF IInv, TypeOK, NativeTypeOK, Data
<1>8. CASE flushing
  <2>1. ~Decoder
    BY <1>5, <1>8 DEF Data, MemberEnds
  <2>2. Pos = Len(File)
    BY <1>8 DEF Pos, IInv, OneAtATime, Data, HandedOver
  <2>3. \A u \in Payload : u <= Pos
    BY <1>7, <2>2
  <2>4. pushed = Payload
    BY <1>2, <1>5, <1>6, <2>3, DeliveredSoFar, PushedIsPayload
  <2> QED
    BY <1>2, <2>1, <2>4 DEF WellFormed
<1>9. CASE ~flushing
  <2>1. Decoder /\ MemberEndsAt(Pos)
    BY <1>5, <1>9 DEF Control, EncoderEnds, Data, MemberEnds
  <2>2. nativeStream
    BY <1>2, <1>9 DEF Control, Flushes, IInv, TypeOK
  <2>3. ~job.restartable
    BY <1>2, <1>9, <2>2 DEF OnStreamEnd, Control, Flushes
  <2>4. PICK e \in Ends : e <= Pos
    BY <2>1, <2>3 DEF MemberEndsAt
  <2>5. Ends = {e} /\ \A u \in Units : u > e => File[u] \notin {"head", "data"}
    BY <1>7, <2>1, <2>3, SoundFacts
  <2>6. Pos \in Nat
    <3>1. Reported
      BY <1>1, ImmediateServed
    <3>2. /\ inbufs = <<>> /\ readChunks = 0 /\ Len(chunkCallbacks) = 1
      BY <3>1 DEF Reported
    <3>3. chunkCallbacks \in Seq(Callback)
      BY DEF IInv, TypeOK
    <3>4. chunkCallbacks # <<>> /\ chunkCallbacks[1] \in Callback
      <4>1. Len(chunkCallbacks) = 1
        BY <3>2
      <4> QED
        BY <3>3, <4>1
    <3>5. chunkCallbacks[1].rest \in Chunk
      BY <3>4 DEF Callback
    <3> QED
      BY <1>7, <1>9, <3>2, <3>4, <3>5, ChunkFacts DEF Pos
  <2>7. \A u \in Units : u <= e => u <= Pos
    BY <1>7, <2>4, <2>6
  <2>8. \A u \in Payload : u <= e
    BY <1>7, <2>1, <2>5 DEF Payload
  <2>9. pushed = Payload
    BY <1>2, <1>5, <1>6, <1>7, <2>7, <2>8, DeliveredSoFar, PushedIsPayload
  <2>10. \A u \in Units : File[u] = "junk" => e < u
    BY <1>6, <1>7, <2>1, <2>7 DEF Data, JunkFree
  <2>11. \A u \in Units : File[u] \in {"head", "data"} => u <= e
    BY <1>7, <2>5
  <2> QED
    BY <1>2, <2>3, <2>5, <2>9, <2>10, <2>11 DEF WellFormed
<1> QED
  BY <1>8, <1>9

(* Every step of the stream is a step of the pipe, or leaves it alone. *)
LEMMA StepIsPipeStep ==
  ASSUME IInv, IInv', Control, Data, [Next]_vars
  PROVE  [Pipe!Next]_Pipe!vars
<1> DEFINE status == IF errors > 0 THEN "failed" ELSE IF eof THEN "ended" ELSE "open"
<1>1. Payload' = Payload /\ WellFormed' = WellFormed
  BY JobFixed
<1>2. errors \in Nat /\ eof \in BOOLEAN /\ (errors > 0 => eof)
  BY DEF IInv, TypeOK, Control, Silent
<1>3. UNCHANGED <<pushed, errors, eof>> => UNCHANGED Pipe!vars
  BY <1>1 DEF Pipe!vars
<1>4. CASE OnBuffer
  <2>1. Immediate("buf")
    BY <1>4 DEF OnBuffer
  <2>2. ~eof /\ errors = 0
    BY <2>1, ImmediateServed
  <2>3. pushed' = pushed \cup Head(calls).out /\ UNCHANGED <<errors, eof>>
    BY <1>4, <2>2 DEF OnBuffer
  <2>4. calls # <<>> /\ Head(calls).kind = "buf"
    BY <2>1 DEF Immediate
  <2>5. /\ pushed \subseteq pushed' /\ pushed # pushed'
        /\ \E bound \in Payload : pushed' = {u \in Payload : u <= bound}
    BY <2>3, <2>4, NextPayload DEF IInv, Data
  <2> QED
    BY <1>1, <2>2, <2>3, <2>5 DEF Pipe!Next, Pipe!Deliver
<1>5. CASE OnError
  <2>1. ~eof /\ errors = 0
    BY <1>5, ImmediateServed DEF OnError
  <2>2. errors' = 1 /\ pushed' = pushed
    BY <1>5, <2>1 DEF OnError
  <2> QED
    BY <1>1, <2>1, <2>2 DEF Pipe!Next, Pipe!Fail
<1>6. CASE OnStreamEnd
  <2>1. UNCHANGED <<pushed, errors>> /\ eof' \in BOOLEAN
    BY <1>6 DEF OnStreamEnd, IInv, TypeOK
  <2>2. CASE eof'
    <3>1. WellFormed /\ pushed = Payload /\ errors = 0 /\ ~eof
      BY <1>6, <2>2, StreamEndDelivers
    <3> QED
      BY <1>1, <2>1, <2>2, <3>1 DEF Pipe!Next, Pipe!End
  <2>3. CASE ~eof'
    <3>1. ~eof
      BY <1>6, ImmediateServed DEF OnStreamEnd
    <3> QED
      BY <1>2, <1>3, <2>1, <2>3, <3>1
  <2> QED
    BY <2>2, <2>3
<1>7. CASE OnNumber
  <2>1. UNCHANGED <<pushed, errors>> /\ Immediate("number")
    BY <1>7 DEF OnNumber
  <2>2. CASE UNCHANGED eof
    BY <1>3, <2>1, <2>2
  <2>3. CASE ~UNCHANGED eof
    <3>1. eof' = TRUE /\ Head(chunkCallbacks).kind = "flush"
      BY <1>7, <2>3 DEF OnNumber
    <3>2. Len(chunkCallbacks) = 1 /\ lastCodeResult = "OK" /\ ~NullComes /\ ~ErrorComes
      BY <2>1, ImmediateServed
    <3>3. chunkCallbacks # <<>> /\ Head(chunkCallbacks) = chunkCallbacks[1]
      <4>1. chunkCallbacks \in Seq(Callback)
        BY DEF IInv, TypeOK
      <4>2. Len(chunkCallbacks) = 1
        BY <3>2
      <4> QED
        BY <4>1, <4>2
    <3>4. flushing
      BY <3>1, <3>3 DEF Control, Flushes
    <3>5. ~NoNumbers
      <4>1. calls \in Seq(Call)
        BY DEF IInv, TypeOK, NativeTypeOK
      <4>2. 1 \in DOMAIN calls /\ calls[1].kind = "number"
        BY <2>1, <4>1 DEF Immediate
      <4> QED
        BY <4>2 DEF NoNumbers
    <3>6. ~Healthy
      BY <1>2, <2>3, <3>1, <3>2, <3>4, <3>5 DEF Data, FlushAnswered
    <3>7. errors > 0
      BY <1>2, <3>2, <3>6 DEF Healthy
    <3> QED
      BY <1>1, <2>1, <3>7 DEF Pipe!vars
  <2> QED
    BY <2>2, <2>3
<1>8. CASE Flush
  <2>1. UNCHANGED <<pushed, errors>>
    BY <1>8 DEF Flush
  <2>2. CASE UNCHANGED eof
    BY <1>3, <2>1, <2>2
  <2>3. CASE ~UNCHANGED eof
    <3>1. eof' = TRUE /\ isFinished /\ ~eof
      BY <1>2, <1>8, <2>3 DEF Flush
    <3>2. WellFormed /\ pushed = Payload /\ errors = 0
      BY <1>8, <3>1, FlushDelivers
    <3> QED
      BY <1>1, <2>1, <3>1, <3>2 DEF Pipe!Next, Pipe!End
  <2> QED
    BY <2>2, <2>3
<1>9. CASE StartWrite \/ Write \/ EndInput \/ AssignBufsize \/ ReadBufsize \/ NativeTurn \/ Rest \/ UNCHANGED vars
  <2>1. UNCHANGED <<pushed, errors, eof>>
    BY <1>9 DEF StartWrite, Write, EndInput, AssignBufsize, ReadBufsize, NativeTurn, Rest, vars, outputVars
  <2> QED
    BY <1>3, <2>1
<1> QED
  BY <1>4, <1>5, <1>6, <1>7, <1>8, <1>9 DEF Next, Immediates

LEMMA InitIsPipeInit ==
  ASSUME Init
  PROVE  Pipe!Init
<1>1. job \in Jobs /\ pushed = {} /\ errors = 0 /\ ~eof
  BY DEF Init, NativeInit
<1>2. Payload \subseteq Nat
  BY <1>1, FileFacts
<1>3. WellFormed \in BOOLEAN
  BY DEF WellFormed
<1> QED
  BY <1>1, <1>2, <1>3 DEF Pipe!Init

(* For every input that is safe to hand over in these pieces, the stream   *)
(* is the pipe: output comes in the order of the payload and without gaps, *)
(* and push(null) without an error comes exactly behind all of it, for any *)
(* buffer sizes, writes, threads and timing of the immediates.             *)
THEOREM StreamImplementsBytePipe == SoundJob /\ Spec => ImplementsBytePipe
<1>1. Init => Pipe!Init
  BY InitIsPipeInit
<1>2. (IInv /\ Control /\ Data) /\ (IInv /\ Control /\ Data)' /\ [Next]_vars => [Pipe!Next]_Pipe!vars
  BY StepIsPipeStep
<1>3. SoundJob /\ Spec => []((IInv /\ Control /\ Data))
  BY DataInductive
<1> QED
  BY <1>1, <1>2, <1>3, PTL DEF Spec, ImplementsBytePipe, Pipe!Spec

(* A stream that ends without an error has delivered the whole payload.    *)
THEOREM StreamLosesNothing == SoundJob /\ Spec => []NoSilentLoss
<1> DEFINE P == IInv /\ Control /\ Data
<1>1. Init => NoSilentLoss
  BY DEF Init, NoSilentLoss
<1>2. P /\ P' /\ NoSilentLoss /\ [Next]_vars => NoSilentLoss'
  <2> SUFFICES ASSUME P, P', NoSilentLoss, [Next]_vars PROVE NoSilentLoss'
    OBVIOUS
  <2>1. [Pipe!Next]_Pipe!vars
    BY StepIsPipeStep
  <2>2. errors \in Nat /\ eof \in BOOLEAN /\ errors' \in Nat /\ eof' \in BOOLEAN
    BY DEF IInv, TypeOK
  <2> QED
    BY <2>1, <2>2 DEF Pipe!Next, Pipe!Deliver, Pipe!End, Pipe!Fail, Pipe!vars, NoSilentLoss
<1>3. SoundJob /\ Spec => []P
  BY DataInductive
<1> QED
  BY <1>1, <1>2, <1>3, PTL DEF Spec

-----------------------------------------------------------------------------
(* Good input *)

GoodInput == WellFormed /\ MembersBegin /\ ~job.canFail

(* A decoder does not go without input twice: the next chunk has some, and *)
(* an encoder without input is finishing.                                  *)
Fed == readChunks = 1 /\ coder.stuck => ~Empty(inbuf) \/ flushing

FinishTold == coder.sequence = "finish" => shouldFinish

(* Where nothing more is to be taken in, the decoder is inside a member,   *)
(* or behind one, or at the very beginning.                                *)
Begun ==
  Decoder /\ ~NullComes /\ lastCodeResult = "OK" /\ ~isFinished /\ inbufs = <<>>
    => \/ coder.started \/ Pos = 0
       \/ readChunks = 1 /\ ~Empty(inbuf)

(* A decoder inside a member has read its header and not its end.          *)
InMember ==
  Decoder /\ internal /\ ~coder.ended /\ lastCodeResult = "OK" =>
    /\ coder.started => \E h \in Units : /\ h <= Pos /\ File[h] = "head"
                                         /\ \A e \in Ends : e < h \/ Pos < e
    /\ ~job.restartable => \A e \in Ends : Pos < e

(* The first unit a decoder sees is a header.                              *)
AtStart ==
  Decoder /\ internal /\ ~coder.started =>
    /\ inbufs # <<>> => File[inbufs[1].lo + 1] = "head"
    /\ readChunks = 1 => File[inbuf.lo + 1] = "head"

(* A decoder has come to its end when _flush is called. *)
NoneFlushed == Decoder /\ flushing => chunkCallbacks = <<>>

Accepts == Healthy /\ Fed /\ FinishTold /\ Begun /\ InMember /\ AtStart /\ NoneFlushed

LEMMA BeginsFacts ==
  ASSUME job \in Jobs, MembersBegin, Decoder
  PROVE  /\ Units # {} => File[1] = "head"
         /\ job.restartable =>
              \A e \in Ends, u \in Units :
                e < u /\ File[u] # "zero" /\ (\A v \in (e + 1) .. (u - 1) : File[v] = "zero")
                  => File[u] = "head"
<1>1. File \in Seq(Kinds)
  BY FileFacts
<1>2. DOMAIN File = Units /\ (Units # {} => File # <<>>)
  BY <1>1 DEF Units
<1> QED
  BY <1>2 DEF MembersBegin, Begins, Decoder, Ends, File

LEMMA InitAccepts ==
  ASSUME Init, GoodInput
  PROVE  Accepts
<1>1. ~NullComes /\ ~ErrorComes
  BY NoCalls DEF Init, NativeInit
<1>2. Healthy
  BY <1>1 DEF Init, NativeInit, Healthy
<1>3. Pos = 0
  BY DEF Init, Pos
<1>4. /\ coder.sequence = "run" /\ ~coder.stuck /\ inbufs = <<>> /\ readChunks = 0
      /\ chunkCallbacks = <<>>
  BY DEF Init, NativeInit, FreshCoder
<1>5. Fed /\ FinishTold
  BY <1>4 DEF Fed, FinishTold
<1>6. Begun /\ AtStart /\ NoneFlushed
  BY <1>3, <1>4 DEF Begun, AtStart, NoneFlushed
<1>7. InMember
  <2>1. Ends \subseteq Nat \ {0}
    BY JobsAssumption DEF Init, NativeInit, IsJob, Ends
  <2>2. \A e \in Ends : 0 < e
    BY <2>1
  <2> QED
    BY <1>3, <2>2 DEF Init, NativeInit, FreshCoder, InMember
<1> QED
  BY <1>2, <1>5, <1>6, <1>7 DEF Accepts

LEMMA StillAccepts ==
  ASSUME Accepts, Healthy',
         UNCHANGED <<job, chunkCallbacks, flushing, taken, inbufs, readChunks, inbuf, shouldFinish>>,
         \/ /\ UNCHANGED <<coder, internal, lastCodeResult>>
            /\ NullComes => NullComes'
            /\ isFinished => isFinished'
         \/ /\ coder' = FreshCoder
            /\ Decoder => NullComes' \/ isFinished'
            /\ internal' => job.restartable /\ inbufs = <<>> /\ readChunks = 0
  PROVE  Accepts'
<1>1. /\ Pos' = Pos /\ Units' = Units /\ File' = File /\ Ends' = Ends /\ Decoder' = Decoder
  BY SameHand
<1>2. Empty(inbuf)' = Empty(inbuf)
  BY DEF Empty
<1>3. CASE /\ UNCHANGED <<coder, internal, lastCodeResult>>
           /\ NullComes => NullComes'
           /\ isFinished => isFinished'
  <2>1. Fed' /\ FinishTold' /\ NoneFlushed'
    BY <1>1, <1>2, <1>3 DEF Accepts, Fed, FinishTold, NoneFlushed
  <2>2. Begun'
    BY <1>1, <1>2, <1>3, Zenon DEF Accepts, Begun
  <2>3. InMember'
    BY <1>1, <1>3, Zenon DEF Accepts, InMember
  <2>4. AtStart'
    BY <1>1, <1>3, Zenon DEF Accepts, AtStart
  <2> QED
    BY <2>1, <2>2, <2>3, <2>4 DEF Accepts
<1>4. CASE /\ coder' = FreshCoder
           /\ Decoder => NullComes' \/ isFinished'
           /\ internal' => job.restartable /\ inbufs = <<>> /\ readChunks = 0
  <2>1. coder'.sequence = "run" /\ ~coder'.stuck /\ ~coder'.started
    BY <1>4 DEF FreshCoder
  <2>2. Fed' /\ FinishTold' /\ NoneFlushed'
    BY <1>1, <2>1 DEF Accepts, Fed, FinishTold, NoneFlushed
  <2>3. Begun'
    BY <1>1, <1>4, Zenon DEF Begun
  <2>4. InMember'
    BY <1>1, <1>4, <2>1 DEF InMember
  <2>5. AtStart'
    BY <1>1, <1>4 DEF AtStart
  <2> QED
    BY <2>2, <2>3, <2>4, <2>5 DEF Accepts
<1> QED
  BY <1>3, <1>4

LEMMA CallerAccepts ==
  ASSUME Accepts, Write \/ EndInput \/ AssignBufsize \/ ReadBufsize
  PROVE  Accepts'
<1>1. /\ UNCHANGED <<coding, locals, threads, calls, shouldFinish, job>>
      /\ UNCHANGED <<transformVars, outputVars, countVars, streamVars>>
  BY DEF Write, EndInput, AssignBufsize, ReadBufsize, SetBufsize, nativeVars, settings
<1>2. /\ UNCHANGED <<job, chunkCallbacks, flushing, taken, inbufs, readChunks, inbuf, shouldFinish>>
      /\ UNCHANGED <<coder, internal, lastCodeResult, calls, isFinished, errors>>
  BY <1>1 DEF coding, locals, threads, transformVars, outputVars, streamVars
<1>3. NullComes' = NullComes /\ Healthy'
  BY <1>2, SameCalls DEF Accepts, Healthy
<1> QED
  BY <1>2, <1>3, StillAccepts

LEMMA WorkerAccepts ==
  ASSUME Accepts, WorkerStarts \/ WorkerThrows \/ WorkerOnOK,
         UNCHANGED <<callerVars, transformVars, outputVars, streamVars>>
  PROVE  Accepts'
<1>1. /\ UNCHANGED <<job, chunkCallbacks, flushing, taken, inbufs, readChunks, inbuf, shouldFinish>>
      /\ UNCHANGED <<coder, internal, lastCodeResult, calls, isFinished, errors>>
  BY DEF WorkerStarts, WorkerThrows, WorkerOnOK, coding, settings, locals, transformVars, outputVars,
     streamVars
<1>2. NullComes' = NullComes /\ Healthy'
  BY <1>1, SameCalls DEF Accepts, Healthy
<1> QED
  BY <1>1, <1>2, StillAccepts

LEMMA HandlersAccept ==
  ASSUME IInv, Control, Accepts, InvokeBufferHandlers,
         UNCHANGED <<callerVars, transformVars, outputVars, streamVars>>
  PROVE  Accepts'
<1>1. /\ UNCHANGED <<job, chunkCallbacks, flushing, taken, inbufs, readChunks, inbuf, shouldFinish>>
      /\ UNCHANGED <<isFinished, errors>>
  BY DEF InvokeBufferHandlers, HandOutput, HandResult, HandChunks, HandNothing,
     HandChunksBeforeReset, HandReset, coding, settings, locals, transformVars, outputVars, streamVars
<1>2. errors = 0 /\ lastCodeResult # "ERROR" /\ ~ErrorComes /\ CallsInOrder /\ calls \in Seq(Call)
  BY HandlersFind DEF Accepts, Healthy, Control
<1>3. CASE HandOutput
  <2>1. UNCHANGED <<coder, internal, lastCodeResult>> /\ pc = "outbufs"
        /\ calls' = Append(calls, BufCall(Head(outbufs)))
    BY <1>3 DEF HandOutput
  <2>2. ~NullComes /\ ~ErrorComes'
    BY <1>2, <2>1, HandlersFind, OneMoreCall DEF BufCall
  <2> QED
    BY <1>1, <1>2, <2>1, <2>2, StillAccepts DEF Healthy
<1>4. CASE HandResult
  <2>1. /\ UNCHANGED <<coder, internal, lastCodeResult>> /\ pc = "outbufs"
        /\ calls' = Append(calls, NullCall)
    BY <1>2, <1>4 DEF HandResult, coding, IInv, TypeOK, NativeTypeOK, CodeResults
  <2>2. ~NullComes /\ ~ErrorComes'
    BY <1>2, <2>1, HandlersFind, OneMoreCall DEF NullCall
  <2> QED
    BY <1>1, <1>2, <2>1, <2>2, StillAccepts DEF Healthy
<1>5. CASE HandChunks \/ HandChunksBeforeReset
  <2>1. UNCHANGED <<coder, internal, lastCodeResult>>
        /\ calls' = Append(calls, NumberCall(processedChunks))
    BY <1>5 DEF HandChunks, HandChunksBeforeReset
  <2>2. NumberCall(processedChunks).kind = "number"
    BY DEF NumberCall
  <2>3. (NullComes' <=> NullComes) /\ ~ErrorComes'
    BY <1>2, <2>1, <2>2, OneMoreCall
  <2> QED
    BY <1>1, <1>2, <2>1, <2>3, StillAccepts DEF Healthy
<1>6. CASE HandNothing
  <2>1. UNCHANGED <<coder, internal, lastCodeResult, calls>>
    BY <1>6 DEF HandNothing, coding
  <2>2. NullComes' = NullComes /\ ErrorComes' = ErrorComes
    BY <2>1, SameCalls
  <2> QED
    BY <1>1, <1>2, <2>1, <2>2, StillAccepts DEF Healthy
<1>7. CASE HandReset
  <2>1. coder' = FreshCoder /\ lastCodeResult' = "OK" /\ ~internal' /\ calls' = calls
        /\ pc \in {"chunks", "reset"}
    BY <1>7 DEF HandReset, resetUnderlying
  <2>2. NullComes' = NullComes /\ ErrorComes' = ErrorComes
    BY <2>1, SameCalls
  <2>3. NullComes
    BY <1>2, <2>1, HandlersFind
  <2> QED
    BY <1>1, <1>2, <2>1, <2>2, <2>3, StillAccepts DEF Healthy
<1> QED
  BY <1>3, <1>4, <1>5, <1>6, <1>7 DEF InvokeBufferHandlers

(* Where lzma_code is called for good input. *)
LEMMA LoopAccepts ==
  ASSUME IInv, Control, Data, Accepts, CallsLzmaCode
  PROVE  /\ readChunks = 1 /\ inbufs = <<>> /\ internal /\ lastCodeResult = "OK" /\ ~isFinished
         /\ ~NullComes /\ errors = 0
         /\ Decoder => ~flushing /\ Pos = inbuf.lo
         /\ Units = 1 .. Len(File) /\ Ends \subseteq Nat
<1>1. /\ BeingRead /\ internal /\ inbufs = <<>> /\ calls = <<>> /\ errors = 0 /\ lastCodeResult = "OK"
  BY LoopFinds
<1>2. ~NullComes
  BY <1>1, NoCalls
<1>3. chunkCallbacks # <<>> /\ readChunks = 1
  <2>1. Len(<<>>) = 0
    OBVIOUS
  <2> QED
    BY <1>1, <2>1 DEF BeingRead
<1>4. Decoder => ~flushing
  BY <1>3 DEF Accepts, NoneFlushed
<1>5. ~isFinished /\ Pos = IF flushing THEN taken ELSE inbuf.lo
  BY LoopData
<1>6. Units = 1 .. Len(File) /\ Ends \subseteq Nat
  BY SoundFacts DEF Data, IInv, TypeOK, NativeTypeOK
<1> QED
  BY <1>1, <1>2, <1>3, <1>4, <1>5, <1>6

LEMMA ProgressAccepts ==
  ASSUME IInv, Control, Data, Accepts, CallsLzmaCode,
         UNCHANGED <<callerVars, transformVars, outputVars, streamVars>>,
         NEW k \in Takes(coder, inbuf), NEW out \in Emissions(Pool(k)), NEW ret \in {"OK", "STREAM_END"},
         ret = "OK" => /\ k > 0 \/ out # {}
                       /\ k = Size(inbuf) \/ Cardinality(out) = bufsize,
         AfterCode(k, out, ret),
         coder'.sequence = "finish" => Action = "FINISH",
         coder'.started <=> coder.started \/ k > 0,
         coder'.ended <=> Decoder /\ Ending(k, Action),
         ~coder'.stuck
  PROVE  Accepts'
<1> DEFINE breaks == ret # "OK" \/ (out = {} /\ ~shouldFinish)
<1>1. /\ readChunks = 1 /\ inbufs = <<>> /\ internal /\ lastCodeResult = "OK" /\ ~isFinished
      /\ ~NullComes /\ errors = 0
      /\ Decoder => ~flushing /\ Pos = inbuf.lo
      /\ Units = 1 .. Len(File) /\ Ends \subseteq Nat
  BY LoopAccepts
<1>2. /\ k \in 0 .. Size(inbuf)
      /\ Cardinality(out) = bufsize => out # {}
  BY PoolFits
<1>3. /\ Pos' = IF flushing THEN taken ELSE IF breaks THEN inbuf.hi ELSE inbuf.lo + k
      /\ lastCodeResult' = ret /\ errors' = errors /\ ~NullComes' /\ ~ErrorComes'
      /\ UNCHANGED <<job, flushing>>
      /\ File' = File /\ Units' = Units /\ Ends' = Ends /\ Decoder' = Decoder
      /\ readChunks' = 1 <=> ~breaks
      /\ Empty(inbuf)' <=> breaks \/ inbuf.lo + k = inbuf.hi
  BY <1>2, LoopAfter
<1>4. UNCHANGED <<internal, inbufs, shouldFinish, chunkCallbacks, isFinished>>
  BY DEF AfterCode, settings, streamVars
<1>5. ~breaks => inbuf' = [inbuf EXCEPT !.lo = @ + k]
  <2> SUFFICES ASSUME ~breaks PROVE Continue(k)
    BY DEF Continue
  <2> QED
    BY DEF AfterCode
<1>6. /\ inbuf.lo \in Nat /\ inbuf.hi \in Nat /\ k \in Nat /\ inbuf.lo + k <= inbuf.hi
      /\ inbuf = [lo |-> inbuf.lo, hi |-> inbuf.hi] /\ Size(inbuf) = inbuf.hi - inbuf.lo
      /\ inbuf.hi <= Len(File) /\ Len(File) \in Nat
  BY <1>2, LoopData, FileFacts DEF Chunk, IInv, TypeOK, NativeTypeOK
<1>7. ~breaks => inbuf'.lo = inbuf.lo + k
  BY <1>5, <1>6
<1>8. ret = "OK" /\ breaks => k > 0 /\ inbuf.lo + k = inbuf.hi
  BY <1>2, <1>6
<1>9. ret = "OK" => breaks \/ k > 0 \/ out # {}
  OBVIOUS
<1>10. Decoder /\ ret = "OK" => Pos' = Pos + k
  BY <1>1, <1>3, <1>8
<1> HIDE DEF breaks
<1>11. Healthy'
  BY <1>1, <1>3 DEF Healthy
<1>12. Fed' /\ NoneFlushed'
  BY <1>3, <1>4 DEF Fed, Accepts, NoneFlushed
<1>13. FinishTold'
  BY <1>4 DEF FinishTold, Action
<1>14. Begun'
  <2> SUFFICES ASSUME Decoder, ret = "OK", ~coder'.started, ~(readChunks' = 1 /\ ~Empty(inbuf)')
               PROVE  Pos' = 0
    BY <1>3 DEF Begun
  <2>1. k = 0 /\ ~coder.started
    BY <1>6
  <2>2. ~breaks
    BY <1>8, <2>1
  <2>3. Empty(inbuf)
    BY <1>3, <1>6, <2>1, <2>2 DEF Empty
  <2>4. Pos = 0
    BY <1>1, <2>1, <2>3 DEF Accepts, Begun
  <2> QED
    BY <1>10, <2>1, <2>4
<1>15. InMember'
  <2> SUFFICES ASSUME Decoder, ~coder'.ended, ret = "OK"
               PROVE  /\ coder'.started =>
                           \E h \in Units : /\ h <= Pos' /\ File[h] = "head"
                                            /\ \A e \in Ends : e < h \/ Pos' < e
                      /\ ~job.restartable => \A e \in Ends : Pos' < e
    BY <1>3 DEF InMember
  <2>1. ~coder.ended /\ (k > 0 => inbuf.lo + k \notin Ends)
    BY DEF Ending
  <2>2. /\ coder.started => \E h \in Units : /\ h <= Pos /\ File[h] = "head"
                                             /\ \A e \in Ends : e < h \/ Pos < e
        /\ ~job.restartable => \A e \in Ends : Pos < e
    BY <1>1, <2>1 DEF Accepts, InMember
  <2>3. Pos' = Pos + k /\ Pos = inbuf.lo /\ Pos \in Nat
    BY <1>1, <1>6, <1>10
  <2>4. \A e \in Ends : e <= Pos \/ Pos' < e
    <3> SUFFICES ASSUME NEW e \in Ends, ~(e <= Pos), ~(Pos' < e) PROVE FALSE
      OBVIOUS
    <3>1. e \in Nat /\ e - inbuf.lo \in 1 .. k /\ inbuf.lo + (e - inbuf.lo) = e
      BY <1>1, <1>6, <2>3
    <3>2. CASE e - inbuf.lo \in 1 .. k - 1
      BY <3>1, <3>2 DEF Takes
    <3>3. CASE e - inbuf.lo = k
      BY <2>1, <3>1, <3>3, <1>6
    <3> QED
      BY <1>6, <3>1, <3>2, <3>3
  <2>5. ~job.restartable => \A e \in Ends : Pos' < e
    BY <1>1, <1>6, <2>2, <2>3, <2>4
  <2>6. CASE coder.started
    <3>1. PICK h \in Units : /\ h <= Pos /\ File[h] = "head"
                             /\ \A e \in Ends : e < h \/ Pos < e
      BY <2>2, <2>6
    <3>2. h \in Nat /\ h <= Pos'
      BY <1>1, <1>6, <2>3, <3>1
    <3>3. \A e \in Ends : e < h \/ Pos' < e
      BY <1>1, <2>3, <2>4, <3>1
    <3> QED
      BY <2>5, <3>1, <3>2, <3>3
  <2>7. CASE ~coder.started /\ k > 0
    <3>1. File[Pos + 1] = "head"
      BY <1>1, <2>3, <2>7 DEF Accepts, AtStart
    <3>2. Pos + 1 \in Units /\ Pos + 1 <= Pos'
      BY <1>1, <1>6, <2>3, <2>7
    <3>3. \A e \in Ends : e < Pos + 1 \/ Pos' < e
      BY <1>1, <2>3, <2>4
    <3> QED
      BY <2>5, <3>1, <3>2, <3>3
  <2> QED
    BY <2>5, <2>6, <2>7
<1>16. AtStart'
  <2> SUFFICES ASSUME Decoder, ~coder'.started, readChunks' = 1
               PROVE  File[inbuf'.lo + 1] = "head"
    BY <1>1, <1>3, <1>4 DEF AtStart
  <2>1. k = 0 /\ ~coder.started
    BY <1>6
  <2>2. inbuf'.lo = inbuf.lo
    BY <1>3, <1>6, <1>7, <2>1
  <2> QED
    BY <1>1, <2>1, <2>2 DEF Accepts, AtStart
<1> QED
  BY <1>11, <1>12, <1>13, <1>14, <1>15, <1>16 DEF Accepts

(* A decoder that gets no input waits for the next chunk. *)
LEMMA StuckAccepts ==
  ASSUME IInv, Control, Data, Accepts, CodeStuck,
         UNCHANGED <<callerVars, transformVars, outputVars, streamVars>>
  PROVE  Accepts'
<1> DEFINE breaks == "OK" # "OK" \/ ({} = {} /\ ~shouldFinish)
<1>1. CallsLzmaCode /\ Empty(inbuf) /\ ~Ending(0, Action)
  BY DEF CodeStuck
<1>2. /\ readChunks = 1 /\ inbufs = <<>> /\ internal /\ lastCodeResult = "OK" /\ ~isFinished
      /\ ~NullComes /\ errors = 0
      /\ Decoder => ~flushing /\ Pos = inbuf.lo
  BY <1>1, LoopAccepts
<1>3. /\ flushing => shouldFinish /\ Size(inbuf) = 0
      /\ inbuf.lo \in Nat /\ inbuf.hi \in Nat /\ Size(inbuf) = inbuf.hi - inbuf.lo
      /\ inbuf = [lo |-> inbuf.lo, hi |-> inbuf.hi]
  BY <1>1, LoopData DEF Chunk
<1>4. ~flushing
  <2> SUFFICES ASSUME flushing PROVE FALSE
    OBVIOUS
  <2>1. ~Decoder /\ Action = "FINISH"
    BY <1>2, <1>3 DEF Action
  <2> QED
    BY <1>1, <1>3, <2>1 DEF Ending
<1>5. ~coder.stuck
  BY <1>1, <1>2, <1>4 DEF Accepts, Fed
<1>6. AfterCode(0, {}, "OK")
  BY <1>5 DEF CodeStuck
<1>7. 0 \in 0 .. Size(inbuf)
  BY <1>1, <1>3 DEF Empty
<1>8. /\ Pos' = IF flushing THEN taken ELSE IF breaks THEN inbuf.hi ELSE inbuf.lo + 0
      /\ lastCodeResult' = "OK" /\ errors' = errors /\ ~NullComes' /\ ~ErrorComes'
      /\ UNCHANGED <<job, flushing>>
      /\ File' = File /\ Units' = Units /\ Ends' = Ends /\ Decoder' = Decoder
      /\ readChunks' = 1 <=> ~breaks
  BY <1>1, <1>6, <1>7, LoopAfter
<1>9. UNCHANGED <<internal, inbufs, shouldFinish, chunkCallbacks, isFinished>>
  BY <1>6 DEF AfterCode, settings, streamVars
<1>10. ~shouldFinish => readChunks' = 0
  <2>1. ~shouldFinish => Break
    BY <1>6 DEF AfterCode
  <2> QED
    BY <2>1 DEF Break, Leave
<1>11. ~shouldFinish
  BY <1>4 DEF Control, Flushes
<1>12. Decoder => Pos' = Pos
  BY <1>1, <1>2, <1>3, <1>4, <1>8 DEF Empty
<1>13. /\ coder'.started = coder.started /\ coder'.ended = coder.ended
       /\ coder'.sequence = "finish" => shouldFinish
  <2>1. coder' = [coder EXCEPT !.stuck = TRUE,
                               !.sequence = IF Action = "FINISH" THEN "finish" ELSE "run"]
    BY DEF CodeStuck
  <2>2. coder \in Coder
    BY DEF IInv, TypeOK, NativeTypeOK
  <2>3. Action = "FINISH" => shouldFinish
    BY DEF Action
  <2> HIDE DEF Action
  <2> QED
    BY <2>1, <2>2, <2>3 DEF Coder
<1>14. Healthy' /\ Fed' /\ FinishTold' /\ NoneFlushed'
  BY <1>2, <1>4, <1>8, <1>9, <1>10, <1>11, <1>13 DEF Healthy, Fed, FinishTold, NoneFlushed
<1>15. Begun'
  BY <1>1, <1>2, <1>8, <1>12, <1>13 DEF Accepts, Begun
<1>16. InMember'
  BY <1>2, <1>8, <1>12, <1>13 DEF Accepts, InMember
<1>17. AtStart'
  BY <1>2, <1>9, <1>10, <1>11 DEF AtStart
<1> QED
  BY <1>14, <1>15, <1>16, <1>17 DEF Accepts

(* lzma_code does not fail. *)
LEMMA NeverFails ==
  ASSUME IInv, Control, Data, GoodInput, Accepts, CallsLzmaCode
  PROVE  Running /\ ~Damaged
<1>1. /\ readChunks = 1 /\ inbufs = <<>> /\ internal /\ lastCodeResult = "OK"
      /\ Decoder => ~flushing /\ Pos = inbuf.lo
      /\ Units = 1 .. Len(File) /\ Ends \subseteq Nat
  BY LoopAccepts
<1>2. Running
  BY <1>1, LoopFinds DEF Running, Action, Accepts, FinishTold
<1>3. ASSUME Damaged PROVE FALSE
  <2>1. ~coder.ended
    BY <1>3 DEF Damaged
  <2>2. PICK k \in Takes(coder, inbuf) : /\ k < Size(inbuf) /\ Bad(coder, inbuf.lo + k + 1, k = 0)
                                         /\ k > 0 => inbuf.lo + k \notin Ends
    BY <1>3 DEF Damaged
  <2>3. Decoder /\ ~flushing /\ Pos = inbuf.lo
    BY <1>1, <2>2 DEF Bad
  <2>4. /\ inbuf.lo \in Nat /\ inbuf.hi \in Nat /\ inbuf.hi <= Len(File) /\ Len(File) \in Nat
        /\ k \in Nat /\ inbuf.lo + k + 1 <= inbuf.hi
    <3>1. /\ inbuf.lo \in Nat /\ inbuf.hi \in Nat /\ inbuf.hi <= Len(File)
          /\ Size(inbuf) = inbuf.hi - inbuf.lo
      BY LoopData
    <3>2. Len(File) \in Nat
      BY FileFacts DEF IInv, TypeOK, NativeTypeOK
    <3>3. k \in 0 .. Size(inbuf)
      BY DEF Takes
    <3> QED
      BY <2>2, <3>1, <3>2, <3>3
  <2>5. CASE k = 0 /\ ~coder.started
    <3>1. File[inbuf.lo + 1] = "head"
      BY <1>1, <2>3, <2>5 DEF Accepts, AtStart
    <3>2. inbuf.lo + k + 1 = inbuf.lo + 1
      BY <2>4, <2>5
    <3> QED
      BY <2>2, <2>5, <3>1, <3>2 DEF Bad
  <2>6. CASE ~(k = 0 /\ ~coder.started)
    <3> DEFINE u == inbuf.lo + k + 1
    <3>1. u \in Units /\ File[u] = "junk"
      BY <1>1, <2>2, <2>4, <2>6 DEF Bad
    <3>2. Ends # {} /\ ~job.restartable /\ \A e \in Ends : e < u
      BY <2>3, <3>1 DEF GoodInput, WellFormed
    <3>3. PICK e \in Ends : TRUE
      BY <3>2
    <3>4. inbuf.lo < e
      BY <1>1, <2>1, <2>3, <3>2 DEF Accepts, InMember
    <3>5. e \in Nat /\ e - inbuf.lo \in 1 .. k /\ inbuf.lo + (e - inbuf.lo) = e
      BY <1>1, <2>4, <3>2, <3>4
    <3>6. CASE e - inbuf.lo \in 1 .. k - 1
      BY <2>3, <3>5, <3>6 DEF Takes
    <3>7. CASE e - inbuf.lo = k
      BY <2>2, <2>4, <3>5, <3>7
    <3> QED
      BY <2>4, <3>5, <3>6, <3>7
  <2> QED
    BY <2>5, <2>6
<1> QED
  BY <1>2, <1>3

LEMMA TailOfOne ==
  ASSUME NEW S, NEW s \in Seq(S), Len(s) = 1
  PROVE  Tail(s) = <<>>
<1>1. Tail(s) \in Seq(S) /\ Len(Tail(s)) = 0
  OBVIOUS
<1>2. \A t \in Seq(S) : Len(t) = 0 => t = <<>>
  OBVIOUS
<1> QED
  BY <1>1, <1>2

LEMMA CodingAccepts ==
  ASSUME IInv, Control, Data, GoodInput, Accepts, DoLZMACode,
         UNCHANGED <<callerVars, transformVars, outputVars, streamVars>>
  PROVE  Accepts'
<1>1. UNCHANGED <<chunkCallbacks, flushing, taken, errors, isFinished>>
  BY DEF transformVars, outputVars, streamVars
<1>2. CASE NoCoder
  <2>1. /\ UNCHANGED <<internal, coder, lastCodeResult, inbufs, shouldFinish, job, calls>>
        /\ readChunks' = 0 /\ inbuf' = NoInput
    BY <1>2 DEF NoCoder, Leave, coding, settings
  <2>2. readChunks = 0 /\ inbuf = NoInput
    BY <1>2, WorkingAlone DEF NoCoder, IInv, NothingRead
  <2>3. NullComes' = NullComes /\ Healthy'
    BY <1>1, <2>1, SameCalls DEF Accepts, Healthy
  <2> QED
    BY <1>1, <2>1, <2>2, <2>3, StillAccepts
<1>3. CASE FetchChunk
  <2>1. /\ Len(inbufs) = 1 /\ readChunks = 0 /\ calls = <<>> /\ Len(chunkCallbacks) = 1
    BY <1>3, WorkingAlone DEF FetchChunk, IInv
  <2>2. /\ UNCHANGED <<internal, coder, lastCodeResult, shouldFinish, job, calls>>
        /\ inbuf' = inbufs[1] /\ readChunks' = 1 /\ inbufs' = Tail(inbufs)
    BY <1>3, <2>1 DEF FetchChunk, settings
  <2>3. inbufs' = <<>> /\ inbufs # <<>> /\ chunkCallbacks # <<>>
    <3>1. Len(<<>>) = 0
      OBVIOUS
    <3>2. inbufs \in Seq(Chunk)
      BY DEF IInv, TypeOK, NativeTypeOK
    <3>3. Tail(inbufs) = <<>>
      BY <2>1, <3>2, TailOfOne
    <3>4. inbufs # <<>> /\ chunkCallbacks # <<>>
      BY <2>1, <3>1
    <3> QED
      BY <2>2, <3>3, <3>4
  <2>4. /\ File' = File /\ Units' = Units /\ Ends' = Ends /\ Decoder' = Decoder
    BY <2>2 DEF File, Units, Ends, Decoder
  <2>5. Pos' = Pos
    BY <1>1, <2>1, <2>2, <2>3 DEF Pos
  <2>6. Healthy'
    BY <1>1, <2>2, SameCalls DEF Accepts, Healthy
  <2>7. ~flushing => ~Empty(inbuf)'
    BY <2>2, <2>3 DEF Data, WriteInHand, Empty
  <2>8. Decoder => ~flushing
    BY <2>3 DEF Accepts, NoneFlushed
  <2>9. Fed' /\ FinishTold' /\ NoneFlushed'
    BY <1>1, <2>2, <2>3, <2>4, <2>7 DEF Accepts, Fed, FinishTold, NoneFlushed
  <2>10. Begun'
    BY <2>2, <2>4, <2>7, <2>8 DEF Begun
  <2>11. InMember'
    BY <2>2, <2>4, <2>5, Zenon DEF Accepts, InMember
  <2>12. AtStart'
    BY <2>2, <2>3, <2>4 DEF Accepts, AtStart
  <2> QED
    BY <2>6, <2>9, <2>10, <2>11, <2>12 DEF Accepts
<1>4. CASE CodeProgress
  <2>1. ~job.timeout /\ CallsLzmaCode
    BY <1>4, SoundFacts DEF CodeProgress, Data, IInv, TypeOK, NativeTypeOK
  <2>2. PICK k \in Takes(coder, inbuf) : \E out \in Emissions(Pool(k)), ret \in {"OK", "STREAM_END"} :
          /\ ret = "OK" => /\ k > 0 \/ out # {}
                           /\ k = Size(inbuf) \/ Cardinality(out) = bufsize
          /\ coder'.sequence = (IF ret = "STREAM_END" THEN "end"
                                ELSE IF Action = "FINISH" THEN "finish" ELSE "run")
          /\ coder'.started = (coder.started \/ k > 0)
          /\ coder'.ended = (Decoder /\ Ending(k, Action)) /\ coder'.stuck = FALSE
          /\ AfterCode(k, out, ret)
    BY <1>4, <2>1 DEF CodeProgress
  <2>3. PICK out \in Emissions(Pool(k)), ret \in {"OK", "STREAM_END"} :
          /\ ret = "OK" => /\ k > 0 \/ out # {}
                           /\ k = Size(inbuf) \/ Cardinality(out) = bufsize
          /\ coder'.sequence = (IF ret = "STREAM_END" THEN "end"
                                ELSE IF Action = "FINISH" THEN "finish" ELSE "run")
          /\ coder'.started = (coder.started \/ k > 0)
          /\ coder'.ended = (Decoder /\ Ending(k, Action)) /\ coder'.stuck = FALSE
          /\ AfterCode(k, out, ret)
    BY <2>2
  <2>4. coder'.sequence = "finish" => Action = "FINISH"
    BY <2>3
  <2> QED
    BY <2>1, <2>3, <2>4, ProgressAccepts
<1>5. CASE CodeStuck
  BY <1>5, StuckAccepts
<1>6. CASE CodeFails
  <2>1. CallsLzmaCode /\ (job.canFail \/ ~Running \/ Damaged)
    BY <1>6 DEF CodeFails
  <2> QED
    BY <2>1, NeverFails DEF GoodInput
<1>7. CASE CodeEnded
  <2>1. FALSE
    BY <1>7, LoopFinds DEF CodeEnded
  <2> QED
    BY <2>1
<1> QED
  BY <1>2, <1>3, <1>4, <1>5, <1>6, <1>7 DEF DoLZMACode

-----------------------------------------------------------------------------
(* What _transform gives to a coder begins a member, or goes on with it.   *)

LEMMA SkipsToUnit ==
  ASSUME job \in Jobs, NEW chunk \in Chunk, ~Empty(SkipLeadingZeroes(chunk))
  PROVE  File[SkipLeadingZeroes(chunk).lo + 1] # "zero"
<1> DEFINE S == {l \in chunk.lo .. chunk.hi : l = chunk.hi \/ File[l + 1] # "zero"}
           m == Smallest(S)
<1>1. /\ chunk.lo \in Nat /\ chunk.hi \in Nat /\ chunk.lo <= chunk.hi
      /\ chunk = [lo |-> chunk.lo, hi |-> chunk.hi]
  BY ChunkFacts DEF Chunk
<1>2. S \in SUBSET Nat /\ chunk.hi \in S
  BY <1>1
<1>3. m \in S
  BY <1>2, SmallestFacts
<1>4. SkipLeadingZeroes(chunk) = [chunk EXCEPT !.lo = m]
  BY DEF SkipLeadingZeroes
<1>5. m = chunk.hi \/ File[m + 1] # "zero"
  BY <1>3
<1> HIDE DEF m
<1>6. SkipLeadingZeroes(chunk) = [lo |-> m, hi |-> chunk.hi]
  BY <1>1, <1>4
<1> QED
  BY <1>5, <1>6 DEF Empty

LEMMA TransformAccepts ==
  ASSUME IInv, Control, Data, GoodInput, Accepts, Clear, lastCodeResult = "OK", calls' = <<>>, ~flushing,
         ~NullComes, UNCHANGED <<flushing, errors>>,
         NEW chunk \in Chunk, ~Empty(chunk), Clean(chunk.lo), Transform(chunk, <<>>),
         Pos = chunk.lo, taken' = chunk.hi
  PROVE  Accepts'
<1> DEFINE data == IF isFinished THEN SkipLeadingZeroes(FirstPiece(chunk)) ELSE FirstPiece(chunk)
<1>1. job \in Jobs /\ SoundJob /\ ~coder.ended /\ inbufs = <<>> /\ readChunks = 0 /\ errors = 0
  BY DEF IInv, TypeOK, NativeTypeOK, Data, MemberEnds, Clear, Accepts, Healthy
<1>2. nativeStream
  BY <1>1 DEF Control, Flushes, IInv, TypeOK
<1>3. /\ data \in Chunk
      /\ chunk.lo <= data.lo
      /\ data.lo # chunk.lo => isFinished
      /\ \A u \in Units : chunk.lo < u /\ u <= data.lo => File[u] = "zero"
      /\ Empty(data) => data.lo = chunk.hi
  BY <1>1, TransformFits
<1>4. /\ chunk.lo \in Nat /\ data.lo \in Nat /\ data.hi \in Nat /\ data.lo <= data.hi /\ data.hi <= Len(File)
      /\ Units = 1 .. Len(File) /\ Len(File) \in Nat /\ Ends \subseteq Nat
  BY <1>1, <1>3, ChunkFacts, SoundFacts
<1>5. isFinished /\ ~Empty(data) => File[data.lo + 1] # "zero"
  BY <1>1, PieceFacts, SkipsToUnit
<1>6. \/ /\ Empty(data)
         /\ chunkCallbacks' = <<>> /\ UNCHANGED isFinished /\ nativeUnchanged
      \/ /\ ~Empty(data)
         /\ isFinished' = FALSE
         /\ chunkCallbacks' = Append(<<>>, WriteCallback(RestOf(chunk)))
         /\ Code(data, ~synchronous)
  BY <1>2 DEF Transform
<1> HIDE DEF data
<1>7. UNCHANGED <<coder, internal, lastCodeResult, readChunks, inbuf, job>>
  <2>1. CASE nativeUnchanged
    BY <2>1 DEF nativeUnchanged, coding, settings, locals
  <2>2. CASE Code(data, ~synchronous)
    BY <2>2 DEF Code, locals
  <2> QED
    BY <1>6, <2>1, <2>2
<1>8. File' = File /\ Units' = Units /\ Ends' = Ends /\ Decoder' = Decoder
  BY <1>7 DEF File, Units, Ends, Decoder
<1>9. /\ Empty(data) => inbufs' = <<>> /\ isFinished' = isFinished /\ shouldFinish' = shouldFinish
      /\ ~Empty(data) => inbufs' # <<>> /\ inbufs'[1] = data /\ shouldFinish' = shouldFinish
  <2>1. CASE nativeUnchanged /\ UNCHANGED isFinished /\ Empty(data)
    BY <1>1, <2>1 DEF nativeUnchanged, coding, settings
  <2>2. CASE Code(data, ~synchronous) /\ ~Empty(data)
    <3>1. inbufs' = Append(<<>>, data) /\ shouldFinish' = (shouldFinish \/ Empty(data))
      BY <1>1, <2>2 DEF Code
    <3>2. inbufs' # <<>> /\ inbufs'[1] = data
      BY <3>1
    <3>3. shouldFinish \in BOOLEAN
      BY DEF IInv, TypeOK, NativeTypeOK
    <3> QED
      BY <2>2, <3>1, <3>2, <3>3
  <2> QED
    BY <1>6, <2>1, <2>2
<1>10. Pos' = data.lo
  <2>1. CASE Empty(data) /\ chunkCallbacks' = <<>>
    BY <1>3, <2>1 DEF Pos
  <2>2. CASE ~Empty(data) /\ chunkCallbacks' = Append(<<>>, WriteCallback(RestOf(chunk)))
    <3>1. chunkCallbacks' # <<>>
      BY <2>2
    <3> QED
      BY <1>9, <2>2, <3>1 DEF Pos
  <2> QED
    BY <1>6, <2>1, <2>2
<1>11. isFinished => /\ Decoder /\ ~coder.started
                     /\ IF job.restartable THEN Padding(Pos) ELSE ~internal
  BY DEF Data, Finishing, FreshCoder, Control, Silent
<1>12. Healthy'
  <2>1. ~ErrorComes'
    BY DEF ErrorComes
  <2> QED
    BY <1>1, <1>7, <2>1 DEF Healthy
<1>13. Fed' /\ FinishTold' /\ NoneFlushed'
  BY <1>1, <1>7, <1>9 DEF Accepts, Fed, FinishTold, NoneFlushed
<1>14. Begun'
  BY <1>1, <1>3, <1>7, <1>8, <1>9, <1>10 DEF Accepts, Begun
<1>15. InMember'
  <2> SUFFICES ASSUME Decoder, internal
               PROVE  /\ coder.started =>
                           \E h \in Units : /\ h <= data.lo /\ File[h] = "head"
                                            /\ \A e \in Ends : e < h \/ data.lo < e
                      /\ ~job.restartable => \A e \in Ends : data.lo < e
    BY <1>7, <1>8, <1>10 DEF InMember
  <2>1. coder.started \/ ~job.restartable => data.lo = Pos
    BY <1>3, <1>11
  <2> QED
    BY <1>1, <2>1 DEF Accepts, InMember
<1>16. AtStart'
  <2> SUFFICES ASSUME Decoder, internal, ~coder.started, ~Empty(data)
               PROVE  File[data.lo + 1] = "head"
    BY <1>1, <1>7, <1>8, <1>9 DEF AtStart
  <2>1. data.lo + 1 \in Units
    BY <1>4 DEF Empty
  <2>2. CASE isFinished
    <3>1. job.restartable /\ Padding(Pos)
      BY <1>11, <2>2
    <3>2. PICK e \in Ends : e <= Pos /\ \A u \in Units : e < u /\ u <= Pos => File[u] = "zero"
      BY <3>1 DEF Padding
    <3>3. e \in Nat /\ e < data.lo + 1
      BY <1>3, <1>4, <3>2
    <3>4. \A v \in (e + 1) .. ((data.lo + 1) - 1) : File[v] = "zero"
      <4> SUFFICES ASSUME NEW v \in (e + 1) .. ((data.lo + 1) - 1) PROVE File[v] = "zero"
        OBVIOUS
      <4>1. v \in Units /\ e < v /\ v <= data.lo /\ v \in Nat
        BY <1>4, <3>3
      <4> QED
        BY <1>3, <1>4, <3>2, <4>1
    <3> QED
      BY <1>1, <1>5, <2>1, <2>2, <3>1, <3>3, <3>4, BeginsFacts DEF GoodInput
  <2>3. CASE ~isFinished
    <3>1. data.lo = chunk.lo
      BY <1>3, <2>3
    <3>2. Pos = 0
      BY <1>1, <2>3 DEF Accepts, Begun
    <3>3. data.lo + 1 = 1
      BY <3>1, <3>2
    <3>4. File[1] = "head"
      BY <1>1, <2>1, BeginsFacts DEF GoodInput
    <3> QED
      BY <3>3, <3>4
  <2> QED
    BY <2>2, <2>3
<1> QED
  BY <1>12, <1>13, <1>14, <1>15, <1>16 DEF Accepts

LEMMA StartWriteAccepts ==
  ASSUME IInv, Control, Data, GoodInput, Accepts, StartWrite
  PROVE  Accepts'
<1>1. ~writing /\ ~flushing
  BY DEF IInv, StartWrite, OneAtATime, TypeOK
<1>2. Clear /\ chunkCallbacks = <<>> /\ calls = <<>> /\ NoChunk
  BY <1>1, HandOverIsClear DEF IInv
<1>3. lastCodeResult = "OK" /\ ~NullComes
  BY <1>2, NoCalls DEF Control, ResultHeld, NoChunk, Counted
<1> DEFINE chunk == [lo |-> taken, hi |-> written]
<1>4. chunk \in Chunk /\ taken \in Nat /\ written \in Nat /\ taken < written
  BY MakeChunk, FileFacts DEF IInv, StartWrite, TypeOK, NativeTypeOK
<1>5. /\ Transform(chunk, <<>>) /\ calls' = <<>> /\ taken' = written
      /\ UNCHANGED <<flushing, errors>>
  BY <1>2 DEF StartWrite, outputVars
<1>6. Clean(taken)
  BY CutsAreClean DEF Data, HandedOver, IInv, TypeOK, NativeTypeOK
<1>7. Pos = taken
  BY <1>2 DEF Pos
<1>8. chunk.lo = taken /\ chunk.hi = written /\ ~Empty(chunk)
  BY <1>4 DEF Empty
<1> HIDE DEF chunk
<1> QED
  BY <1>1, <1>2, <1>3, <1>4, <1>5, <1>6, <1>7, <1>8, TransformAccepts

(* Behind the last unit of good input no decoder is inside a member. *)
LEMMA DecoderHasEnded ==
  ASSUME IInv, Control, Data, GoodInput, Accepts, Flush, Decoder
  PROVE  isFinished
<1> SUFFICES ASSUME ~isFinished PROVE FALSE
  OBVIOUS
<1>1. ~writing /\ ~flushing /\ endCalled /\ taken = written
  BY DEF Flush
<1>2. Clear /\ chunkCallbacks = <<>> /\ calls = <<>> /\ NoChunk
  BY <1>1, HandOverIsClear DEF IInv
<1>3. lastCodeResult = "OK" /\ ~NullComes
  BY <1>2, NoCalls DEF Control, ResultHeld, NoChunk, Counted
<1>4. inbufs = <<>> /\ readChunks = 0
  BY <1>2 DEF Clear
<1>5. Pos = Len(File)
  BY <1>1, <1>2 DEF Pos, Data, HandedOver
<1>6. Units = 1 .. Len(File) /\ Len(File) \in Nat /\ Ends \subseteq Units
  BY SoundFacts DEF Data, IInv, TypeOK, NativeTypeOK
<1>7. Ends # {}
  BY DEF GoodInput, WellFormed
<1>8. coder.started
  <2>1. PICK e \in Ends : TRUE
    BY <1>7
  <2>2. Pos # 0 /\ readChunks # 1
    BY <1>4, <1>5, <1>6, <2>1
  <2> QED
    BY <1>3, <1>4, <2>2, Zenon DEF Accepts, Begun
<1>9. internal
  BY <1>8 DEF Control, CoderFree, FreshCoder
<1>10. ~coder.ended
  BY <1>3, <1>4 DEF Data, MemberEnds
<1>11. PICK h \in Units : h <= Pos /\ File[h] = "head" /\ \A e \in Ends : e < h \/ Pos < e
  BY <1>3, <1>8, <1>9, <1>10 DEF Accepts, InMember
<1>12. PICK e \in Ends : h <= e
  BY <1>11 DEF GoodInput, WellFormed
<1>13. e \in Nat /\ h \in Nat /\ e <= Pos
  BY <1>5, <1>6
<1> QED
  BY <1>5, <1>6, <1>11, <1>12, <1>13

LEMMA FlushAccepts ==
  ASSUME IInv, Control, Data, GoodInput, Accepts, Flush
  PROVE  Accepts'
<1>1. /\ ~writing /\ ~flushing /\ flushing'
      /\ UNCHANGED <<calls, errors, taken, isFinished>>
  BY DEF Flush
<1>2. Clear /\ chunkCallbacks = <<>> /\ calls = <<>> /\ NoChunk
  BY <1>1, HandOverIsClear DEF IInv
<1>3. lastCodeResult = "OK" /\ ~NullComes /\ ~ErrorComes
  BY <1>2, NoCalls DEF Control, ResultHeld, NoChunk, Counted
<1>4. /\ lastCodeResult' = "OK" /\ readChunks' = 0 /\ job' = job
      /\ coder' = coder \/ coder' = FreshCoder
      /\ shouldFinish => shouldFinish'
      /\ Decoder => chunkCallbacks' = <<>> /\ inbufs' = <<>>
  <2>1. CASE cleanup /\ UNCHANGED chunkCallbacks
    BY <1>2, <1>3, <2>1 DEF cleanup, ResetUnderlying, nativeUnchanged, coding, settings, locals, Clear
  <2>2. CASE nativeUnchanged /\ UNCHANGED chunkCallbacks
    BY <1>2, <1>3, <2>2 DEF nativeUnchanged, coding, settings, locals, Clear
  <2>3. CASE ~isFinished /\ Code(NoInput, ~synchronous)
    <3>1. ~Decoder
      BY <2>3, DecoderHasEnded
    <3> QED
      BY <1>2, <1>3, <2>3, <3>1 DEF Code, locals, Clear
  <2> QED
    BY <2>1, <2>2, <2>3 DEF Flush
<1>5. Decoder => isFinished'
  BY <1>1, DecoderHasEnded
<1>6. Decoder' = Decoder
  BY <1>4 DEF Decoder
<1>7. Healthy'
  BY <1>1, <1>3, <1>4, SameCalls DEF Accepts, Healthy
<1>8. Fed' /\ NoneFlushed'
  BY <1>4, <1>6 DEF Fed, NoneFlushed
<1>9. FinishTold'
  BY <1>4 DEF Accepts, FinishTold, FreshCoder
<1>10. Begun'
  BY <1>5, <1>6 DEF Begun
<1>11. AtStart'
  BY <1>4, <1>6 DEF AtStart
<1>12. InMember'
  <2> SUFFICES ASSUME Decoder PROVE ~internal'
    BY <1>6 DEF InMember
  <2>1. cleanup /\ isFinished
    BY DecoderHasEnded DEF Flush
  <2> QED
    BY <2>1 DEF cleanup, ResetUnderlying, nativeUnchanged, coding, IInv, Released
<1> QED
  BY <1>7, <1>8, <1>9, <1>10, <1>11, <1>12 DEF Accepts

LEMMA OnErrorNeverRuns ==
  ASSUME IInv, Control, Accepts, OnError
  PROVE  FALSE
<1>1. calls \in Seq(Call) /\ CallsInOrder /\ Immediate("error")
  BY DEF OnError, IInv, TypeOK, NativeTypeOK, Control
<1>2. ErrorComes
  BY <1>1, OneCallLess
<1> QED
  BY <1>2 DEF Accepts, Healthy

LEMMA OnBufferAccepts ==
  ASSUME IInv, Control, Accepts, OnBuffer
  PROVE  Accepts'
<1>1. Immediate("buf")
  BY DEF OnBuffer
<1>2. /\ UNCHANGED <<job, chunkCallbacks, flushing, taken, inbufs, readChunks, inbuf, shouldFinish>>
      /\ UNCHANGED <<coder, internal, lastCodeResult, isFinished, errors>>
  BY DEF OnBuffer, nativeUnchanged, coding, settings, locals, transformVars, streamVars
<1>3. (ErrorComes' => ErrorComes) /\ (NullComes => NullComes')
  <2>1. calls \in Seq(Call) /\ CallsInOrder
    BY DEF IInv, TypeOK, NativeTypeOK, Control
  <2>2. "buf" # "null"
    OBVIOUS
  <2> QED
    BY <1>1, <2>1, <2>2, OneCallLess
<1>4. Healthy'
  BY <1>2, <1>3 DEF Accepts, Healthy
<1> QED
  BY <1>2, <1>3, <1>4, StillAccepts

LEMMA OnStreamEndAccepts ==
  ASSUME IInv, Control, Data, Accepts, OnStreamEnd
  PROVE  Accepts'
<1>1. Immediate("null")
  BY DEF OnStreamEnd
<1>2. /\ inbufs = <<>> /\ readChunks = 0 /\ lastCodeResult = "OK"
      /\ ~internal /\ ~ErrorComes'
  BY <1>1, ImmediateServed
<1>3. NullComes
  <2>1. calls \in Seq(Call) /\ CallsInOrder
    BY DEF IInv, TypeOK, NativeTypeOK, Control
  <2> QED
    BY <1>1, <2>1, OneCallLess
<1>4. /\ coder' = FreshCoder
      /\ internal' => job.restartable
      /\ UNCHANGED <<job, inbufs, readChunks, inbuf, shouldFinish, lastCodeResult>>
  BY <1>2 DEF Control, CoderFree, OnStreamEnd, restart, ResetUnderlying, nativeUnchanged, coding, settings, locals
<1>5. UNCHANGED <<chunkCallbacks, flushing, taken, errors>>
  BY DEF OnStreamEnd, transformVars
<1>6. Decoder => isFinished'
  <2>1. Decoder => ~flushing
    BY <1>3 DEF Data, MemberEnds
  <2> QED
    BY <2>1 DEF OnStreamEnd, Control, Flushes
<1>7. Healthy'
  BY <1>2, <1>4, <1>5 DEF Accepts, Healthy
<1>8. UNCHANGED <<job, chunkCallbacks, flushing, taken, inbufs, readChunks, inbuf, shouldFinish>>
  BY <1>4, <1>5
<1>9. /\ coder' = FreshCoder
      /\ Decoder => NullComes' \/ isFinished'
      /\ internal' => job.restartable /\ inbufs = <<>> /\ readChunks = 0
  BY <1>2, <1>4, <1>6
<1> QED
  BY <1>7, <1>8, <1>9, StillAccepts

LEMMA OnNumberAccepts ==
  ASSUME IInv, Control, Data, GoodInput, Accepts, OnNumber
  PROVE  Accepts'
<1> DEFINE left == SubSeq(chunkCallbacks, Head(calls).n + 1, Len(chunkCallbacks))
           callback == Head(chunkCallbacks)
<1>1. Immediate("number")
  BY DEF OnNumber
<1>2. /\ inbufs = <<>> /\ readChunks = 0 /\ processedChunks = 0 /\ lastCodeResult = "OK"
      /\ Quiet /\ pc = "idle" /\ Len(chunkCallbacks) = 1
      /\ calls' = <<>> /\ ~NullComes /\ ~NullComes' /\ ~ErrorComes'
  BY <1>1, ImmediateServed
<1>3. Head(calls).n = 1
  BY <1>1, ImmediateFinds DEF IInv
<1>4. left = <<>> /\ callback = chunkCallbacks[1] /\ callback \in Callback /\ chunkCallbacks # <<>>
  <2>1. chunkCallbacks \in Seq(Callback) /\ chunkCallbacks # <<>>
    <3>1. chunkCallbacks \in Seq(Callback)
      BY DEF IInv, TypeOK
    <3>2. Len(chunkCallbacks) = 1
      BY <1>2
    <3> QED
      BY <3>1, <3>2
  <2>2. left = <<>>
    BY <1>2, <1>3, <2>1
  <2> QED
    BY <1>2, <2>1, <2>2
<1>5. callback.kind = "flush" <=> flushing
  BY <1>4 DEF Control, Flushes
<1>6. /\ UNCHANGED <<taken, flushing, errors>>
      /\ \/ /\ callback.kind = "write" /\ ~Empty(callback.rest)
            /\ Transform(callback.rest, left)
         \/ /\ callback.kind = "write" /\ Empty(callback.rest)
            /\ chunkCallbacks' = left
            /\ nativeUnchanged
            /\ UNCHANGED isFinished
         \/ /\ callback.kind = "flush"
            /\ cleanup
            /\ chunkCallbacks' = left
  BY DEF OnNumber
<1> HIDE DEF left, callback
<1>7. Clear
  BY <1>2 DEF Clear
<1>8. ~flushing => /\ Pos = callback.rest.lo /\ callback.rest.hi = taken
                   /\ ~Empty(callback.rest) => Clean(callback.rest.lo)
  BY <1>2, <1>4 DEF Pos, Data, WriteInHand
<1>9. CASE callback.kind = "write" /\ ~Empty(callback.rest) /\ Transform(callback.rest, left)
  <2>1. callback.rest \in Chunk
    BY <1>4 DEF Callback
  <2>2. ~flushing /\ "write" # "flush"
    BY <1>5, <1>9
  <2> QED
    BY <1>2, <1>4, <1>6, <1>7, <1>8, <1>9, <2>1, <2>2, TransformAccepts
<1>10. CASE /\ callback.kind = "write" /\ Empty(callback.rest) /\ chunkCallbacks' = left
            /\ nativeUnchanged /\ UNCHANGED isFinished
  <2>1. ~flushing
    BY <1>5, <1>10
  <2>2. /\ UNCHANGED <<job, coder, internal, lastCodeResult, inbufs, readChunks, inbuf, shouldFinish>>
    BY <1>10 DEF nativeUnchanged, coding, settings, locals
  <2>3. Pos' = Pos
    BY <1>4, <1>6, <1>8, <1>10, <2>1 DEF Pos, Empty
  <2>4. File' = File /\ Units' = Units /\ Ends' = Ends /\ Decoder' = Decoder
    BY <2>2 DEF File, Units, Ends, Decoder
  <2>5. Healthy' /\ Fed' /\ FinishTold' /\ NoneFlushed' /\ AtStart'
    BY <1>2, <1>4, <1>6, <1>10, <2>2, <2>4 DEF Accepts, Healthy, Fed, FinishTold, NoneFlushed, AtStart
  <2>6. Begun'
    BY <1>2, <1>10, <2>2, <2>3, <2>4 DEF Accepts, Begun
  <2>7. InMember'
    BY <2>2, <2>3, <2>4, Zenon DEF Accepts, InMember
  <2> QED
    BY <2>5, <2>6, <2>7 DEF Accepts
<1>11. CASE callback.kind = "flush" /\ cleanup /\ chunkCallbacks' = left
  <2>1. flushing /\ ~Decoder
    BY <1>4, <1>5, <1>11 DEF Accepts, NoneFlushed
  <2>2. /\ UNCHANGED <<job, readChunks, shouldFinish>>
        /\ lastCodeResult' = "OK" /\ (coder' = FreshCoder \/ coder' = coder)
    BY <1>2, <1>11 DEF cleanup, ResetUnderlying, nativeUnchanged, coding, settings, locals
  <2>3. ~Decoder'
    BY <2>1, <2>2 DEF Decoder
  <2>4. Healthy' /\ Fed' /\ FinishTold'
    BY <1>2, <1>6, <2>2 DEF Accepts, Healthy, Fed, FinishTold, FreshCoder
  <2> QED
    BY <2>3, <2>4 DEF Accepts, NoneFlushed, AtStart, Begun, InMember
<1> QED
  BY <1>6, <1>9, <1>10, <1>11

LEMMA NextAccepts ==
  ASSUME IInv, Control, Data, GoodInput, Accepts, [Next]_vars
  PROVE  Accepts'
<1>1. CASE UNCHANGED vars
  <2>1. /\ UNCHANGED <<job, chunkCallbacks, flushing, taken, inbufs, readChunks, inbuf, shouldFinish>>
        /\ UNCHANGED <<coder, internal, lastCodeResult, calls, isFinished, errors>>
    BY <1>1 DEF vars, nativeVars, coding, settings, locals, transformVars, outputVars, streamVars
  <2>2. NullComes' = NullComes /\ Healthy'
    BY <2>1, SameCalls DEF Accepts, Healthy
  <2> QED
    BY <2>1, <2>2, StillAccepts
<1>2. CASE NativeTurn
  BY <1>2, CodingAccepts, WorkerAccepts, HandlersAccept DEF NativeTurn, NativeStep
<1> QED
  BY <1>1, <1>2, StartWriteAccepts, FlushAccepts, OnErrorNeverRuns, OnBufferAccepts, OnStreamEndAccepts,
     OnNumberAccepts, CallerAccepts
  DEF Next, Rest, Immediates

(* Well-formed input, whose members begin with their headers, is coded     *)
(* without an error: no call of lzma_code fails, whatever the chunks, the  *)
(* padding and the order of the steps.                                     *)
THEOREM StreamAcceptsGoodInput == SoundJob /\ MembersBegin /\ Spec => []GoodInputAccepted
<1>1. SoundJob /\ MembersBegin /\ Init =>
        IInv /\ Control /\ Data /\ MembersBegin /\ (GoodInput => Accepts)
  BY InitIInv, InitControl, InitData, InitAccepts
<1>2. IInv /\ [Next]_vars => job' = job
  BY JobFixed
<1>3. /\ IInv /\ Control /\ Data /\ MembersBegin /\ (GoodInput => Accepts)
      /\ [Next]_vars
      => (IInv /\ Control /\ Data /\ MembersBegin /\ (GoodInput => Accepts))'
  <2> SUFFICES ASSUME IInv, Control, Data, MembersBegin, GoodInput => Accepts, [Next]_vars
               PROVE  (IInv /\ Control /\ Data /\ MembersBegin /\ (GoodInput => Accepts))'
    OBVIOUS
  <2>1. MembersBegin' = MembersBegin /\ GoodInput' = GoodInput
    <3>1. job' = job
      BY <1>2
    <3>2. Decoder' = Decoder /\ Ends' = Ends /\ File' = File /\ Units' = Units
      BY <3>1 DEF Decoder, Ends, File, Units
    <3> QED
      BY <3>1, <3>2 DEF MembersBegin, Begins, GoodInput, WellFormed
  <2> QED
    BY <2>1, NextIInv, NextControl, NextData, NextAccepts
<1>4. MembersBegin /\ (GoodInput => Accepts) => GoodInputAccepted
  BY DEF GoodInput, Accepts, Healthy, ErrorComes, GoodInputAccepted
<1> QED
  BY <1>1, <1>3, <1>4, PTL DEF Spec

=============================================================================
