--------------------------- MODULE OneShot_proofs ---------------------------
(***************************************************************************)
(* Theorems about module OneShot: what compress() and decompress() answer, *)
(* from what is proved of their stream in StreamData_proofs.               *)
(***************************************************************************)
EXTENDS OneShot, StreamData_proofs

(* Behind the end of a stream without an error: all was given out, of an   *)
(* input that can be coded.                                                *)
Delivered == eof /\ errors = 0 => pushed = Payload /\ WellFormed

StreamInv == IInv /\ Control /\ Data /\ Delivered

(* The listeners and the stream agree: an answer was given for the first   *)
(* error or for the end of the stream.                                     *)
Listening ==
  /\ failed <=> errors > 0
  /\ ended => eof
  /\ started # "yes" => ~endCalled
  /\ answers = IF failed THEN <<"error">> ELSE IF ended THEN <<"result">> ELSE <<>>
  /\ promise = IF failed THEN "rejected" ELSE IF ended THEN "resolved" ELSE "pending"
  /\ failed \/ ~ended => result = {}

-----------------------------------------------------------------------------
(* Start hands over the whole input *)

LEMMA StartLeaves ==
  ASSUME IInv, Start
  PROVE  /\ UNCHANGED <<coding, settings, locals, threads, calls, synchronous>>
         /\ UNCHANGED <<transformVars, outputVars, countVars, streamVars>>
         /\ \/ written' = Len(File) /\ endCalled' = TRUE
            \/ UNCHANGED <<written, endCalled>>
BY DEF Start, nativeVars

LEMMA StartTypes ==
  ASSUME IInv, Start
  PROVE  TypeOK'
<1>1. NativeTypeOK /\ job \in Jobs /\ calls \in Seq(Call)
  BY DEF IInv, TypeOK, NativeTypeOK
<1>2. nativeUnchanged /\ calls' = calls /\ job' = job
  BY StartLeaves DEF nativeUnchanged, settings
<1>3. NativeTypeOK'
  BY <1>1, <1>2, UnchangedTypes
<1>4. written' \in 0 .. Len(File)
  <2>1. Len(File) \in Nat /\ File' = File /\ written \in 0 .. Len(File)
    BY <1>1, <1>2, FileFacts, SameUnits DEF IInv, TypeOK
  <2>2. written' = Len(File) \/ written' = written
    BY StartLeaves
  <2> QED
    BY <2>1, <2>2
<1>5. endCalled' \in BOOLEAN
  BY StartLeaves, Zenon DEF IInv, TypeOK
<1> QED
  BY <1>2, <1>3, <1>4, <1>5, StartLeaves, SameUnits
  DEF IInv, TypeOK, transformVars, outputVars, countVars, streamVars

LEMMA StartIInv ==
  ASSUME IInv, Start, ~endCalled
  PROVE  IInv'
<1>1. /\ UNCHANGED <<internal, inbufs, processedChunks, readChunks, inbuf, mutex, workers, finished, pc, calls>>
      /\ UNCHANGED <<chunkCallbacks, nativeStream, writing, flushing, taken, countedCleanup, curAsyncStreamsCount>>
      /\ synchronous' = synchronous
  BY StartLeaves DEF coding, locals, threads, transformVars, countVars, streamVars
<1>2. Token' /\ NothingRead' /\ Released' /\ CountsOnce'
  BY <1>1 DEF IInv, Token, NothingRead, Released, CountsOnce, NoChunk, InQueue, BeingRead,
     Counted, Reported, Queued, Working, Returned, Handling, Quiet, NoNumbers, LastIsNumber
<1>3. OneAtATime'
  BY <1>1 DEF IInv, OneAtATime
<1> QED
  BY <1>2, <1>3, StartTypes DEF IInv

LEMMA StartControl ==
  ASSUME IInv, Control, Start
  PROVE  Control'
<1>1. /\ UNCHANGED <<internal, coder, lastCodeResult, inbufs, outbufs, processedChunks>>
      /\ UNCHANGED <<readChunks, mutex, workers, finished, pc, calls, shouldFinish, job>>
      /\ UNCHANGED <<chunkCallbacks, nativeStream, writingLastChunk, flushing, flushed, eof, errors>>
  BY StartLeaves DEF coding, settings, locals, threads, transformVars, outputVars, streamVars
<1>2. /\ CallsInOrder' = CallsInOrder /\ BufComes' = BufComes
      /\ NullComes' = NullComes /\ ErrorComes' = ErrorComes
  BY <1>1, SameCalls
<1>3. NoChunk' = NoChunk /\ InQueue' = InQueue /\ Counted' = Counted /\ Reported' = Reported
  BY <1>1, SamePlaces
<1> QED
  BY <1>1, <1>2, <1>3
  DEF Control, CoderFree, SequenceRuns, NothingHeld, ResultHeld, Silent, Flushes, EncoderEnds,
      Replaced, Decoder

LEMMA StartData ==
  ASSUME IInv, Control, Data, Start
  PROVE  Data' /\ (Delivered => Delivered')
<1>1. /\ UNCHANGED <<internal, coder, lastCodeResult, inbufs, outbufs, processedChunks, bufsize>>
      /\ UNCHANGED <<inbuf, readChunks, mutex, workers, finished, pc, calls, shouldFinish, job>>
      /\ UNCHANGED <<chunkCallbacks, isFinished, flushing, taken, pushed, eof, errors>>
  BY StartLeaves DEF coding, settings, locals, threads, transformVars, outputVars, streamVars
<1>2. /\ Outputs' = Outputs /\ Emitted' = Emitted
      /\ NullComes' = NullComes /\ ErrorComes' = ErrorComes /\ NoNumbers' = NoNumbers
  BY <1>1, SameTelling
<1>3. HandedOver'
  <2>1. taken' = taken /\ job' = job /\ bufsize' = bufsize /\ File' = File /\ HandedOver
    BY <1>1 DEF Data, File
  <2>2. CASE written' = Len(File)
    <3>1. job \in Jobs /\ Len(File) \in Nat /\ taken \in 0 .. Len(File) /\ File \in Seq(Kinds)
      BY FileFacts DEF IInv, TypeOK, NativeTypeOK
    <3>2. Len(File) \in job.cuts \cup {0}
      BY <3>1, JobsAssumption DEF IsJob, File
    <3> QED
      BY <2>1, <2>2, <3>1, <3>2 DEF HandedOver
  <2>3. CASE UNCHANGED <<written, endCalled>>
    BY <2>1, <2>3 DEF HandedOver
  <2> QED
    BY <2>2, <2>3, StartLeaves
<1>4. Healthy' = Healthy
  BY <1>1, <1>2 DEF Healthy
<1>5. Pos' = Pos /\ File' = File /\ Ends' = Ends /\ Decoder' = Decoder /\ Units' = Units /\ Payload' = Payload
  BY <1>1, SameHand
<1>6. Finishing' /\ FlushAnswered'
  BY <1>1, <1>2, <1>4, <1>5 DEF Data, Finishing, FlushAnswered, Padding, Clear, Quiet
<1>7. Data'
  BY <1>1, <1>2, <1>3, <1>4, <1>6, StillData, Zenon DEF Data
<1>8. WellFormed' = WellFormed
  BY <1>1, <1>5 DEF WellFormed
<1> QED
  BY <1>1, <1>5, <1>7, <1>8 DEF Delivered

-----------------------------------------------------------------------------
(* The other steps are steps of the stream, or leave it alone *)

LEMMA StreamSteps ==
  ASSUME StreamTurn \/ ErrorEvent \/ DataEvent \/ EndEvent
  PROVE  [Next]_vars
BY DEF StreamTurn, ErrorEvent, DataEvent, EndEvent, Next, Immediates

LEMMA StreamInvInit ==
  ASSUME SoundJob, Init
  PROVE  StreamInv
BY InitIInv, InitControl, InitData DEF StreamInv, Delivered, Init

LEMMA StreamInvNext ==
  ASSUME StreamInv, [Next]_vars
  PROVE  StreamInv'
<1>1. IInv' /\ Control' /\ Data'
  BY NextIInv, NextControl, NextData DEF StreamInv
<1>2. [Pipe!Next]_Pipe!vars
  BY <1>1, StepIsPipeStep DEF StreamInv
<1>3. errors \in Nat /\ eof \in BOOLEAN /\ errors' \in Nat /\ eof' \in BOOLEAN
  BY <1>1 DEF StreamInv, IInv, TypeOK
<1>4. Delivered'
  BY <1>2, <1>3
  DEF Pipe!Next, Pipe!Deliver, Pipe!End, Pipe!Fail, Pipe!vars, StreamInv, Delivered
<1> QED
  BY <1>1, <1>4 DEF StreamInv

(* The end of a stream stays its end. *)
LEMMA EndStays ==
  ASSUME StreamInv, [Next]_vars, eof
  PROVE  eof'
<1>1. IInv' /\ Control' /\ Data'
  BY NextIInv, NextControl, NextData DEF StreamInv
<1>2. [Pipe!Next]_Pipe!vars
  BY <1>1, StepIsPipeStep DEF StreamInv
<1>3. errors \in Nat /\ eof \in BOOLEAN /\ errors' \in Nat /\ eof' \in BOOLEAN
  BY <1>1 DEF StreamInv, IInv, TypeOK
<1>4. errors' > 0 => eof'
  BY <1>1, <1>3 DEF Control, Silent
<1> QED
  BY <1>2, <1>3, <1>4 DEF Pipe!Next, Pipe!Deliver, Pipe!End, Pipe!Fail, Pipe!vars

(* An error comes once, and nothing was answered before it. *)
LEMMA ErrorIsFirst ==
  ASSUME StreamInv, Listening, ErrorEvent
  PROVE  /\ errors = 0 /\ ~failed /\ ~ended /\ answers = <<>> /\ promise = "pending" /\ result = {}
         /\ errors' = 1 /\ failed' = TRUE /\ answers' = <<"error">> /\ promise' = "rejected"
         /\ UNCHANGED <<result, ended, started, buffers, endCalled>>
<1>1. ~eof /\ errors = 0
  BY ImmediateServed DEF ErrorEvent, OnError, StreamInv
<1>2. ~failed /\ ~ended /\ answers = <<>> /\ promise = "pending" /\ result = {}
  BY <1>1 DEF Listening
<1>3. errors' = 1 /\ endCalled' = endCalled
  BY <1>1 DEF ErrorEvent, OnError, callerVars
<1>4. Append(<<>>, "error") = <<"error">>
  OBVIOUS
<1> QED
  BY <1>1, <1>2, <1>3, <1>4 DEF ErrorEvent, Settle, eventVars

(* 'end' gives the result, unless an error was answered. *)
LEMMA EndAnswers ==
  ASSUME StreamInv, Listening, EndEvent
  PROVE  /\ eof /\ ended' = TRUE
         /\ UNCHANGED <<vars, started, failed>>
         /\ \/ failed /\ UNCHANGED <<answers, promise, result>>
            \/ /\ ~failed /\ answers = <<>> /\ promise = "pending"
               /\ answers' = <<"result">> /\ promise' = "resolved" /\ result' = Payload
               /\ WellFormed
<1>1. eof /\ ~ended /\ ended' = TRUE /\ buffers = pushed /\ UNCHANGED <<vars, started, failed>>
  BY DEF EndEvent
<1>2. CASE failed
  <2>1. promise = "rejected"
    BY <1>2 DEF Listening
  <2> QED
    BY <1>1, <1>2, <2>1 DEF EndEvent, Finished, Settle
<1>3. CASE ~failed
  <2>1. answers = <<>> /\ promise = "pending"
    BY <1>1, <1>3 DEF Listening
  <2>2. errors = 0
    BY <1>3 DEF Listening, StreamInv, IInv, TypeOK
  <2>3. pushed = Payload /\ WellFormed
    BY <1>1, <2>2 DEF StreamInv, Delivered
  <2>4. Append(<<>>, "result") = <<"result">>
    OBVIOUS
  <2> QED
    BY <1>1, <1>3, <2>1, <2>3, <2>4 DEF EndEvent, Finished, Settle
<1> QED
  BY <1>2, <1>3

LEMMA ListeningInit == OneShotInit => Listening
BY DEF OneShotInit, Init, Listening

LEMMA ListeningNext ==
  ASSUME StreamInv, Listening, [OneShotNext]_<<vars, oneShotVars>>
  PROVE  Listening'
<1>1. CASE Start
  <2>1. started' # "no" /\ (started' = "yes" \/ endCalled' = endCalled) /\ started = "no"
    BY <1>1 DEF Start
  <2>2. UNCHANGED <<errors, eof, failed, ended, answers, promise, result>>
    BY <1>1 DEF Start, outputVars, answerVars, eventVars
  <2> QED
    BY <2>1, <2>2 DEF Listening
<1>2. CASE StreamTurn
  <2>1. UNCHANGED <<started, failed, ended, answers, promise, result>>
    BY <1>2 DEF StreamTurn, oneShotVars, answerVars, eventVars
  <2>2. errors' = errors /\ endCalled' = endCalled
    BY <1>2 DEF StreamTurn, StartWrite, Flush, OnBuffer, OnStreamEnd, OnNumber, NativeTurn,
       outputVars, callerVars
  <2>3. eof => eof'
    BY <1>2, StreamSteps, EndStays
  <2> QED
    BY <2>1, <2>2, <2>3 DEF Listening
<1>3. CASE ErrorEvent
  <2>1. /\ errors' = 1 /\ failed' = TRUE /\ ~ended' /\ answers' = <<"error">>
        /\ promise' = "rejected" /\ result' = {} /\ UNCHANGED <<started, endCalled>>
    BY <1>3, ErrorIsFirst
  <2>2. failed' <=> errors' > 0
    BY <2>1
  <2> QED
    BY <2>1, <2>2, Zenon DEF Listening
<1>4. CASE DataEvent
  <2>1. UNCHANGED <<errors, eof, endCalled, started, failed, ended, answers, promise, result>>
    BY <1>4 DEF DataEvent, vars, outputVars, callerVars, answerVars
  <2> QED
    BY <2>1 DEF Listening
<1>5. CASE EndEvent
  <2>1. UNCHANGED <<errors, eof, endCalled, started, failed>>
    BY <1>5, EndAnswers DEF vars, outputVars, callerVars
  <2> QED
    BY <1>5, <2>1, EndAnswers DEF Listening
<1>6. CASE UNCHANGED <<vars, oneShotVars>>
  <2>1. UNCHANGED <<errors, eof, endCalled, started, failed, ended, answers, promise, result>>
    BY <1>6 DEF vars, outputVars, callerVars, oneShotVars, answerVars, eventVars
  <2> QED
    BY <2>1 DEF Listening
<1> QED
  BY <1>1, <1>2, <1>3, <1>4, <1>5, <1>6 DEF OneShotNext

LEMMA OneShotInductive == SoundJob /\ OneShotSpec => [](StreamInv /\ Listening)
<1>1. SoundJob /\ OneShotInit => StreamInv /\ Listening
  BY StreamInvInit, ListeningInit DEF OneShotInit
<1>2. StreamInv /\ Listening /\ [OneShotNext]_<<vars, oneShotVars>> => (StreamInv /\ Listening)'
  <2> SUFFICES ASSUME StreamInv, Listening, [OneShotNext]_<<vars, oneShotVars>>
               PROVE  StreamInv'
    BY ListeningNext
  <2>1. CASE Start
    <3>1. ~endCalled
      BY <2>1 DEF Start, Listening
    <3> QED
      BY <2>1, <3>1, StartIInv, StartControl, StartData DEF StreamInv
  <2>2. CASE ~Start
    <3>1. [Next]_vars
      BY <2>2, StreamSteps DEF OneShotNext
    <3> QED
      BY <3>1, StreamInvNext
  <2> QED
    BY <2>1, <2>2
<1> QED
  BY <1>1, <1>2, PTL DEF OneShotSpec

-----------------------------------------------------------------------------
(* The theorems *)

(* Type correctness of a one-shot call, for every input, safe or not.      *)
THEOREM OneShotTypes == OneShotSpec => []OneShotTypeOK
<1> DEFINE Listeners ==
      /\ started \in {"no", "yes", "thrown"}
      /\ failed \in BOOLEAN /\ ended \in BOOLEAN
      /\ buffers \in SUBSET Units /\ result \in SUBSET Units
      /\ answers \in Seq({"result", "error"})
      /\ promise \in {"pending", "resolved", "rejected"}
<1>1. OneShotInit => IInv /\ Listeners /\ (started # "yes" => ~endCalled)
  <2> SUFFICES ASSUME OneShotInit PROVE IInv /\ Listeners /\ (started # "yes" => ~endCalled)
    OBVIOUS
  <2>1. IInv /\ ~endCalled
    BY InitIInv DEF OneShotInit, Init
  <2>2. failed \in BOOLEAN /\ ended \in BOOLEAN
    BY Zenon DEF OneShotInit
  <2>3. Listeners
    BY <2>2 DEF OneShotInit
  <2> QED
    BY <2>1, <2>3
<1>2. /\ IInv /\ Listeners /\ (started # "yes" => ~endCalled)
      /\ [OneShotNext]_<<vars, oneShotVars>>
      => (IInv /\ Listeners /\ (started # "yes" => ~endCalled))'
  <2> SUFFICES ASSUME IInv, Listeners, started # "yes" => ~endCalled,
                      [OneShotNext]_<<vars, oneShotVars>>
               PROVE  IInv' /\ Listeners' /\ (started' # "yes" => ~endCalled')
    OBVIOUS
  <2>1. CASE Start
    <3>1. started = "no" /\ ~endCalled
      BY <2>1 DEF Start
    <3>2. IInv' /\ started' \in {"yes", "thrown"} /\ (started' = "yes" \/ endCalled' = endCalled)
      BY <2>1, <3>1, StartIInv DEF Start
    <3>3. UNCHANGED <<failed, ended, buffers, answers, promise, result>> /\ Units' = Units
      BY <2>1, StartLeaves, SameUnits DEF Start, answerVars, eventVars, settings
    <3>4. Listeners'
      BY <3>2, <3>3
    <3> QED
      BY <3>1, <3>2, <3>4
  <2>2. CASE ~Start
    <3>1. [Next]_vars
      BY <2>2, StreamSteps DEF OneShotNext
    <3>2. IInv' /\ Units' = Units
      BY <3>1, NextIInv, JobFixed, SameUnits
    <3>3. started' = started /\ endCalled' = endCalled
      BY <2>2 DEF OneShotNext, StreamTurn, ErrorEvent, DataEvent, EndEvent, oneShotVars, OnError,
         StartWrite, Flush, OnBuffer, OnStreamEnd, OnNumber, NativeTurn, vars, callerVars
    <3>4. Listeners'
      <4>1. failed' \in BOOLEAN /\ ended' \in BOOLEAN
        BY <2>2, Zenon DEF OneShotNext, StreamTurn, ErrorEvent, DataEvent, EndEvent, oneShotVars,
           answerVars, eventVars
      <4>2. pushed \in SUBSET Units
        BY DEF IInv, TypeOK
      <4>3. buffers' \in SUBSET Units /\ result' \in SUBSET Units
        BY <2>2, <3>2, <4>2 DEF OneShotNext, StreamTurn, ErrorEvent, DataEvent, EndEvent, Finished,
           oneShotVars, answerVars, eventVars
      <4>4. answers' \in Seq({"result", "error"})
        BY <2>2 DEF OneShotNext, StreamTurn, ErrorEvent, DataEvent, EndEvent, Finished,
           oneShotVars, answerVars, eventVars
      <4>5. promise' \in {"pending", "resolved", "rejected"}
        BY <2>2 DEF OneShotNext, StreamTurn, ErrorEvent, DataEvent, EndEvent, Settle,
           oneShotVars, answerVars, eventVars
      <4>6. started' \in {"no", "yes", "thrown"}
        BY <3>3
      <4>7. buffers' \in SUBSET Units' /\ result' \in SUBSET Units'
        BY <3>2, <4>3
      <4> QED
        BY <4>1, <4>4, <4>5, <4>6, <4>7, Zenon
    <3> QED
      BY <3>2, <3>3, <3>4
  <2> QED
    BY <2>1, <2>2
<1>3. IInv /\ Listeners => OneShotTypeOK
  BY DEF IInv, OneShotTypeOK
<1> QED
  BY <1>1, <1>2, <1>3, PTL DEF OneShotSpec

(* compress() and decompress() answer once, to the callback and to the     *)
(* promise alike, although 'end' follows an error, and a result is the     *)
(* whole payload of an input that can be coded: for every input that is    *)
(* safe, every buffer size and every timing of events and threads.         *)
THEOREM OneShotImplementsOneAnswer == SoundJob /\ OneShotSpec => ImplementsOneAnswer
<1>1. OneShotInit => Answer!Init
  <2>1. Init => Payload \subseteq Nat /\ WellFormed \in BOOLEAN
    BY InitIsPipeInit DEF Pipe!Init
  <2> QED
    BY <2>1 DEF OneShotInit, Answer!Init
<1>2. StreamInv /\ Listening /\ [OneShotNext]_<<vars, oneShotVars>> => [Answer!Next]_Answer!vars
  <2> SUFFICES ASSUME StreamInv, Listening, [OneShotNext]_<<vars, oneShotVars>>
               PROVE  [Answer!Next]_Answer!vars
    OBVIOUS
  <2>1. Payload' = Payload /\ WellFormed' = WellFormed
    <3>1. CASE Start
      <4>1. job' = job
        BY <3>1, StartLeaves DEF StreamInv, settings
      <4> QED
        BY <4>1 DEF Payload, WellFormed, Units, File, Decoder, Ends
    <3>2. CASE ~Start
      BY <3>2, StreamSteps, JobFixed DEF OneShotNext
    <3> QED
      BY <3>1, <3>2
  <2>2. CASE ErrorEvent
    BY <2>1, <2>2, ErrorIsFirst DEF Answer!Next, Answer!Fail
  <2>3. CASE EndEvent
    BY <2>1, <2>3, EndAnswers DEF Answer!Next, Answer!Finish, Answer!vars
  <2>4. CASE Start \/ StreamTurn \/ DataEvent \/ UNCHANGED <<vars, oneShotVars>>
    <3>1. UNCHANGED <<answers, promise, result>>
      BY <2>4 DEF Start, StreamTurn, DataEvent, oneShotVars, answerVars
    <3> QED
      BY <2>1, <3>1 DEF Answer!vars
  <2> QED
    BY <2>2, <2>3, <2>4 DEF OneShotNext
<1>3. SoundJob /\ OneShotSpec => [](StreamInv /\ Listening)
  BY OneShotInductive
<1> QED
  BY <1>1, <1>2, <1>3, PTL DEF OneShotSpec, ImplementsOneAnswer, Answer!Spec

=============================================================================
