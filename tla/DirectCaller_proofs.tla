------------------------- MODULE DirectCaller_proofs -------------------------
(***************************************************************************)
(* No chunk is lost or counted twice however many workers there are, for   *)
(* every input, every way to cut it, and every bound on the workers.  The  *)
(* places where the code forgets counts, resetUnderlying and a coding loop *)
(* without a coder, are reached only behind a result.                      *)
(***************************************************************************)
EXTENDS DirectCaller, LZMAStream_proofs

(* A coder is given up, and counts are wiped, behind a result only. *)
BehindResult == ~internal \/ pc \in {"chunks", "reset"} => ~NoResultYet

IInv == TypeOK /\ BehindResult /\ ChunksAddUp

-----------------------------------------------------------------------------
(* The record of calls *)

(* Another call of bufferHandler: it is the last, and a result is one. *)
LEMMA OneMoreCall ==
  ASSUME calls \in Seq(Call), NEW c \in Call, calls' = Append(calls, c)
  PROVE  /\ calls' # calls /\ calls'[Len(calls')] = c
         /\ Len(calls') = Len(calls) + 1
         /\ NoResultYet' <=> (NoResultYet /\ c.kind \notin {"null", "error"})
<1>1. /\ Len(calls) \in Nat /\ Len(calls') = Len(calls) + 1 /\ calls'[Len(calls')] = c
      /\ DOMAIN calls = 1 .. Len(calls) /\ DOMAIN calls' = 1 .. Len(calls) + 1
      /\ \A i \in 1 .. Len(calls) : calls'[i] = calls[i]
  OBVIOUS
<1>2. calls' # calls
  <2>1. \A n \in Nat : n + 1 # n
    OBVIOUS
  <2> QED
    BY <1>1, <2>1, Zenon
<1>3. 1 .. Len(calls) + 1 = 1 .. Len(calls) \cup {Len(calls')}
  BY <1>1
<1>4. NoResultYet' <=>
        /\ \A i \in 1 .. Len(calls) : calls'[i].kind \notin {"null", "error"}
        /\ calls'[Len(calls')].kind \notin {"null", "error"}
  BY <1>1, <1>3 DEF NoResultYet
<1> QED
  BY <1>1, <1>2, <1>4 DEF NoResultYet

(* What the native object does to the record. *)
LEMMA NativeCalls ==
  ASSUME NativeTypeOK, NativeStep
  PROVE  calls' = calls \/ \E c \in Call : calls' = Append(calls, c)
<1>1. \A out \in SUBSET Units : BufCall(out) \in Call
  BY CallTypes
<1>2. NullCall \in Call /\ ErrorCall \in Call /\ NumberCall(processedChunks) \in Call
  BY CallTypes DEF NativeTypeOK
<1>3. CASE DoLZMACode
  BY <1>3 DEF DoLZMACode, NoCoder, FetchChunk, CodeProgress, CodeStuck, CodeFails, CodeEnded,
     AfterCode
<1>4. CASE WorkerStarts \/ WorkerThrows \/ WorkerOnOK
  BY <1>4 DEF WorkerStarts, WorkerThrows, WorkerOnOK
<1>5. CASE HandOutput
  <2>1. Head(outbufs) \in SUBSET Units
    BY <1>5 DEF HandOutput, NativeTypeOK
  <2> QED
    BY <1>1, <1>5, <2>1 DEF HandOutput
<1>6. CASE HandResult \/ HandChunks \/ HandNothing \/ HandChunksBeforeReset \/ HandReset
  BY <1>2, <1>6 DEF HandResult, HandChunks, HandNothing, HandChunksBeforeReset, HandReset
<1> QED
  BY <1>3, <1>4, <1>5, <1>6 DEF NativeStep, InvokeBufferHandlers

-----------------------------------------------------------------------------
(* Types *)

LEMMA NativeTypes ==
  ASSUME TypeOK, Native
  PROVE  TypeOK'
<1> USE DEF TypeOK
<1>1. NativeTypeOK' /\ job' = job
  BY NativeStepTypes DEF Native, NativeStep, DoLZMACode, NoCoder, FetchChunk, CodeProgress,
     CodeStuck, CodeFails, CodeEnded, AfterCode, WorkerStarts, WorkerThrows, WorkerOnOK,
     InvokeBufferHandlers, HandOutput, HandResult, HandChunks, HandNothing,
     HandChunksBeforeReset, HandReset, settings
<1>2. calls \in Seq(Call) /\ Len(calls) \in Nat /\ Len(File) \in Nat
  BY FileFacts DEF NativeTypeOK
<1>3. CASE calls' = calls
  BY <1>1, <1>2, <1>3 DEF Native, File
<1>4. ASSUME NEW c \in Call, calls' = Append(calls, c) PROVE TypeOK'
  <2>1. c.n \in Nat
    BY DEF Call
  <2>2. reported' = reported + c.n /\ Len(calls') = Len(calls) + 1
    BY <1>2, <1>4, OneMoreCall DEF Native
  <2> QED
    BY <1>1, <1>2, <2>1, <2>2 DEF Native, File
<1> QED
  BY <1>3, <1>4, NativeCalls DEF Native

LEMMA CallerTypes ==
  ASSUME TypeOK, (\E async \in BOOLEAN : Give(async)) \/ GiveInHandler \/ SetUpAgain
  PROVE  TypeOK'
<1> USE DEF TypeOK
<1>1. calls' = calls /\ job' = job /\ Len(calls) \in Nat /\ calls' \in Seq(Call)
  <2>1. calls' = calls
    BY DEF Give, GiveInHandler, SetUpAgain
  <2>2. CASE \E async \in BOOLEAN : Give(async)
    <3>1. \E chunk, async : Code(chunk, async)
      BY <2>2 DEF Give
    <3> QED
      BY <2>1, <3>1 DEF Code, NativeTypeOK
  <2>3. CASE GiveInHandler
    BY <2>1, <2>3 DEF GiveInHandler, settings, NativeTypeOK
  <2>4. CASE SetUpAgain
    BY <2>1, <2>4 DEF SetUpAgain, ResetUnderlying, settings, NativeTypeOK
  <2> QED
    BY <2>2, <2>3, <2>4
<1>2. \A cut \in job.cuts : cut \in 0 .. Len(File) /\ given \in Nat
  BY JobsAssumption, FileFacts DEF IsJob, NativeTypeOK, File
<1>3. ASSUME NEW cut \in job.cuts, given < cut
      PROVE  [lo |-> given, hi |-> cut] \in Chunk
  BY <1>2, <1>3, MakeChunk, FileFacts DEF NativeTypeOK
<1>4. ASSUME NEW async \in BOOLEAN, Give(async) PROVE TypeOK'
  <2>1. given' \in 0 .. Len(File) /\ \E chunk \in Chunk : Code(chunk, async)
    BY <1>2, <1>3, <1>4, NoInputChunk DEF Give, NativeTypeOK
  <2>2. NativeTypeOK'
    BY <1>1, <2>1, CodeTypes
  <2> QED
    BY <1>1, <1>4, <2>1, <2>2 DEF Give, File
<1>5. CASE GiveInHandler
  <2>1. given' \in 0 .. Len(File) /\ inbufs' \in Seq(Chunk)
    BY <1>2, <1>3, <1>5 DEF GiveInHandler, NativeTypeOK
  <2>2. NativeTypeOK'
    BY <1>1, <1>5, <2>1, SameJob DEF GiveInHandler, NativeTypeOK, settings, locals
  <2> QED
    BY <1>1, <1>5, <2>1, <2>2 DEF GiveInHandler, File
<1>6. CASE SetUpAgain
  <2>1. NativeTypeOK'
    BY <1>1, <1>6, ResetTypes DEF SetUpAgain
  <2>2. setUpAt' \in 0 .. Len(calls')
    BY <1>1, <1>6 DEF SetUpAgain
  <2>3. given' = given /\ chunks' = chunks /\ reported' = reported /\ Len(File') = Len(File)
    BY <1>1, <1>6 DEF SetUpAgain, File
  <2> QED
    BY <2>1, <2>2, <2>3
<1> QED
  BY <1>4, <1>5, <1>6

LEMMA InitTypes == Init => TypeOK
<1> SUFFICES ASSUME Init PROVE TypeOK
  OBVIOUS
<1>1. job \in Jobs /\ NoInput \in Chunk /\ Len(File) \in Nat
  BY NoInputChunk, FileFacts DEF Init, NativeInit
<1>2. inbufs \in Seq(Chunk) /\ outbufs \in Seq(SUBSET Units) /\ calls \in Seq(Call) /\ Len(calls) = 0
  BY DEF Init, NativeInit
<1>3. /\ internal \in BOOLEAN /\ shouldFinish \in BOOLEAN /\ coder \in Coder
      /\ processedChunks \in Nat /\ lastCodeResult \in CodeResults /\ bufsize \in Nat
  BY FreshCoderType, SizeAssumption DEF Init, NativeInit, CodeResults
<1>4. /\ mutex \in {"free", "main", "worker"} /\ inbuf \in Chunk /\ readChunks \in Nat
      /\ workers \in Nat /\ finished \in Nat
      /\ pc \in {"idle", "coding", "outbufs", "chunks", "reset", "aborted"}
  BY <1>1 DEF Init, NativeInit
<1>5. NativeTypeOK
  BY <1>1, <1>2, <1>3, <1>4 DEF NativeTypeOK
<1> QED
  BY <1>1, <1>2, <1>5 DEF Init, TypeOK

-----------------------------------------------------------------------------
(* The chunks *)

(* The coding loop: what it has read it counts when it returns, unless     *)
(* there is no coder.                                                      *)
LEMMA CodingAddsUp ==
  ASSUME IInv, DoLZMACode, Native
  PROVE  BehindResult' /\ ChunksAddUp'
<1>1. /\ calls' = calls /\ internal' = internal /\ chunks' = chunks /\ reported' = reported
      /\ pc' \in {"chunks", "reset"} => pc \in {"chunks", "reset"}
  BY DEF DoLZMACode, NoCoder, FetchChunk, CodeProgress, CodeStuck, CodeFails, CodeEnded, AfterCode,
     Break, Continue, Leave, Native, coding, threads, IInv, TypeOK, NativeTypeOK
<1>2. BehindResult' /\ (NoResultYet' <=> NoResultYet)
  BY <1>1 DEF IInv, BehindResult, NoResultYet
<1>3. CASE NoCoder
  BY <1>2, <1>3 DEF NoCoder, IInv, BehindResult, ChunksAddUp
<1>4. CASE FetchChunk
  <2>1. Len(inbufs') = Len(inbufs) - 1 /\ readChunks' = readChunks + 1
        /\ processedChunks' = processedChunks /\ Len(inbufs) \in Nat
    BY <1>4 DEF FetchChunk, IInv, TypeOK, NativeTypeOK
  <2> QED
    BY <1>1, <1>2, <2>1 DEF IInv, TypeOK, NativeTypeOK, ChunksAddUp
<1>5. CASE \E k, out, ret : AfterCode(k, out, ret)
  <2>1. /\ inbufs' = inbufs
        /\ \/ processedChunks' = processedChunks + readChunks /\ readChunks' = 0
           \/ processedChunks' = processedChunks /\ readChunks' = readChunks
    BY <1>5 DEF AfterCode, Break, Leave, Continue
  <2> QED
    BY <1>1, <1>2, <2>1 DEF IInv, TypeOK, NativeTypeOK, ChunksAddUp
<1> QED
  BY <1>3, <1>4, <1>5 DEF DoLZMACode, CodeProgress, CodeStuck, CodeFails, CodeEnded

LEMMA WorkersAddUp ==
  ASSUME IInv, WorkerStarts \/ WorkerThrows \/ WorkerOnOK, Native
  PROVE  BehindResult' /\ ChunksAddUp'
<1>1. /\ UNCHANGED <<calls, internal, inbufs, readChunks, processedChunks, chunks>>
      /\ reported' = reported
      /\ pc' \in {"chunks", "reset"} => pc \in {"chunks", "reset"}
  BY DEF WorkerStarts, WorkerThrows, WorkerOnOK, Native, coding, locals, IInv, TypeOK
<1> QED
  BY <1>1 DEF IInv, BehindResult, ChunksAddUp, NoResultYet

(* The handlers: a number carries processedChunks away, and the reset      *)
(* follows a result.                                                       *)
LEMMA HandlersAddUp ==
  ASSUME IInv, InvokeBufferHandlers, Native
  PROVE  BehindResult' /\ ChunksAddUp'
<1> USE DEF IInv, TypeOK
<1>1. /\ calls \in Seq(Call) /\ processedChunks \in Nat /\ reported \in Nat
      /\ Len(inbufs) \in Nat /\ readChunks \in Nat /\ chunks \in Nat
  BY DEF NativeTypeOK
<1>2. inbufs' = inbufs /\ readChunks' = readChunks /\ chunks' = chunks
  BY DEF InvokeBufferHandlers, HandOutput, HandResult, HandChunks, HandNothing,
     HandChunksBeforeReset, HandReset, coding, locals, Native
<1>3. CASE HandOutput
  <2>1. BufCall(Head(outbufs)) \in Call
    BY <1>3, CallTypes DEF HandOutput, NativeTypeOK
  <2>2. reported' = reported /\ (NoResultYet' <=> NoResultYet)
    BY <1>1, <1>3, <2>1, OneMoreCall DEF HandOutput, Native, BufCall
  <2> QED
    BY <1>1, <1>2, <1>3, <2>2 DEF HandOutput, threads, BehindResult, ChunksAddUp
<1>4. CASE HandResult
  <2>1. ~NoResultYet'
    BY <1>1, <1>4, CallTypes, OneMoreCall DEF HandResult, NullCall, ErrorCall
  <2> QED
    BY <2>1 DEF BehindResult, ChunksAddUp
<1>5. CASE HandChunks \/ HandChunksBeforeReset
  <2>1. NumberCall(processedChunks) \in Call /\ calls' = Append(calls, NumberCall(processedChunks))
    BY <1>1, <1>5, CallTypes DEF HandChunks, HandChunksBeforeReset, NativeTypeOK
  <2>2. reported' = reported + processedChunks /\ (NoResultYet' <=> NoResultYet)
    <3> DEFINE c == NumberCall(processedChunks)
    <3>1. c.n = processedChunks /\ c.kind = "number"
      BY DEF NumberCall
    <3>2. /\ calls' # calls /\ calls'[Len(calls')] = c
          /\ NoResultYet' <=> (NoResultYet /\ c.kind \notin {"null", "error"})
      BY <1>1, <2>1, OneMoreCall
    <3> QED
      BY <3>1, <3>2 DEF Native
  <2>3. /\ processedChunks' = 0 /\ internal' = internal
        /\ pc' \in {"chunks", "reset"} => pc \in {"chunks", "reset"}
    BY <1>5 DEF HandChunks, HandChunksBeforeReset, HandlersReturn
  <2> QED
    BY <1>1, <1>2, <2>2, <2>3 DEF BehindResult, ChunksAddUp
<1>6. CASE HandNothing
  <2>1. UNCHANGED <<calls, internal, processedChunks>> /\ reported' = reported /\ pc' = "idle"
    BY <1>6 DEF HandNothing, HandlersReturn, coding, Native
  <2> QED
    BY <1>2, <2>1 DEF BehindResult, ChunksAddUp, NoResultYet
<1>7. CASE HandReset
  <2>1. ~NoResultYet /\ calls' = calls
    BY <1>7 DEF HandReset, BehindResult
  <2>2. ~NoResultYet'
    BY <2>1 DEF NoResultYet
  <2> QED
    BY <2>2 DEF BehindResult, ChunksAddUp
<1> QED
  BY <1>3, <1>4, <1>5, <1>6, <1>7 DEF InvokeBufferHandlers

(* The caller: a chunk more is in inbufs, and a coder is set up again      *)
(* behind a result.                                                        *)
LEMMA CallerAddsUp ==
  ASSUME IInv, (\E async \in BOOLEAN : Give(async)) \/ GiveInHandler \/ SetUpAgain
  PROVE  BehindResult' /\ ChunksAddUp'
<1> USE DEF IInv, TypeOK
<1>1. calls' = calls /\ (NoResultYet' <=> NoResultYet)
  BY DEF Give, GiveInHandler, SetUpAgain, NoResultYet
<1>2. CASE (\E async \in BOOLEAN : Give(async)) \/ GiveInHandler
  <2>1. PICK chunk : inbufs' = Append(inbufs, chunk)
    BY <1>2 DEF Give, GiveInHandler, Code
  <2>2. Len(inbufs') = Len(inbufs) + 1 /\ Len(inbufs) \in Nat
    BY <2>1 DEF NativeTypeOK
  <2>3. /\ internal' = internal /\ readChunks' = readChunks /\ processedChunks' = processedChunks
        /\ reported' = reported /\ chunks' = chunks + 1
        /\ pc' \in {"chunks", "reset"} => pc \in {"chunks", "reset"}
    BY <1>2 DEF Give, GiveInHandler, Code, locals
  <2> QED
    BY <1>1, <2>2, <2>3 DEF BehindResult, ChunksAddUp, NativeTypeOK
<1>3. CASE SetUpAgain
  <2>1. PICK i \in (setUpAt + 1) .. Len(calls) : calls[i].kind \in {"null", "error"}
    BY <1>3 DEF SetUpAgain, Results
  <2>2. i \in DOMAIN calls
    BY <2>1 DEF NativeTypeOK
  <2>3. ~NoResultYet
    BY <2>1, <2>2 DEF NoResultYet
  <2> QED
    BY <1>1, <2>3 DEF BehindResult, ChunksAddUp
<1> QED
  BY <1>2, <1>3

LEMMA InitAddsUp == Init => IInv
<1> SUFFICES ASSUME Init PROVE IInv
  OBVIOUS
<1>1. internal /\ pc = "idle" /\ Len(inbufs) = 0
  BY DEF Init, NativeInit
<1> QED
  BY <1>1, InitTypes DEF IInv, BehindResult, ChunksAddUp, Init, NativeInit

LEMMA Invariant == Spec => []IInv
<1>1. IInv /\ [Next]_vars => IInv'
  <2> SUFFICES ASSUME IInv, [Next]_vars PROVE IInv'
    OBVIOUS
  <2>1. CASE UNCHANGED vars
    BY <2>1, SameJob DEF vars, nativeVars, directVars, coding, settings, locals, threads, IInv,
       TypeOK, NativeTypeOK, BehindResult, ChunksAddUp, NoResultYet, File
  <2>2. CASE Native
    BY <2>2, NativeTypes, CodingAddsUp, WorkersAddUp, HandlersAddUp DEF IInv, Native, NativeStep
  <2>3. CASE (\E async \in BOOLEAN : Give(async)) \/ GiveInHandler \/ SetUpAgain
    BY <2>3, CallerTypes, CallerAddsUp DEF IInv
  <2> QED
    BY <2>1, <2>2, <2>3 DEF Next
<1> QED
  BY InitAddsUp, <1>1, PTL DEF Spec

(* Every variable of the native object and of its caller stays in its      *)
(* type, whatever the caller gives and whenever.                           *)
THEOREM TypeCorrect == Spec => []TypeOK
<1>1. IInv => TypeOK
  BY DEF IInv
<1> QED
  BY Invariant, <1>1, PTL

(* Until a result is reported every chunk given to code() is in exactly    *)
(* one place, whichever worker reads, counts and reports it.               *)
THEOREM NoChunkIsLost == Spec => []ChunksAddUp
<1>1. IInv => ChunksAddUp
  BY DEF IInv
<1> QED
  BY Invariant, <1>1, PTL

-----------------------------------------------------------------------------
(* The end of a coder *)

(* The end of the coder that was set up last was told. *)
EndTold == \E i \in (setUpAt + 1) .. Len(calls) : calls[i].kind = "null"

(* A coder that has come to its end does nothing else until it is reset,   *)
(* whoever calls it; once that was told there is no output left, and the   *)
(* handlers are on their way to the reset or behind it.                    *)
AtEnd ==
  /\ lastCodeResult = "STREAM_END" <=> coder.sequence = "end"
  /\ EndTold =>
       /\ outbufs = <<>>
       /\ \/ coder.sequence = "end" /\ pc \in {"chunks", "reset"}
          \/ ~internal /\ lastCodeResult = "OK"

EndInv == TypeOK /\ AtEnd /\ EndIsLast

(* Steps that call nobody. *)
LEMMA SilentEnd ==
  ASSUME EndInv, UNCHANGED <<calls, setUpAt>>
  PROVE  EndIsLast' /\ (EndTold' <=> EndTold)
BY DEF EndInv, EndIsLast, Results, EndTold

(* A call behind the end is a number. *)
LEMMA CallBehindEnd ==
  ASSUME EndInv, NEW c \in Call, calls' = Append(calls, c), setUpAt' = setUpAt,
         EndTold => c.kind = "number"
  PROVE  /\ EndIsLast'
         /\ EndTold' <=> EndTold \/ c.kind = "null"
<1>1. /\ calls \in Seq(Call) /\ Len(calls) \in Nat /\ setUpAt \in 0 .. Len(calls)
      /\ calls' \in Seq(Call)
      /\ Len(calls') = Len(calls) + 1 /\ calls'[Len(calls) + 1] = c
      /\ \A i \in 1 .. Len(calls) : calls'[i] = calls[i] /\ calls[i] \in Call
  BY DEF EndInv, TypeOK, NativeTypeOK
<1>2. \A i \in (setUpAt' + 1) .. Len(calls') :
        \/ i = Len(calls) + 1
        \/ i \in (setUpAt + 1) .. Len(calls) /\ i \in 1 .. Len(calls) /\ calls'[i] = calls[i]
  BY <1>1
<1>3. /\ Len(calls) + 1 \in (setUpAt' + 1) .. Len(calls')
      /\ \A i \in (setUpAt + 1) .. Len(calls) :
           i \in (setUpAt' + 1) .. Len(calls') /\ calls'[i] = calls[i] /\ calls[i] \in Call
  BY <1>1
<1>4. EndTold' <=> EndTold \/ c.kind = "null"
  BY <1>1, <1>2, <1>3 DEF EndTold
<1>5. ASSUME NEW i \in Results', calls'[i].kind = "null",
             NEW j \in (setUpAt' + 1) .. Len(calls')
      PROVE  /\ j > i => calls'[j].kind = "number"
             /\ j < i => calls'[j].kind \in {"buf", "number", "error"}
  <2>1. i \in (setUpAt' + 1) .. Len(calls')
    BY DEF Results
  <2>2. CASE i = Len(calls) + 1
    <3>1. ~EndTold /\ ~(j > i)
      BY <1>1, <1>5, <2>2
    <3>2. ASSUME j < i PROVE calls'[j].kind \in {"buf", "number", "error"}
      <4>1. j \in (setUpAt + 1) .. Len(calls) /\ calls'[j] = calls[j] /\ calls[j] \in Call
        BY <1>2, <1>3, <2>2, <3>2
      <4>2. calls[j].kind # "null"
        BY <3>1, <4>1 DEF EndTold
      <4> QED
        BY <4>1, <4>2 DEF Call, CallKinds
    <3> QED
      BY <3>1, <3>2
  <2>3. CASE i # Len(calls) + 1
    <3>1. i \in (setUpAt + 1) .. Len(calls) /\ calls'[i] = calls[i]
      BY <1>2, <2>1, <2>3
    <3>2. i \in Results /\ EndTold
      BY <1>5, <3>1 DEF Results, EndTold
    <3>3. CASE j = Len(calls) + 1
      BY <1>1, <3>1, <3>2, <3>3
    <3>4. CASE j # Len(calls) + 1
      <4>1. j \in (setUpAt + 1) .. Len(calls) /\ calls'[j] = calls[j]
        BY <1>2, <3>4
      <4> QED
        BY <1>5, <3>1, <3>2, <4>1 DEF EndInv, EndIsLast
    <3> QED
      BY <3>3, <3>4
  <2> QED
    BY <2>2, <2>3
<1> QED
  BY <1>4, <1>5 DEF EndIsLast

LEMMA CodingAtEnd ==
  ASSUME EndInv, DoLZMACode, Native
  PROVE  AtEnd' /\ EndIsLast'
<1>1. UNCHANGED <<calls, setUpAt, internal>>
  BY DEF DoLZMACode, NoCoder, FetchChunk, CodeProgress, CodeStuck, CodeFails, CodeEnded, AfterCode,
     Native, coding
<1>2. EndIsLast' /\ (EndTold' <=> EndTold)
  BY <1>1, SilentEnd
<1>3. CASE NoCoder
  <2>1. /\ UNCHANGED <<lastCodeResult, coder, outbufs>>
        /\ pc \in {"chunks", "reset"} => pc' \in {"chunks", "reset"} \/ ~internal'
    BY <1>1, <1>3 DEF NoCoder, coding
  <2>2. ~internal /\ (EndTold => coder.sequence # "end" \/ lastCodeResult # "OK")
    BY <1>3 DEF NoCoder, EndInv, AtEnd
  <2>3. pc \in {"chunks", "reset"} => pc' = pc
    BY <1>3 DEF NoCoder, Leave, Coding, EndInv, TypeOK, NativeTypeOK
  <2> QED
    BY <1>1, <1>2, <2>1, <2>2, <2>3 DEF EndInv, AtEnd
<1>4. CASE FetchChunk
  BY <1>1, <1>2, <1>4 DEF FetchChunk, threads, EndInv, AtEnd
<1>5. CASE coder.sequence # "end" /\ (CodeProgress \/ CodeStuck \/ CodeFails)
  <2>1. ~EndTold
    BY <1>5 DEF EndInv, AtEnd, CodeProgress, CodeStuck, CodeFails, CallsLzmaCode
  <2>2. lastCodeResult' = "STREAM_END" <=> coder'.sequence = "end"
    <3>1. CASE CodeProgress
      BY <3>1 DEF CodeProgress, AfterCode
    <3>2. CASE CodeStuck
      BY <3>2 DEF CodeStuck, AfterCode, EndInv, TypeOK, NativeTypeOK, Coder
    <3>3. CASE CodeFails
      BY <3>3 DEF CodeFails, AfterCode, EndInv, TypeOK, NativeTypeOK, Coder
    <3> QED
      BY <1>5, <3>1, <3>2, <3>3
  <2> QED
    BY <1>2, <2>1, <2>2 DEF AtEnd
<1>6. CASE CodeEnded
  <2>1. /\ coder' = coder /\ coder.sequence = "end" /\ lastCodeResult' = "STREAM_END" /\ outbufs' = outbufs
    BY <1>6 DEF CodeEnded, AfterCode, Stored
  <2>2. pc \in {"chunks", "reset"} => pc' = pc
    BY <1>6 DEF CodeEnded, AfterCode, Break, Leave, Continue, threads, CallsLzmaCode, Coding, EndInv,
       TypeOK, NativeTypeOK
  <2> QED
    BY <1>1, <1>2, <2>1, <2>2 DEF EndInv, AtEnd
<1>7. CodeProgress \/ CodeStuck => coder.sequence # "end"
  BY DEF CodeProgress, CodeStuck, Running
<1> QED
  BY <1>3, <1>4, <1>5, <1>6, <1>7 DEF DoLZMACode, CodeFails

LEMMA WorkersAtEnd ==
  ASSUME EndInv, WorkerStarts \/ WorkerThrows \/ WorkerOnOK, Native
  PROVE  AtEnd' /\ EndIsLast'
<1>1. /\ UNCHANGED <<calls, setUpAt, internal, coder, lastCodeResult, outbufs>>
      /\ pc \in {"chunks", "reset"} => pc' = pc
  BY DEF WorkerStarts, WorkerThrows, WorkerOnOK, Native, coding
<1> QED
  BY <1>1, SilentEnd DEF EndInv, AtEnd

LEMMA HandlersAtEnd ==
  ASSUME EndInv, InvokeBufferHandlers, Native
  PROVE  AtEnd' /\ EndIsLast'
<1>1. NativeTypeOK /\ setUpAt' = setUpAt /\ calls \in Seq(Call)
  BY DEF EndInv, TypeOK, NativeTypeOK, Native
<1>2. CASE HandOutput
  <2>1. BufCall(Head(outbufs)) \in Call /\ BufCall(Head(outbufs)).kind = "buf"
    BY <1>1, <1>2, CallTypes DEF HandOutput, NativeTypeOK, BufCall
  <2>2. ~EndTold
    BY <1>2 DEF HandOutput, EndInv, AtEnd
  <2>3. EndIsLast' /\ ~EndTold'
    BY <1>1, <1>2, <2>1, <2>2, CallBehindEnd DEF HandOutput
  <2> QED
    BY <1>2, <2>3 DEF HandOutput, EndInv, AtEnd
<1>3. CASE HandResult
  <2>1. ~EndTold
    BY <1>3 DEF HandResult, EndInv, AtEnd
  <2>2. PICK c \in {NullCall, ErrorCall} :
          calls' = Append(calls, c) /\ (c = NullCall <=> lastCodeResult = "STREAM_END")
    BY <1>3 DEF HandResult, NullCall, ErrorCall
  <2>3. c \in Call /\ (c.kind = "null" <=> lastCodeResult = "STREAM_END")
    <3>1. c \in Call
      BY <1>1, <2>2, CallTypes
    <3>2. CASE c = NullCall
      BY <2>2, <3>1, <3>2 DEF NullCall
    <3>3. CASE c = ErrorCall
      BY <2>2, <3>1, <3>3 DEF NullCall, ErrorCall
    <3> QED
      BY <3>2, <3>3
  <2>4. EndIsLast' /\ (EndTold' <=> c.kind = "null")
    BY <1>1, <2>1, <2>2, <2>3, CallBehindEnd
  <2>5. UNCHANGED <<internal, coder, lastCodeResult, outbufs>> /\ outbufs = <<>> /\ pc' = "chunks"
    BY <1>3 DEF HandResult, coding
  <2> QED
    BY <2>3, <2>4, <2>5 DEF EndInv, AtEnd
<1>4. CASE HandChunks \/ HandChunksBeforeReset
  <2>1. /\ NumberCall(processedChunks) \in Call /\ NumberCall(processedChunks).kind = "number"
        /\ calls' = Append(calls, NumberCall(processedChunks))
    BY <1>1, <1>4, CallTypes DEF HandChunks, HandChunksBeforeReset, NativeTypeOK, NumberCall
  <2>2. EndIsLast' /\ (EndTold' <=> EndTold)
    BY <1>1, <2>1, CallBehindEnd
  <2>3. /\ UNCHANGED <<internal, coder, lastCodeResult, outbufs>>
        /\ pc \in {"chunks", "reset"} => pc' \in {"chunks", "reset"}
    BY <1>4 DEF HandChunks, HandChunksBeforeReset
  <2> QED
    BY <2>2, <2>3 DEF EndInv, AtEnd
<1>5. CASE HandNothing
  <2>1. UNCHANGED <<calls, setUpAt, internal, coder, lastCodeResult, outbufs>> /\ pc = "outbufs"
    BY <1>1, <1>5 DEF HandNothing, coding
  <2> QED
    BY <2>1, SilentEnd DEF EndInv, AtEnd
<1>6. CASE HandReset
  <2>1. /\ UNCHANGED <<calls, setUpAt, outbufs>>
        /\ ~internal' /\ coder' = FreshCoder /\ lastCodeResult' = "OK"
    BY <1>1, <1>6 DEF HandReset, resetUnderlying
  <2> QED
    BY <2>1, SilentEnd DEF EndInv, AtEnd, FreshCoder
<1> QED
  BY <1>2, <1>3, <1>4, <1>5, <1>6 DEF InvokeBufferHandlers

LEMMA CallerAtEnd ==
  ASSUME EndInv, (\E async \in BOOLEAN : Give(async)) \/ GiveInHandler \/ SetUpAgain
  PROVE  AtEnd' /\ EndIsLast'
<1>1. CASE (\E async \in BOOLEAN : Give(async)) \/ GiveInHandler
  <2>1. /\ UNCHANGED <<calls, setUpAt, internal, coder, lastCodeResult, outbufs>>
        /\ pc \in {"chunks", "reset"} => pc' = pc
    BY <1>1 DEF Give, GiveInHandler, Code
  <2> QED
    BY <2>1, SilentEnd DEF EndInv, AtEnd
<1>2. CASE SetUpAgain
  <2>1. /\ calls' = calls /\ setUpAt' = Len(calls) /\ Len(calls) \in Nat
        /\ coder' = FreshCoder /\ lastCodeResult' = "OK"
    BY <1>2 DEF SetUpAgain, ResetUnderlying, EndInv, TypeOK, NativeTypeOK
  <2>2. (setUpAt' + 1) .. Len(calls') = {}
    BY <2>1
  <2>3. ~EndTold' /\ EndIsLast'
    BY <2>2 DEF EndTold, EndIsLast, Results
  <2> QED
    BY <2>1, <2>3 DEF AtEnd, FreshCoder
<1> QED
  BY <1>1, <1>2

(* The end of a coder is told once, behind all of its output, and nothing  *)
(* but counts comes after it, although workers that were queued before it  *)
(* still call the coder, and the lock is free while the handlers run.      *)
THEOREM EndComesLast == Spec => []EndIsLast
<1>1. Init => EndInv
  <2> SUFFICES ASSUME Init PROVE EndInv
    OBVIOUS
  <2>1. calls = <<>> /\ setUpAt = 0 /\ lastCodeResult = "OK" /\ coder = FreshCoder
    BY DEF Init, NativeInit
  <2>2. (setUpAt + 1) .. Len(calls) = {}
    BY <2>1
  <2> QED
    BY <2>1, <2>2, InitTypes DEF EndInv, AtEnd, EndTold, EndIsLast, Results, FreshCoder
<1>2. EndInv /\ [Next]_vars => EndInv'
  <2> SUFFICES ASSUME EndInv, [Next]_vars PROVE EndInv'
    OBVIOUS
  <2>1. CASE UNCHANGED vars
    <3>1. UNCHANGED <<calls, setUpAt, internal, coder, lastCodeResult, outbufs, pc>>
      BY <2>1 DEF vars, nativeVars, directVars, coding, threads
    <3>2. TypeOK'
      BY <2>1, SameJob DEF vars, nativeVars, directVars, coding, settings, locals, threads, EndInv,
         TypeOK, NativeTypeOK, File
    <3> QED
      BY <3>1, <3>2, SilentEnd DEF EndInv, AtEnd
  <2>2. CASE Native
    BY <2>2, NativeTypes, CodingAtEnd, WorkersAtEnd, HandlersAtEnd DEF EndInv, Native, NativeStep
  <2>3. CASE (\E async \in BOOLEAN : Give(async)) \/ GiveInHandler \/ SetUpAgain
    BY <2>3, CallerTypes, CallerAtEnd DEF EndInv
  <2> QED
    BY <2>1, <2>2, <2>3 DEF Next
<1>3. EndInv => EndIsLast
  BY DEF EndInv
<1> QED
  BY <1>1, <1>2, <1>3, PTL DEF Spec

-----------------------------------------------------------------------------
(* The order of the output *)

Span(chunk) == (chunk.lo + 1) .. chunk.hi
Below(S, T) == \A a \in S, b \in T : a < b

Told    == {u \in Units : \E i \in DOMAIN calls : u \in calls[i].out}
Held    == {u \in Units : \E i \in DOMAIN outbufs : u \in outbufs[i]}
Waiting == {u \in Units : \E i \in DOMAIN inbufs : u \in Span(inbufs[i])}

(* Every unit is on one of these places, and the places are in line: told, *)
(* in outbufs, in the coder, in the current chunk, in inbufs, not given.   *)
Line ==
  /\ Below(Told, Held)
  /\ Below(Told \cup Held, coder.pending)
  /\ Below(Told \cup Held \cup coder.pending, Span(inbuf))
  /\ Below(Told \cup Held \cup coder.pending \cup Span(inbuf), Waiting)
  /\ \A u \in Told \cup Held \cup coder.pending \cup Span(inbuf) \cup Waiting : u <= given

HeldInOrder == \A i, j \in DOMAIN outbufs : i < j => Below(outbufs[i], outbufs[j])
WaitingInOrder == \A i, j \in DOMAIN inbufs : i < j => Below(Span(inbufs[i]), Span(inbufs[j]))

OrderInv == TypeOK /\ OutputInOrder /\ HeldInOrder /\ WaitingInOrder /\ Line

LEMMA PlacesAreUnits ==
  ASSUME TypeOK
  PROVE  /\ Units \subseteq Nat /\ coder.pending \subseteq Units /\ given \in Nat
         /\ \A chunk \in Chunk : Span(chunk) \subseteq Units
         /\ Span(inbuf) \subseteq Units
         /\ Told \subseteq Units /\ Held \subseteq Units /\ Waiting \subseteq Units
<1>1. job \in Jobs /\ inbuf \in Chunk /\ coder.pending \subseteq Units /\ given \in Nat
  BY FileFacts DEF TypeOK, NativeTypeOK, Coder
<1>2. Units = 1 .. Len(File) /\ Len(File) \in Nat
  BY <1>1, FileFacts
<1>3. ASSUME NEW chunk \in Chunk PROVE Span(chunk) \subseteq Units
  BY <1>1, <1>2, ChunkFacts DEF Span
<1> QED
  BY <1>1, <1>2, <1>3 DEF Told, Held, Waiting

LEMMA TellInOrder ==
  ASSUME OrderInv, NEW c \in Call, calls' = Append(calls, c), job' = job, Below(Told, c.out)
  PROVE  OutputInOrder' /\ Told' = Told \cup c.out
<1>1. /\ calls \in Seq(Call) /\ Len(calls) \in Nat /\ DOMAIN calls = 1 .. Len(calls)
      /\ DOMAIN calls' = 1 .. Len(calls) + 1 /\ calls'[Len(calls) + 1] = c
      /\ \A i \in DOMAIN calls : calls'[i] = calls[i] /\ calls[i] \in Call
  BY DEF OrderInv, TypeOK, NativeTypeOK
<1>2. Units' = Units /\ c.out \subseteq Units /\ \A i \in DOMAIN calls : calls[i].out \subseteq Told
  <2>1. \A d \in Call : d.out \subseteq Units
    BY DEF Call
  <2> QED
    BY <1>1, <2>1 DEF Units, File, Told
<1>3. Told' = Told \cup c.out
  BY <1>1, <1>2 DEF Told
<1>4. ASSUME NEW i \in DOMAIN calls', NEW j \in DOMAIN calls', i < j,
             NEW a \in calls'[i].out, NEW b \in calls'[j].out
      PROVE  a < b
  <2>1. i \in DOMAIN calls /\ calls'[i] = calls[i]
    BY <1>1, <1>4
  <2>2. CASE j \in DOMAIN calls
    BY <1>1, <1>4, <2>1, <2>2 DEF OrderInv, OutputInOrder
  <2>3. CASE j \notin DOMAIN calls
    <3>1. j = Len(calls) + 1
      BY <1>1, <2>3
    <3>2. a \in Told /\ b \in c.out
      BY <1>1, <1>2, <1>4, <2>1, <3>1
    <3> QED
      BY <3>2 DEF Below
  <2> QED
    BY <2>2, <2>3
<1> QED
  BY <1>3, <1>4 DEF OutputInOrder

(* What is appended to outbufs comes behind what is in it. *)
LEMMA HoldInOrder ==
  ASSUME OrderInv, NEW out \in SUBSET Units, Below(Held, out), job' = job,
         outbufs' = Append(outbufs, out) \/ outbufs' = outbufs
  PROVE  HeldInOrder' /\ Held' \subseteq Held \cup out
<1>1. outbufs \in Seq(SUBSET Units) /\ Units' = Units
  BY DEF OrderInv, TypeOK, NativeTypeOK, Units, File
<1>2. CASE outbufs' = outbufs
  BY <1>1, <1>2 DEF OrderInv, HeldInOrder, Held
<1>3. CASE outbufs' = Append(outbufs, out)
  <2>1. /\ Len(outbufs) \in Nat /\ DOMAIN outbufs = 1 .. Len(outbufs)
        /\ DOMAIN outbufs' = 1 .. Len(outbufs) + 1 /\ outbufs'[Len(outbufs) + 1] = out
        /\ \A i \in DOMAIN outbufs : outbufs'[i] = outbufs[i] /\ outbufs[i] \subseteq Units
    BY <1>1, <1>3
  <2>2. \A i \in DOMAIN outbufs : outbufs[i] \subseteq Held
    BY <2>1 DEF Held
  <2>3. Held' \subseteq Held \cup out
    BY <1>1, <2>1 DEF Held
  <2>4. ASSUME NEW i \in DOMAIN outbufs', NEW j \in DOMAIN outbufs', i < j
        PROVE  Below(outbufs'[i], outbufs'[j])
    <3>1. i \in DOMAIN outbufs /\ outbufs'[i] = outbufs[i] /\ outbufs[i] \subseteq Held
      BY <2>1, <2>2, <2>4
    <3>2. CASE j \in DOMAIN outbufs
      BY <2>1, <2>4, <3>1, <3>2 DEF OrderInv, HeldInOrder
    <3>3. CASE j \notin DOMAIN outbufs
      <4>1. j = Len(outbufs) + 1
        BY <2>1, <3>3
      <4> QED
        BY <2>1, <3>1, <4>1 DEF Below
    <3> QED
      BY <3>2, <3>3
  <2> QED
    BY <2>3, <2>4, Zenon DEF HeldInOrder, Below
<1> QED
  BY <1>2, <1>3

(* A step that moves units along the line: what is told, held, pending and *)
(* in hand afterwards was there, or further back in the line, before.      *)
LEMMA MovedOn ==
  ASSUME TypeOK, Line, TypeOK', given' = given,
         NEW taken \in Nat, NEW out \in SUBSET Units,
         Told' = Told, Held' \subseteq Held \cup out,
         Waiting' \subseteq Waiting,
         \A u \in out \cup coder'.pending : u \in coder.pending \/ (u \in Span(inbuf) /\ u <= taken),
         Below(out, coder'.pending),
         \A u \in Span(inbuf') : u \in Span(inbuf) /\ u > taken
  PROVE  Line'
<1>1. /\ Units \subseteq Nat /\ coder.pending \subseteq Units /\ given \in Nat
      /\ Span(inbuf) \subseteq Units
      /\ Told \subseteq Units /\ Held \subseteq Units /\ Waiting \subseteq Units
  BY PlacesAreUnits
<1>2. Below(Told', Held')
  BY DEF Line, Below
<1>3. Below(Told' \cup Held', coder'.pending)
  BY DEF Line, Below
<1>4. Below(Told' \cup Held' \cup coder'.pending, Span(inbuf'))
  <2> SUFFICES ASSUME NEW a \in Told' \cup Held' \cup coder'.pending, NEW b \in Span(inbuf')
               PROVE  a < b
    BY DEF Below
  <2>1. b \in Span(inbuf) /\ b > taken /\ b \in Nat
    BY <1>1
  <2>2. CASE a \in Told \cup Held \cup coder.pending
    BY <2>1, <2>2 DEF Line, Below
  <2>3. CASE a \in Span(inbuf) /\ a <= taken
    <3>1. a \in Nat
      BY <1>1, <2>3
    <3> QED
      BY <2>1, <2>3, <3>1
  <2> QED
    BY <2>2, <2>3
<1>5. Below(Told' \cup Held' \cup coder'.pending \cup Span(inbuf'), Waiting')
  <2> SUFFICES ASSUME NEW a \in Told' \cup Held' \cup coder'.pending \cup Span(inbuf'), NEW b \in Waiting'
               PROVE  a < b
    BY DEF Below
  <2>1. a \in Told \cup Held \cup coder.pending \cup Span(inbuf) /\ b \in Waiting
    OBVIOUS
  <2> QED
    BY <2>1 DEF Line, Below
<1>6. \A u \in Told' \cup Held' \cup coder'.pending \cup Span(inbuf') \cup Waiting' : u <= given'
  BY DEF Line
<1> QED
  BY <1>2, <1>3, <1>4, <1>5, <1>6 DEF Line

(* Nothing but the queue of input changes, and what comes to it lies       *)
(* behind what was given.                                                  *)
LEMMA SameWaiting ==
  ASSUME OrderInv, job' = job, inbufs' = inbufs
  PROVE  WaitingInOrder' /\ Waiting' = Waiting
BY DEF OrderInv, WaitingInOrder, Waiting, Units, File

LEMMA SameHeld ==
  ASSUME OrderInv, job' = job, outbufs' = outbufs
  PROVE  HeldInOrder' /\ Held' = Held
BY DEF OrderInv, HeldInOrder, Held, Units, File

LEMMA SameTold ==
  ASSUME OrderInv, job' = job, calls' = calls
  PROVE  OutputInOrder' /\ Told' = Told
BY DEF OrderInv, OutputInOrder, Told, Units, File

LEMMA FetchInOrder ==
  ASSUME OrderInv, TypeOK', FetchChunk, Native
  PROVE  OrderInv'
<1>1. /\ inbufs \in Seq(Chunk) /\ inbufs # <<>> /\ inbuf' = Head(inbufs) /\ inbufs' = Tail(inbufs)
      /\ job' = job /\ calls' = calls /\ outbufs' = outbufs /\ coder' = coder /\ given' = given
  BY DEF FetchChunk, Native, settings, OrderInv, TypeOK, NativeTypeOK
<1>2. /\ OutputInOrder' /\ HeldInOrder' /\ Told' = Told /\ Held' = Held
  BY <1>1, SameTold, SameHeld
<1>3. /\ DOMAIN inbufs = 1 .. Len(inbufs) /\ Len(inbufs) \in Nat /\ 1 \in DOMAIN inbufs
      /\ inbuf' = inbufs[1] /\ inbufs[1] \in Chunk
      /\ DOMAIN inbufs' = 1 .. Len(inbufs) - 1
      /\ \A i \in DOMAIN inbufs' : inbufs'[i] = inbufs[i + 1] /\ i + 1 \in DOMAIN inbufs
  BY <1>1
<1>4. \A i, j \in DOMAIN inbufs' : i < j => i + 1 < j + 1
  BY <1>3
<1>5. WaitingInOrder'
  BY <1>3, <1>4 DEF OrderInv, WaitingInOrder
<1>6. Span(inbuf') \subseteq Waiting /\ Waiting' \subseteq Waiting
  <2>1. Span(inbufs[1]) \subseteq Units /\ Units' = Units
    BY <1>1, <1>3, PlacesAreUnits DEF OrderInv, Units, File
  <2> QED
    BY <1>3, <2>1 DEF Waiting
<1>7. Below(Span(inbuf'), Waiting')
  <2> SUFFICES ASSUME NEW a \in Span(inbuf'), NEW b \in Waiting' PROVE a < b
    BY DEF Below
  <2>1. PICK i \in DOMAIN inbufs' : b \in Span(inbufs'[i])
    BY DEF Waiting
  <2>2. i + 1 \in DOMAIN inbufs /\ 1 < i + 1 /\ b \in Span(inbufs[i + 1])
    BY <1>3, <2>1
  <2> QED
    BY <1>3, <2>2 DEF OrderInv, WaitingInOrder, Below
<1>8. Line'
  BY <1>1, <1>2, <1>6, <1>7 DEF OrderInv, Line, Below
<1> QED
  BY <1>2, <1>5, <1>8 DEF OrderInv

(* One call of lzma_code: it takes k units and gives out what comes first. *)
LEMMA CodedInOrder ==
  ASSUME OrderInv, TypeOK', Native, CallsLzmaCode,
         NEW k \in 0 .. Size(inbuf), NEW out \in SUBSET Units, NEW ret, AfterCode(k, out, ret),
         out \cup coder'.pending \subseteq Pool(k), Below(out, coder'.pending)
  PROVE  OrderInv'
<1>1. /\ inbuf \in Chunk /\ inbuf.lo \in Nat /\ inbuf.hi \in Nat /\ inbuf.lo + k \in Nat
      /\ k \in Nat
  <2>1. job \in Jobs /\ inbuf \in Chunk
    BY DEF OrderInv, TypeOK, NativeTypeOK
  <2>2. inbuf.lo \in Nat /\ inbuf.hi \in Nat
    BY <2>1, ChunkFacts
  <2> QED
    BY <2>1, <2>2
<1>2. /\ inbufs' = inbufs /\ calls' = calls /\ job' = job /\ given' = given
      /\ outbufs' = Append(outbufs, out) \/ outbufs' = outbufs
  BY DEF AfterCode, Native, settings
<1>3. /\ WaitingInOrder' /\ Waiting' = Waiting /\ OutputInOrder' /\ Told' = Told
  BY <1>2, SameWaiting, SameTold
<1>4. \A u \in Pool(k) : u \in coder.pending \/ (u \in Span(inbuf) /\ u <= inbuf.lo + k)
  <2> SUFFICES ASSUME NEW u \in ((inbuf.lo + 1) .. (inbuf.lo + k)) \cap Payload
               PROVE  u \in Span(inbuf) /\ u <= inbuf.lo + k
    BY DEF Pool
  <2> QED
    BY <1>1 DEF Span, Size
<1>5. Below(Held, out)
  BY <1>4 DEF OrderInv, Line, Below
<1>6. HeldInOrder' /\ Held' \subseteq Held \cup out
  BY <1>2, <1>5, HoldInOrder
<1>7. \A u \in Span(inbuf') : u \in Span(inbuf) /\ u > inbuf.lo + k
  <2>1. CASE inbuf' = NoInput
    BY <2>1 DEF Span, NoInput
  <2>2. CASE inbuf' = [inbuf EXCEPT !.lo = inbuf.lo + k]
    <3>1. inbuf'.lo = inbuf.lo + k /\ inbuf'.hi = inbuf.hi
      BY <1>1, <2>2 DEF Chunk
    <3> QED
      BY <1>1, <3>1 DEF Span
  <2> QED
    BY <2>1, <2>2 DEF AfterCode, Break, Leave, Continue
<1>8. Line'
  BY <1>1, <1>2, <1>3, <1>4, <1>6, <1>7, MovedOn DEF OrderInv
<1> QED
  BY <1>3, <1>6, <1>8 DEF OrderInv

LEMMA CodingInOrder ==
  ASSUME OrderInv, TypeOK', DoLZMACode, Native
  PROVE  OrderInv'
<1>1. 0 \in 0 .. Size(inbuf) /\ coder \in Coder
  <2>1. job \in Jobs /\ inbuf \in Chunk /\ coder \in Coder
    BY DEF OrderInv, TypeOK, NativeTypeOK
  <2>2. Size(inbuf) \in Nat
    BY <2>1, ChunkFacts
  <2> QED
    BY <2>1, <2>2
<1>2. CASE NoCoder
  <2>1. /\ UNCHANGED <<inbufs, outbufs, coder, calls, job, given>> /\ inbuf' = NoInput
    BY <1>2 DEF NoCoder, Leave, coding, settings, Native
  <2>2. /\ WaitingInOrder' /\ Waiting' = Waiting /\ HeldInOrder' /\ Held' = Held
        /\ OutputInOrder' /\ Told' = Told
    BY <2>1, SameWaiting, SameHeld, SameTold
  <2>3. Span(inbuf') = {}
    BY <2>1 DEF Span, NoInput
  <2> QED
    BY <2>1, <2>2, <2>3 DEF OrderInv, Line, Below
<1>3. CASE CodeProgress
  <2>1. PICK k \in Takes(coder, inbuf) : \E out \in Emissions(Pool(k)), ret \in {"OK", "STREAM_END"} :
          coder'.pending = Pool(k) \ out /\ AfterCode(k, out, ret)
    BY <1>3 DEF CodeProgress
  <2>2. PICK out \in Emissions(Pool(k)), ret \in {"OK", "STREAM_END"} :
          coder'.pending = Pool(k) \ out /\ AfterCode(k, out, ret)
    BY <2>1
  <2>3. k \in 0 .. Size(inbuf)
    BY DEF Takes
  <2>4. out \in SUBSET Pool(k) /\ Below(out, coder'.pending) /\ Pool(k) \in SUBSET Units
    BY <2>2, PoolType DEF Emissions, Below, OrderInv, TypeOK
  <2>5. CallsLzmaCode
    BY <1>3 DEF CodeProgress
  <2> QED
    BY <2>2, <2>3, <2>4, <2>5, CodedInOrder
<1>4. CASE CodeStuck \/ CodeFails \/ CodeEnded
  <2>1. coder'.pending = coder.pending /\ CallsLzmaCode /\ \E ret : AfterCode(0, {}, ret)
    BY <1>1, <1>4 DEF CodeStuck, CodeFails, CodeEnded, Coder
  <2>2. {} \cup coder'.pending \subseteq Pool(0) /\ Below({}, coder'.pending)
    BY <2>1 DEF Pool, Below
  <2> QED
    BY <1>1, <2>1, <2>2, CodedInOrder
<1> QED
  BY <1>2, <1>3, <1>4, FetchInOrder DEF DoLZMACode

LEMMA WorkersInOrder ==
  ASSUME OrderInv, TypeOK', WorkerStarts \/ WorkerThrows \/ WorkerOnOK, Native
  PROVE  OrderInv'
<1>1. UNCHANGED <<inbufs, outbufs, coder, calls, job, given, inbuf>>
  BY DEF WorkerStarts, WorkerThrows, WorkerOnOK, coding, settings, locals, Native
<1>2. /\ WaitingInOrder' /\ Waiting' = Waiting /\ HeldInOrder' /\ Held' = Held
      /\ OutputInOrder' /\ Told' = Told
  BY <1>1, SameWaiting, SameHeld, SameTold
<1> QED
  BY <1>1, <1>2 DEF OrderInv, Line, Below

LEMMA HandlersInOrder ==
  ASSUME OrderInv, TypeOK', InvokeBufferHandlers, Native
  PROVE  OrderInv'
<1>1. NativeTypeOK /\ Units \subseteq Nat /\ Told \subseteq Units /\ Held \subseteq Units
  BY PlacesAreUnits DEF OrderInv, TypeOK
<1>2. /\ UNCHANGED <<inbufs, job, given, inbuf>>
      /\ coder' = coder \/ coder' = FreshCoder
  BY DEF InvokeBufferHandlers, HandOutput, HandResult, HandChunks, HandNothing, HandChunksBeforeReset,
     HandReset, resetUnderlying, coding, settings, locals, Native
<1>3. coder'.pending \subseteq coder.pending
  BY <1>2 DEF FreshCoder
<1>4. WaitingInOrder' /\ Waiting' = Waiting
  BY <1>2, SameWaiting
<1>5. CASE HandOutput
  <2>1. /\ outbufs \in Seq(SUBSET Units) /\ outbufs # <<>>
        /\ outbufs' = Tail(outbufs) /\ calls' = Append(calls, BufCall(Head(outbufs)))
    BY <1>1, <1>5 DEF HandOutput, NativeTypeOK
  <2>2. /\ Len(outbufs) \in Nat /\ DOMAIN outbufs = 1 .. Len(outbufs) /\ 1 \in DOMAIN outbufs
        /\ Head(outbufs) = outbufs[1] /\ outbufs[1] \in SUBSET Units
        /\ DOMAIN outbufs' = 1 .. Len(outbufs) - 1
        /\ \A i \in DOMAIN outbufs' : outbufs'[i] = outbufs[i + 1] /\ i + 1 \in DOMAIN outbufs
    BY <2>1
  <2>3. BufCall(outbufs[1]) \in Call /\ BufCall(outbufs[1]).out = outbufs[1]
    BY <1>1, <2>2, CallTypes DEF BufCall
  <2>4. outbufs[1] \subseteq Held
    BY <2>2 DEF Held
  <2>5. Below(Told, outbufs[1])
    BY <2>4 DEF OrderInv, Line, Below
  <2>6. OutputInOrder' /\ Told' = Told \cup outbufs[1]
    BY <1>2, <2>1, <2>2, <2>3, <2>5, TellInOrder
  <2>7. HeldInOrder'
    <3>1. \A i, j \in DOMAIN outbufs' : i < j => i + 1 < j + 1
      BY <2>2
    <3> QED
      BY <2>2, <3>1 DEF OrderInv, HeldInOrder
  <2>8. Held' \subseteq Held
    <3>1. Units' = Units
      BY <1>2 DEF Units, File
    <3> QED
      BY <2>2, <3>1 DEF Held
  <2>9. Below(outbufs[1], Held')
    <3> SUFFICES ASSUME NEW a \in outbufs[1], NEW b \in Held' PROVE a < b
      BY DEF Below
    <3>1. PICK i \in DOMAIN outbufs' : b \in outbufs'[i]
      BY DEF Held
    <3>2. i + 1 \in DOMAIN outbufs /\ 1 < i + 1 /\ b \in outbufs[i + 1]
      BY <2>2, <3>1
    <3> QED
      BY <2>2, <3>2 DEF OrderInv, HeldInOrder, Below
  <2>10. Line'
    BY <1>2, <1>3, <1>4, <2>4, <2>6, <2>8, <2>9 DEF OrderInv, Line, Below
  <2> QED
    BY <1>4, <2>6, <2>7, <2>10 DEF OrderInv
<1>6. CASE ~HandOutput
  <2>1. /\ outbufs' = outbufs
        /\ calls' = calls \/ \E c \in Call : c.out = {} /\ calls' = Append(calls, c)
    <3>1. /\ NullCall \in Call /\ ErrorCall \in Call /\ NumberCall(processedChunks) \in Call
          /\ NullCall.out = {} /\ ErrorCall.out = {} /\ NumberCall(processedChunks).out = {}
      BY <1>1, CallTypes DEF NativeTypeOK, NullCall, ErrorCall, NumberCall
    <3> QED
      BY <1>6, <3>1 DEF InvokeBufferHandlers, HandResult, HandChunks, HandNothing,
         HandChunksBeforeReset, HandReset, coding
  <2>2. HeldInOrder' /\ Held' = Held
    BY <1>2, <2>1, SameHeld
  <2>3. OutputInOrder' /\ Told' = Told
    <3>1. CASE calls' = calls
      BY <1>2, <3>1, SameTold
    <3>2. ASSUME NEW c \in Call, c.out = {}, calls' = Append(calls, c)
          PROVE  OutputInOrder' /\ Told' = Told
      <4>1. Below(Told, c.out)
        BY <3>2 DEF Below
      <4> QED
        BY <1>2, <3>2, <4>1, TellInOrder
    <3> QED
      BY <2>1, <3>1, <3>2
  <2>4. Line'
    BY <1>2, <1>3, <1>4, <2>2, <2>3 DEF OrderInv, Line, Below
  <2> QED
    BY <1>4, <2>2, <2>3, <2>4 DEF OrderInv
<1> QED
  BY <1>5, <1>6

(* The caller goes on where the last chunk ended. *)
LEMMA GivenInOrder ==
  ASSUME OrderInv, TypeOK', NEW chunk \in Chunk, given' \in Nat, job' = job,
         given <= given', \A u \in Span(chunk) : given < u /\ u <= given',
         inbufs' = Append(inbufs, chunk), UNCHANGED <<outbufs, coder, calls, inbuf>>
  PROVE  OrderInv'
<1>1. /\ inbufs \in Seq(Chunk) /\ Units' = Units
      /\ Units \subseteq Nat /\ coder.pending \subseteq Units /\ Span(inbuf) \subseteq Units
      /\ Told \subseteq Units /\ Held \subseteq Units /\ Waiting \subseteq Units
      /\ Span(chunk) \subseteq Units /\ given \in Nat
  BY PlacesAreUnits DEF OrderInv, TypeOK, NativeTypeOK, Units, File
<1>2. /\ HeldInOrder' /\ Held' = Held /\ OutputInOrder' /\ Told' = Told
  BY SameHeld, SameTold
<1>3. /\ Len(inbufs) \in Nat /\ DOMAIN inbufs = 1 .. Len(inbufs)
      /\ DOMAIN inbufs' = 1 .. Len(inbufs) + 1 /\ inbufs'[Len(inbufs) + 1] = chunk
      /\ \A i \in DOMAIN inbufs : inbufs'[i] = inbufs[i] /\ inbufs[i] \in Chunk
  BY <1>1
<1>4. \A i \in DOMAIN inbufs : Span(inbufs[i]) \subseteq Waiting
  <2>1. \A i \in DOMAIN inbufs : Span(inbufs[i]) \subseteq Units
    BY <1>3, PlacesAreUnits DEF OrderInv
  <2> QED
    BY <2>1 DEF Waiting
<1>5. Waiting' \subseteq Waiting \cup Span(chunk)
  BY <1>1, <1>3 DEF Waiting
<1>6. \A a \in Told \cup Held \cup coder.pending \cup Span(inbuf) \cup Waiting, b \in Span(chunk) : a < b
  <2> SUFFICES ASSUME NEW a \in Told \cup Held \cup coder.pending \cup Span(inbuf) \cup Waiting,
                      NEW b \in Span(chunk)
               PROVE  a < b
    OBVIOUS
  <2>1. a \in Nat /\ b \in Nat /\ given < b
    BY <1>1
  <2>2. a <= given
    BY DEF OrderInv, Line
  <2> QED
    BY <1>1, <2>1, <2>2
<1>7. WaitingInOrder'
  <2> SUFFICES ASSUME NEW i \in DOMAIN inbufs', NEW j \in DOMAIN inbufs', i < j
               PROVE  Below(Span(inbufs'[i]), Span(inbufs'[j]))
    BY DEF WaitingInOrder, Below
  <2>1. i \in DOMAIN inbufs /\ inbufs'[i] = inbufs[i]
    BY <1>3
  <2>2. CASE j \in DOMAIN inbufs
    BY <1>3, <2>1, <2>2 DEF OrderInv, WaitingInOrder
  <2>3. CASE j \notin DOMAIN inbufs
    <3>1. inbufs'[j] = chunk
      BY <1>3, <2>3
    <3> QED
      BY <1>4, <1>6, <2>1, <3>1 DEF Below
  <2> QED
    BY <2>2, <2>3
<1>8. \A u \in Told \cup Held \cup coder.pending \cup Span(inbuf) \cup Waiting : u <= given'
  BY <1>1 DEF OrderInv, Line
<1>9. Line'
  <2>1. \A u \in Told' \cup Held' \cup coder'.pending \cup Span(inbuf') \cup Waiting' : u <= given'
    BY <1>2, <1>5, <1>8
  <2>2. Below(Told' \cup Held' \cup coder'.pending \cup Span(inbuf'), Waiting')
    BY <1>2, <1>5, <1>6 DEF OrderInv, Line, Below
  <2> QED
    BY <1>2, <2>1, <2>2 DEF OrderInv, Line, Below
<1> QED
  BY <1>2, <1>7, <1>9 DEF OrderInv

LEMMA CallerInOrder ==
  ASSUME OrderInv, TypeOK', (\E async \in BOOLEAN : Give(async)) \/ GiveInHandler \/ SetUpAgain
  PROVE  OrderInv'
<1>1. job \in Jobs /\ given \in 0 .. Len(File) /\ Len(File) \in Nat /\ given \in Nat
  BY FileFacts DEF OrderInv, TypeOK, NativeTypeOK
<1>2. ASSUME NEW cut \in job.cuts, given < cut, given' = cut, job' = job,
             inbufs' = Append(inbufs, [lo |-> given, hi |-> cut]),
             UNCHANGED <<outbufs, coder, calls, inbuf>>
      PROVE  OrderInv'
  <2>1. cut \in Nat /\ cut <= Len(File)
    BY <1>1, JobsAssumption DEF IsJob, File
  <2>2. [lo |-> given, hi |-> cut] \in Chunk
    BY <1>1, <1>2, <2>1, MakeChunk
  <2>3. \A u \in Span([lo |-> given, hi |-> cut]) : given < u /\ u <= cut
    BY <1>1, <2>1 DEF Span
  <2> QED
    BY <1>1, <1>2, <2>1, <2>2, <2>3, GivenInOrder
<1>3. ASSUME NEW async \in BOOLEAN, Give(async) PROVE OrderInv'
  <2>1. CASE given' = given /\ Code(NoInput, async)
    <3>1. \A u \in Span(NoInput) : FALSE
      BY DEF Span, NoInput
    <3>2. /\ UNCHANGED <<outbufs, coder, calls, inbuf, job>> /\ inbufs' = Append(inbufs, NoInput)
      BY <1>3, <2>1 DEF Give, Code, locals
    <3>3. NoInput \in Chunk
      BY <1>1, NoInputChunk
    <3> QED
      BY <1>1, <2>1, <3>1, <3>2, <3>3, GivenInOrder
  <2>2. ASSUME NEW cut \in job.cuts, given < cut, given' = cut, Code([lo |-> given, hi |-> cut], async)
        PROVE  OrderInv'
    <3>1. /\ UNCHANGED <<outbufs, coder, calls, inbuf, job>>
          /\ inbufs' = Append(inbufs, [lo |-> given, hi |-> cut])
      BY <1>3, <2>2 DEF Give, Code, locals
    <3> QED
      BY <1>2, <2>2, <3>1
  <2> QED
    BY <1>3, <2>1, <2>2 DEF Give
<1>4. CASE GiveInHandler
  BY <1>2, <1>4 DEF GiveInHandler, settings, locals
<1>5. CASE SetUpAgain
  <2>1. /\ UNCHANGED <<inbufs, outbufs, calls, job, given, inbuf>> /\ coder'.pending = {}
    BY <1>5 DEF SetUpAgain, ResetUnderlying, settings, locals, FreshCoder
  <2>2. /\ WaitingInOrder' /\ Waiting' = Waiting /\ HeldInOrder' /\ Held' = Held
        /\ OutputInOrder' /\ Told' = Told
    BY <2>1, SameWaiting, SameHeld, SameTold
  <2> QED
    BY <2>1, <2>2 DEF OrderInv, Line, Below
<1> QED
  BY <1>3, <1>4, <1>5

(* Output is handed over in the order of the input and never twice: across *)
(* workers that code in turn, code() inside a handler, failures and new    *)
(* coders for the members that follow.                                     *)
THEOREM OutputComesInOrder == Spec => []OutputInOrder
<1>1. Init => OrderInv
  <2> SUFFICES ASSUME Init PROVE OrderInv
    OBVIOUS
  <2>1. /\ TypeOK /\ calls = <<>> /\ outbufs = <<>> /\ inbufs = <<>> /\ inbuf = NoInput
        /\ coder.pending = {}
    BY InitTypes DEF Init, NativeInit, FreshCoder
  <2>2. Told = {} /\ Held = {} /\ Waiting = {} /\ Span(inbuf) = {}
    BY <2>1 DEF Told, Held, Waiting, Span, NoInput
  <2> QED
    BY <2>1, <2>2 DEF OrderInv, OutputInOrder, HeldInOrder, WaitingInOrder, Line, Below
<1>2. OrderInv /\ [Next]_vars => OrderInv'
  <2> SUFFICES ASSUME OrderInv, [Next]_vars PROVE OrderInv'
    OBVIOUS
  <2>1. CASE UNCHANGED vars
    <3>1. UNCHANGED <<inbufs, outbufs, coder, calls, job, given, inbuf>>
      BY <2>1 DEF vars, nativeVars, directVars, coding, settings, locals
    <3>2. TypeOK'
      BY <2>1, SameJob DEF vars, nativeVars, directVars, coding, settings, locals, threads, OrderInv,
         TypeOK, NativeTypeOK, File
    <3>3. /\ WaitingInOrder' /\ Waiting' = Waiting /\ HeldInOrder' /\ Held' = Held
          /\ OutputInOrder' /\ Told' = Told
      BY <3>1, SameWaiting, SameHeld, SameTold
    <3> QED
      BY <3>1, <3>2, <3>3 DEF OrderInv, Line
  <2>2. CASE Native
    BY <2>2, NativeTypes, CodingInOrder, WorkersInOrder, HandlersInOrder
    DEF OrderInv, Native, NativeStep
  <2>3. CASE (\E async \in BOOLEAN : Give(async)) \/ GiveInHandler \/ SetUpAgain
    BY <2>3, CallerTypes, CallerInOrder DEF OrderInv
  <2> QED
    BY <2>1, <2>2, <2>3 DEF Next
<1>3. OrderInv => OutputInOrder
  BY DEF OrderInv
<1> QED
  BY <1>1, <1>2, <1>3, PTL DEF Spec

-----------------------------------------------------------------------------
(* No chunk is left behind *)

(* Who holds the lock across steps, and where the main thread is then. *)
LockHeld ==
  /\ pc = "coding" => mutex = "main"
  /\ mutex = "main" => pc \in {"coding", "outbufs", "chunks", "reset"}

(* The coding loop returns without a chunk in hand. *)
HandsEmpty ==
  /\ ~Coding => readChunks = 0
  /\ readChunks = 0 => inbuf = NoInput

(* A worker for each chunk that waits, unless one that codes has read more *)
(* than its own.                                                           *)
WorkersSuffice ==
  NoResultYet =>
    \/ Len(inbufs) <= workers
    \/ Coding /\ readChunks = 0 /\ Len(inbufs) <= workers + 1

(* What was read is counted for an OnOK that is to come, or for handlers   *)
(* that run already.                                                       *)
CountsReported == NoResultYet /\ processedChunks > 0 => finished > 0 \/ pc = "outbufs"

VectorFits == bufsize = InitialBufsize /\ pc # "aborted"

Attended == LockHeld /\ HandsEmpty /\ WorkersSuffice /\ CountsReported /\ VectorFits

(* A result that was told stays told. *)
LEMMA ResultsStay ==
  ASSUME TypeOK, Next, NoResultYet'
  PROVE  NoResultYet
<1>1. CASE calls' = calls
  BY <1>1 DEF NoResultYet
<1>2. ASSUME NEW c \in Call, calls' = Append(calls, c) PROVE NoResultYet
  BY <1>2, OneMoreCall DEF TypeOK, NativeTypeOK
<1>3. Native => calls' = calls \/ \E c \in Call : calls' = Append(calls, c)
  BY NativeCalls DEF Native, TypeOK
<1> QED
  BY <1>1, <1>2, <1>3 DEF Next, Give, GiveInHandler, SetUpAgain

(* The coding loop returns. *)
LEMMA LeavesAttended ==
  ASSUME IInv, Attended, Coding, Leave, bufsize' = bufsize,
         NoResultYet' => NoResultYet /\ Len(inbufs') <= workers
  PROVE  Attended'
<1>1. /\ inbuf' = NoInput /\ readChunks' = 0 /\ workers' = workers
      /\ finished \in Nat /\ workers \in Nat
      /\ \/ mutex = "worker" /\ mutex' = "free" /\ finished' = finished + 1 /\ pc' = pc
         \/ mutex = "main" /\ pc' = "outbufs" /\ mutex' = mutex /\ finished' = finished
  BY DEF Leave, IInv, TypeOK, NativeTypeOK
<1>2. LockHeld' /\ VectorFits'
  BY <1>1 DEF Attended, LockHeld, VectorFits
<1>3. HandsEmpty' /\ WorkersSuffice'
  BY <1>1 DEF HandsEmpty, WorkersSuffice
<1>4. CountsReported'
  <2>1. finished' > 0 \/ pc' = "outbufs"
    BY <1>1
  <2> QED
    BY <2>1 DEF CountsReported
<1> QED
  BY <1>2, <1>3, <1>4 DEF Attended

LEMMA CodingAttended ==
  ASSUME IInv, Attended, DoLZMACode, NoResultYet' => NoResultYet
  PROVE  Attended'
<1>1. bufsize' = bufsize /\ Coding
  BY DEF DoLZMACode, NoCoder, FetchChunk, CodeProgress, CodeStuck, CodeFails, CodeEnded, AfterCode,
     CallsLzmaCode, settings
<1>2. CASE NoCoder
  <2>1. ~NoResultYet
    BY <1>2 DEF NoCoder, IInv, BehindResult
  <2> QED
    BY <1>1, <1>2, <2>1, LeavesAttended DEF NoCoder
<1>3. CASE FetchChunk
  <2>1. /\ UNCHANGED <<mutex, workers, finished, pc, processedChunks>> /\ readChunks' = readChunks + 1
        /\ inbufs # <<>> /\ inbufs' = Tail(inbufs)
    BY <1>3 DEF FetchChunk, threads
  <2>2. Coding' /\ readChunks \in Nat /\ workers \in Nat /\ Len(inbufs) \in Nat /\ Len(inbufs') + 1 = Len(inbufs)
    BY <1>1, <2>1 DEF Coding, IInv, TypeOK, NativeTypeOK
  <2>3. LockHeld' /\ VectorFits' /\ HandsEmpty'
    BY <1>1, <2>1, <2>2 DEF Attended, LockHeld, VectorFits, HandsEmpty
  <2>4. WorkersSuffice'
    <3> DEFINE ins == Len(inbufs)
               ins1 == Len(inbufs')
    <3>1. NoResultYet' => ins <= workers \/ ins <= workers + 1
      BY DEF Attended, WorkersSuffice
    <3>2. ins \in Nat /\ ins1 + 1 = ins /\ workers \in Nat /\ ins1 \in Nat
      BY <2>2, <2>1 DEF IInv, TypeOK, NativeTypeOK
    <3>3. NoResultYet' => ins1 <= workers
      <4> HIDE DEF ins, ins1
      <4> QED
        BY <3>1, <3>2
    <3> QED
      BY <2>1, <3>3 DEF WorkersSuffice
  <2>5. CountsReported'
    BY <2>1 DEF Attended, CountsReported
  <2> QED
    BY <2>3, <2>4, <2>5 DEF Attended
<1>4. ASSUME CallsLzmaCode, NEW k \in 0 .. Size(inbuf), NEW out, NEW ret, AfterCode(k, out, ret)
      PROVE  Attended'
  <2>1. inbufs' = inbufs
    BY <1>4 DEF AfterCode
  <2>2. readChunks = 0 => inbufs = <<>> /\ Size(inbuf) = 0
    BY <1>4 DEF CallsLzmaCode, Attended, HandsEmpty, NoInput, Empty, Size
  <2>3. workers \in Nat /\ Len(inbufs) \in Nat /\ readChunks \in Nat
    BY DEF IInv, TypeOK, NativeTypeOK
  <2>4. NoResultYet => Len(inbufs) <= workers
    <3>1. readChunks = 0 => Len(inbufs) = 0
      BY <2>2
    <3> QED
      BY <2>3, <3>1 DEF Attended, WorkersSuffice
  <2>5. CASE Break
    <3>1. Leave /\ (NoResultYet' => NoResultYet /\ Len(inbufs') <= workers)
      BY <2>1, <2>4, <2>5 DEF Break
    <3> QED
      BY <1>1, <3>1, LeavesAttended
  <2>6. CASE Continue(k)
    <3>1. UNCHANGED <<readChunks, processedChunks, mutex, workers, finished, pc>>
      BY <2>6 DEF Continue, threads
    <3>2. readChunks = 0 => inbuf' = NoInput
      <4>1. SUFFICES ASSUME readChunks = 0 PROVE inbuf' = NoInput
        OBVIOUS
      <4>2. k = 0 /\ inbuf = NoInput
        BY <2>2, <4>1 DEF Attended, HandsEmpty
      <4> QED
        BY <2>6, <4>2 DEF Continue, NoInput
    <3>3. LockHeld' /\ VectorFits' /\ HandsEmpty'
      BY <1>1, <3>1, <3>2 DEF Attended, LockHeld, VectorFits, HandsEmpty, Coding
    <3>4. WorkersSuffice' /\ CountsReported'
      BY <2>1, <2>4, <3>1 DEF Attended, WorkersSuffice, CountsReported
    <3> QED
      BY <3>3, <3>4 DEF Attended
  <2> QED
    BY <1>4, <2>5, <2>6 DEF AfterCode
<1>5. ASSUME CodeProgress \/ CodeStuck \/ CodeFails \/ CodeEnded
      PROVE  CallsLzmaCode /\ \E k \in 0 .. Size(inbuf) : \E out, ret : AfterCode(k, out, ret)
  <2>1. 0 \in 0 .. Size(inbuf)
    BY ChunkFacts DEF IInv, TypeOK, NativeTypeOK
  <2>2. CASE CodeProgress
    BY <2>2 DEF CodeProgress, Takes
  <2>3. CASE CodeStuck \/ CodeFails \/ CodeEnded
    BY <2>1, <2>3 DEF CodeStuck, CodeFails, CodeEnded
  <2> QED
    BY <1>5, <2>2, <2>3
<1> QED
  BY <1>2, <1>3, <1>4, <1>5 DEF DoLZMACode

LEMMA WorkersAttended ==
  ASSUME IInv, Attended, WorkerStarts \/ WorkerThrows \/ WorkerOnOK
  PROVE  Attended'
<1>1. /\ UNCHANGED <<inbufs, processedChunks, bufsize, inbuf, readChunks, calls>>
      /\ NoResultYet' = NoResultYet
  BY DEF WorkerStarts, WorkerThrows, WorkerOnOK, coding, settings, locals, NoResultYet
<1>2. workers \in Nat /\ finished \in Nat /\ Len(inbufs) \in Nat
  BY DEF IInv, TypeOK, NativeTypeOK
<1>3. CASE WorkerStarts
  <2>1. ~Coding /\ Coding'
    BY <1>3 DEF WorkerStarts, Attended, LockHeld, Coding
  <2>2. readChunks = 0 /\ inbuf = NoInput
    BY <2>1 DEF Attended, HandsEmpty
  <2>3. workers' = workers - 1 /\ workers > 0 /\ mutex' = "worker" /\ UNCHANGED <<finished, pc>>
    BY <1>3 DEF WorkerStarts
  <2>4. LockHeld' /\ VectorFits' /\ HandsEmpty' /\ CountsReported'
    BY <1>1, <1>3, <2>1, <2>2, <2>3
    DEF Attended, LockHeld, VectorFits, HandsEmpty, CountsReported, WorkerStarts
  <2>5. NoResultYet' => Len(inbufs') <= workers' + 1
    BY <1>1, <1>2, <2>1, <2>3 DEF Attended, WorkersSuffice
  <2> QED
    BY <1>1, <2>1, <2>2, <2>4, <2>5 DEF Attended, WorkersSuffice
<1>4. CASE WorkerThrows
  BY <1>4, SizeAssumption DEF WorkerThrows, Attended, VectorFits
<1>5. CASE WorkerOnOK
  <2>1. Coding' = Coding /\ pc' = "outbufs" /\ UNCHANGED <<mutex, workers>> /\ mutex # "main"
    BY <1>5 DEF WorkerOnOK, Attended, LockHeld, Coding
  <2> QED
    BY <1>1, <2>1
    DEF Attended, LockHeld, VectorFits, HandsEmpty, WorkersSuffice, CountsReported
<1> QED
  BY <1>3, <1>4, <1>5

LEMMA HandlersAttended ==
  ASSUME IInv, Attended, InvokeBufferHandlers, NoResultYet' => NoResultYet
  PROVE  Attended'
<1>1. /\ UNCHANGED <<inbufs, bufsize, inbuf, readChunks, workers, finished>>
      /\ pc \in {"outbufs", "chunks", "reset"} /\ mutex \in {"main", "free"}
      /\ pc' \in {"idle", "outbufs", "chunks", "reset"}
      /\ mutex' = mutex \/ (pc' = "idle" /\ mutex' = "free")
      /\ pc' = "idle" => mutex' = "free"
  BY DEF InvokeBufferHandlers, HandOutput, HandResult, HandChunks, HandNothing,
     HandChunksBeforeReset, HandReset, HandlersReturn, Locked, coding, settings, locals, threads
<1>2. ~Coding /\ ~Coding'
  BY <1>1 DEF Coding
<1>3. LockHeld' /\ VectorFits' /\ HandsEmpty'
  BY <1>1, <1>2 DEF Attended, LockHeld, VectorFits, HandsEmpty
<1>4. WorkersSuffice'
  BY <1>1, <1>2 DEF Attended, WorkersSuffice
<1>5. CountsReported'
  <2>1. CASE HandOutput
    BY <2>1 DEF HandOutput, threads, CountsReported
  <2>2. CASE HandResult
    <3>1. ~NoResultYet'
      BY <2>2, CallTypes, OneMoreCall DEF HandResult, NullCall, ErrorCall, IInv, TypeOK, NativeTypeOK
    <3> QED
      BY <3>1 DEF CountsReported
  <2>3. CASE HandChunks \/ HandNothing \/ HandChunksBeforeReset \/ HandReset
    <3>1. processedChunks' = 0
      BY <2>3 DEF HandChunks, HandNothing, HandChunksBeforeReset, HandReset, resetUnderlying, coding
    <3> QED
      BY <3>1 DEF CountsReported
  <2> QED
    BY <2>1, <2>2, <2>3 DEF InvokeBufferHandlers
<1> QED
  BY <1>3, <1>4, <1>5 DEF Attended

LEMMA CallerAttended ==
  ASSUME IInv, Attended, (\E async \in BOOLEAN : Give(async)) \/ GiveInHandler \/ SetUpAgain
  PROVE  Attended'
<1>1. calls' = calls /\ (NoResultYet' <=> NoResultYet)
  BY DEF Give, GiveInHandler, SetUpAgain, NoResultYet
<1>2. /\ UNCHANGED <<inbuf, readChunks, bufsize, finished>> /\ ~Coding
      /\ workers \in Nat /\ Len(inbufs) \in Nat
  <2>1. workers \in Nat /\ Len(inbufs) \in Nat
    BY DEF IInv, TypeOK, NativeTypeOK
  <2>2. CASE \E async \in BOOLEAN : Give(async)
    <3>1. \E chunk, async : Code(chunk, async)
      BY <2>2 DEF Give
    <3> QED
      BY <2>1, <3>1, SizeAssumption DEF Code, locals, Coding, Attended, VectorFits
  <2>3. CASE GiveInHandler
    BY <2>1, <2>3 DEF GiveInHandler, locals, settings, Coding
  <2>4. CASE SetUpAgain
    BY <2>1, <2>4 DEF SetUpAgain, ResetUnderlying, CanCall, locals, settings, threads, Coding
  <2> QED
    BY <2>2, <2>3, <2>4
<1>3. readChunks = 0 /\ inbuf = NoInput /\ (NoResultYet => Len(inbufs) <= workers)
  BY <1>2 DEF Attended, HandsEmpty, WorkersSuffice
<1>4. CASE (\E async \in BOOLEAN : Give(async)) \/ GiveInHandler
  <2>1. PICK chunk : inbufs' = Append(inbufs, chunk)
    BY <1>4 DEF Give, GiveInHandler, Code
  <2>2. Len(inbufs') = Len(inbufs) + 1
    BY <2>1 DEF IInv, TypeOK, NativeTypeOK
  <2>3. ~(bufsize > MaxVector)
    BY SizeAssumption DEF Attended, VectorFits
  <2>4. /\ processedChunks' = processedChunks
        /\ \/ workers' = workers + 1 /\ mutex' = mutex /\ pc' = pc
           \/ workers' = workers /\ mutex' = "main" /\ pc' = "coding" /\ pc = "idle"
    <3>1. CASE \E async \in BOOLEAN : Give(async)
      <4>1. \E c, async : Code(c, async)
        BY <3>1 DEF Give
      <4> QED
        BY <2>3, <4>1 DEF Code
    <3>2. CASE GiveInHandler
      BY <3>2 DEF GiveInHandler
    <3> QED
      BY <1>4, <3>1, <3>2
  <2>5. LockHeld' /\ VectorFits'
    BY <1>2, <2>4 DEF Attended, LockHeld, VectorFits
  <2>6. HandsEmpty'
    BY <1>2, <1>3 DEF HandsEmpty
  <2>7. WorkersSuffice'
    <3>1. NoResultYet' => Len(inbufs') <= workers + 1
      BY <1>1, <1>2, <1>3, <2>2
    <3> QED
      BY <1>2, <1>3, <2>4, <3>1 DEF WorkersSuffice, Coding
  <2>8. CountsReported'
    BY <1>1, <1>2, <2>4 DEF Attended, CountsReported
  <2> QED
    BY <2>5, <2>6, <2>7, <2>8 DEF Attended
<1>5. CASE SetUpAgain
  <2>1. UNCHANGED <<inbufs, mutex, workers, pc>> /\ processedChunks' = 0
    BY <1>5 DEF SetUpAgain, ResetUnderlying, threads
  <2>2. LockHeld' /\ VectorFits' /\ HandsEmpty' /\ WorkersSuffice'
    BY <1>1, <1>2, <1>3, <2>1 DEF Attended, LockHeld, VectorFits, HandsEmpty, WorkersSuffice
  <2> QED
    BY <2>1, <2>2 DEF Attended, CountsReported
<1> QED
  BY <1>4, <1>5

LEMMA NextAttended == IInv /\ Attended /\ [Next]_vars => Attended'
<1> SUFFICES ASSUME IInv, Attended, [Next]_vars PROVE Attended'
  OBVIOUS
<1>1. CASE UNCHANGED vars
  BY <1>1 DEF vars, nativeVars, coding, settings, locals, threads, Attended, LockHeld, HandsEmpty,
     WorkersSuffice, CountsReported, VectorFits, NoResultYet, Coding
<1>2. CASE Native
  <2>1. NoResultYet' => NoResultYet
    BY <1>2, ResultsStay DEF IInv, Next
  <2> QED
    BY <1>2, <2>1, CodingAttended, WorkersAttended, HandlersAttended DEF Native, NativeStep
<1> QED
  BY <1>1, <1>2, CallerAttended DEF Next

LEMMA AttendedInductive == Spec => [](IInv /\ Attended)
<1>1. Init => Attended
  <2>1. ASSUME Init PROVE Len(inbufs) = 0 /\ workers = 0 /\ processedChunks = 0
    BY <2>1 DEF Init, NativeInit
  <2> QED
    BY <2>1 DEF Init, NativeInit, Attended, LockHeld, HandsEmpty, WorkersSuffice, CountsReported, VectorFits
<1> QED
  BY <1>1, NextAttended, Invariant, PTL DEF Spec

(* While a chunk is not reported, and no result was told, a thread is on   *)
(* its way to it, also when a worker has read the chunks of others, has    *)
(* found its own gone, or was overtaken by code() inside a handler.        *)
THEOREM NoChunkIsStranded == Spec => []NoChunkStranded
<1>1. IInv /\ Attended => NoChunkStranded
  <2> SUFFICES ASSUME IInv, Attended, NoResultYet, reported # chunks, ~NativeIsDue PROVE FALSE
    BY DEF NoChunkStranded
  <2>1. ~Coding /\ mutex # "worker" /\ pc # "coding"
    BY DEF NativeIsDue, Coding
  <2>2. pc = "idle" /\ mutex = "free"
    BY <2>1 DEF NativeIsDue, Locked, IInv, TypeOK, NativeTypeOK, Attended, LockHeld, VectorFits
  <2>3. workers = 0 /\ finished = 0
    BY <2>2 DEF NativeIsDue, IInv, TypeOK, NativeTypeOK
  <2>4. readChunks = 0 /\ Len(inbufs) = 0 /\ processedChunks = 0
    BY <2>1, <2>2, <2>3
    DEF Attended, HandsEmpty, WorkersSuffice, CountsReported, IInv, TypeOK, NativeTypeOK
  <2> QED
    BY <2>4 DEF IInv, ChunksAddUp, TypeOK
<1> QED
  BY <1>1, AttendedInductive, PTL

-----------------------------------------------------------------------------
(* The work that is left *)

(* The chunks that wait lie behind one another, up to what was given; the  *)
(* empty one that ends the input is the last.                              *)
Lined ==
  /\ \A i \in DOMAIN inbufs : Empty(inbufs[i]) => shouldFinish /\ i = Len(inbufs)
  /\ \A i \in DOMAIN inbufs : inbufs[i].hi <= given
  /\ \A i, j \in DOMAIN inbufs : i < j /\ ~Empty(inbufs[j]) => inbufs[i].hi <= inbufs[j].lo

LEMMA AppendLined ==
  ASSUME TypeOK, Lined, ~shouldFinish, NEW chunk \in Chunk, inbufs' = Append(inbufs, chunk),
         given' \in Nat, given <= given', chunk.hi <= given',
         Empty(chunk) => shouldFinish', ~Empty(chunk) => given <= chunk.lo
  PROVE  Lined'
<1>1. /\ inbufs \in Seq(Chunk) /\ Len(inbufs) \in Nat /\ Len(inbufs') = Len(inbufs) + 1
      /\ DOMAIN inbufs = 1 .. Len(inbufs) /\ DOMAIN inbufs' = 1 .. Len(inbufs) + 1
      /\ inbufs'[Len(inbufs) + 1] = chunk
      /\ \A i \in 1 .. Len(inbufs) : inbufs'[i] = inbufs[i]
  BY DEF TypeOK, NativeTypeOK
<1>2. /\ given \in Nat /\ chunk.lo \in Nat /\ chunk.hi \in Nat
      /\ \A i \in 1 .. Len(inbufs) : inbufs[i].lo \in Nat /\ inbufs[i].hi \in Nat
  <2>1. \A i \in 1 .. Len(inbufs) : inbufs[i] \in Chunk
    BY <1>1
  <2> QED
    BY <2>1, ChunkFacts, FileFacts DEF TypeOK, NativeTypeOK
<1>3. \A i \in 1 .. Len(inbufs) : ~Empty(inbufs[i]) /\ inbufs[i].hi <= given
  BY <1>1 DEF Lined
<1>4. \A i \in DOMAIN inbufs' : Empty(inbufs'[i]) => shouldFinish' /\ i = Len(inbufs')
  BY <1>1, <1>3
<1>5. \A i \in DOMAIN inbufs' : inbufs'[i].hi <= given'
  <2> SUFFICES ASSUME NEW i \in DOMAIN inbufs' PROVE inbufs'[i].hi <= given'
    OBVIOUS
  <2>1. CASE i \in 1 .. Len(inbufs)
    BY <1>1, <1>2, <1>3, <2>1
  <2>2. CASE i = Len(inbufs) + 1
    BY <1>1, <2>2
  <2> QED
    BY <1>1, <2>1, <2>2
<1>6. \A i, j \in DOMAIN inbufs' : i < j /\ ~Empty(inbufs'[j]) => inbufs'[i].hi <= inbufs'[j].lo
  <2> SUFFICES ASSUME NEW i \in DOMAIN inbufs', NEW j \in DOMAIN inbufs', i < j, ~Empty(inbufs'[j])
               PROVE  inbufs'[i].hi <= inbufs'[j].lo
    OBVIOUS
  <2>1. i \in 1 .. Len(inbufs) /\ inbufs'[i] = inbufs[i]
    BY <1>1
  <2>2. CASE j \in 1 .. Len(inbufs)
    <3>1. inbufs'[j] = inbufs[j] /\ ~Empty(inbufs[j])
      BY <1>1, <1>3, <2>2
    <3> QED
      BY <1>1, <2>1, <2>2, <3>1 DEF Lined
  <2>3. CASE j = Len(inbufs) + 1
    <3>1. inbufs'[j] = chunk /\ given <= chunk.lo /\ inbufs[i].hi <= given
      BY <1>1, <1>3, <2>1, <2>3
    <3>2. inbufs[i].hi \in Nat
      BY <1>2, <2>1
    <3> QED
      BY <1>2, <2>1, <3>1, <3>2
  <2> QED
    BY <1>1, <2>2, <2>3
<1> QED
  BY <1>4, <1>5, <1>6 DEF Lined

LEMMA TailLined ==
  ASSUME TypeOK, Lined, inbufs # <<>>, inbufs' = Tail(inbufs), UNCHANGED <<given, shouldFinish>>
  PROVE  Lined'
<1>1. /\ Len(inbufs) \in Nat /\ Len(inbufs') = Len(inbufs) - 1
      /\ DOMAIN inbufs = 1 .. Len(inbufs) /\ DOMAIN inbufs' = 1 .. Len(inbufs) - 1
      /\ \A i \in DOMAIN inbufs' : inbufs'[i] = inbufs[i + 1] /\ i + 1 \in DOMAIN inbufs
  BY DEF TypeOK, NativeTypeOK
<1>2. \A i \in DOMAIN inbufs' : i \in Nat /\ (i + 1 = Len(inbufs) => i = Len(inbufs'))
  BY <1>1
<1>3. \A i, j \in DOMAIN inbufs' : i < j => i + 1 < j + 1
  BY <1>1
<1>4. \A i \in DOMAIN inbufs' : Empty(inbufs'[i]) => shouldFinish' /\ i = Len(inbufs')
  BY <1>1, <1>2 DEF Lined
<1>5. \A i \in DOMAIN inbufs' : inbufs'[i].hi <= given'
  BY <1>1 DEF Lined
<1>6. \A i, j \in DOMAIN inbufs' : i < j /\ ~Empty(inbufs'[j]) => inbufs'[i].hi <= inbufs'[j].lo
  BY <1>1, <1>3 DEF Lined
<1> QED
  BY <1>4, <1>5, <1>6 DEF Lined

LEMMA SameLined ==
  ASSUME Lined, UNCHANGED <<inbufs, given, shouldFinish>>
  PROVE  Lined'
BY DEF Lined, Empty

LEMMA NextLined == TypeOK /\ Lined /\ [Next]_vars => Lined'
<1> SUFFICES ASSUME TypeOK, Lined, [Next]_vars PROVE Lined'
  OBVIOUS
<1>1. /\ given \in Nat /\ job \in Jobs /\ \A cut \in job.cuts : cut \in Nat /\ cut <= Len(File)
  BY JobsAssumption, FileFacts DEF TypeOK, NativeTypeOK, IsJob, File
<1>2. given <= Len(File) /\ Len(File) \in Nat
  BY FileFacts DEF TypeOK, NativeTypeOK
<1>3. ASSUME NEW cut \in job.cuts, given < cut
      PROVE  /\ [lo |-> given, hi |-> cut] \in Chunk /\ ~Empty([lo |-> given, hi |-> cut])
             /\ given <= cut
  BY <1>1, <1>2, <1>3, MakeChunk DEF Empty
<1>4. ASSUME NEW async \in BOOLEAN, Give(async) PROVE Lined'
  <2>1. ~shouldFinish
    BY <1>4 DEF Give
  <2>2. ASSUME NEW cut \in job.cuts, given < cut, given' = cut, Code([lo |-> given, hi |-> cut], async)
        PROVE  Lined'
    <3> DEFINE chunk == [lo |-> given, hi |-> cut]
    <3>1. chunk \in Chunk /\ ~Empty(chunk) /\ chunk.lo = given /\ chunk.hi = cut
      BY <1>3, <2>2
    <3>2. inbufs' = Append(inbufs, chunk)
      BY <2>2 DEF Code
    <3>3. given' \in Nat /\ given <= given' /\ chunk.hi <= given' /\ given <= chunk.lo
      BY <1>1, <1>3, <2>2, <3>1
    <3> HIDE DEF chunk
    <3> QED
      BY <2>1, <3>1, <3>2, <3>3, AppendLined
  <2>3. CASE UNCHANGED given /\ Code(NoInput, async)
    <3>1. NoInput \in Chunk /\ NoInput.hi = 0 /\ Empty(NoInput)
      BY <1>1, NoInputChunk DEF NoInput, Empty
    <3>2. inbufs' = Append(inbufs, NoInput) /\ shouldFinish'
      BY <2>3, <3>1 DEF Code
    <3>3. given' \in Nat /\ given <= given' /\ NoInput.hi <= given'
      BY <1>1, <2>3, <3>1
    <3> QED
      BY <2>1, <3>1, <3>2, <3>3, AppendLined
  <2> QED
    BY <1>4, <2>2, <2>3 DEF Give
<1>5. CASE GiveInHandler
  <2>1. PICK cut \in job.cuts : given < cut /\ given' = cut /\ inbufs' = Append(inbufs, [lo |-> given, hi |-> cut])
    BY <1>5 DEF GiveInHandler
  <2> DEFINE chunk == [lo |-> given, hi |-> cut]
  <2>2. chunk \in Chunk /\ ~Empty(chunk) /\ chunk.lo = given /\ chunk.hi = cut
    BY <1>3, <2>1
  <2>3. given' \in Nat /\ given <= given' /\ chunk.hi <= given' /\ given <= chunk.lo
    BY <1>1, <1>3, <2>1, <2>2
  <2>4. ~shouldFinish /\ inbufs' = Append(inbufs, chunk)
    BY <1>5, <2>1 DEF GiveInHandler
  <2> HIDE DEF chunk
  <2> QED
    BY <2>2, <2>3, <2>4, AppendLined
<1>6. CASE SetUpAgain \/ UNCHANGED vars
  BY <1>6, SameLined DEF SetUpAgain, ResetUnderlying, settings, vars, nativeVars, coding, directVars
<1>7. CASE Native /\ FetchChunk
  BY <1>7, TailLined DEF Native, FetchChunk, settings
<1>8. CASE Native /\ ~FetchChunk
  <2>1. shouldFinish' = shouldFinish /\ given' = given
    BY <1>8 DEF Native, NativeStep, DoLZMACode, NoCoder, CodeProgress, CodeStuck, CodeFails, CodeEnded,
       AfterCode, WorkerStarts, WorkerThrows, WorkerOnOK, InvokeBufferHandlers, HandOutput, HandResult,
       HandChunks, HandNothing, HandChunksBeforeReset, HandReset, settings
  <2>2. inbufs' = inbufs
    BY <1>8 DEF Native, NativeStep, DoLZMACode, NoCoder, CodeProgress, CodeStuck, CodeFails, CodeEnded,
       AfterCode, WorkerStarts, WorkerThrows, WorkerOnOK, InvokeBufferHandlers, HandOutput, HandResult,
       HandChunks, HandNothing, HandChunksBeforeReset, HandReset, coding
  <2> QED
    BY <2>1, <2>2, SameLined
<1> QED
  BY <1>4, <1>5, <1>6, <1>7, <1>8 DEF Next

Sizes == UnitsWaiting \in Nat /\ NativeWork \in Nat

LEMMA SizesAre == TypeOK /\ Lined => Sizes
<1> SUFFICES ASSUME TypeOK, Lined PROVE Sizes
  OBVIOUS
<1>1. NativeWork \in Nat
  BY WorkIsNatural DEF TypeOK
<1>2. CASE inbufs = <<>> \/ Empty(Head(inbufs))
  BY <1>1, <1>2 DEF Sizes, UnitsWaiting
<1>3. CASE inbufs # <<>> /\ ~Empty(Head(inbufs))
  <2>1. 1 \in DOMAIN inbufs /\ Head(inbufs) = inbufs[1] /\ Head(inbufs) \in Chunk
    BY <1>3 DEF TypeOK, NativeTypeOK
  <2> DEFINE lo == Head(inbufs).lo
             hi == Head(inbufs).hi
  <2>2. lo \in Nat /\ hi \in Nat /\ lo <= hi
    BY <2>1, ChunkFacts DEF TypeOK, NativeTypeOK
  <2>3. hi <= given
    BY <2>1 DEF Lined
  <2>4. given \in Nat
    BY FileFacts DEF TypeOK, NativeTypeOK
  <2>5. UnitsWaiting = given - lo
    BY <1>3 DEF UnitsWaiting
  <2> HIDE DEF lo, hi
  <2>6. UnitsWaiting \in Nat
    BY <2>2, <2>3, <2>4, <2>5
  <2> QED
    BY <1>1, <2>6 DEF Sizes
<1> QED
  BY <1>2, <1>3

(* What a worker fetches does not wait any more. *)
LEMMA FetchedWaitsNoMore ==
  ASSUME TypeOK, Lined, Sizes, Sizes', FetchChunk, UNCHANGED given,
         NEW size \in Nat, size = Size(Head(inbufs)), NEW units \in Nat, units = UnitsWaiting'
  PROVE  units + size <= UnitsWaiting
<1> DEFINE head == Head(inbufs)
           lo == head.lo
           hi == head.hi
<1>1. /\ inbufs # <<>> /\ inbufs' = Tail(inbufs) /\ inbufs \in Seq(Chunk)
  BY DEF FetchChunk, TypeOK, NativeTypeOK
<1>2. /\ 1 \in DOMAIN inbufs /\ head = inbufs[1] /\ head \in Chunk /\ Len(inbufs) \in Nat /\ Len(inbufs) >= 1
      /\ Len(inbufs') = Len(inbufs) - 1 /\ inbufs' \in Seq(Chunk)
  BY <1>1
<1>3. lo \in Nat /\ hi \in Nat /\ lo <= hi /\ given \in Nat
  BY <1>2, ChunkFacts, FileFacts DEF TypeOK, NativeTypeOK
<1>4. hi <= given /\ size = hi - lo /\ UnitsWaiting \in Nat
  BY <1>2 DEF Lined, Size, Sizes
<1>5. CASE Empty(head)
  <2>1. Len(inbufs) = 1
    BY <1>2, <1>5 DEF Lined
  <2>2. inbufs' = <<>>
    BY <1>2, <2>1
  <2>3. units = 0 /\ size = 0
    BY <1>3, <1>4, <1>5, <2>2 DEF UnitsWaiting, Empty
  <2> QED
    BY <1>4, <2>3
<1>6. CASE ~Empty(head)
  <2>1. UnitsWaiting = given - lo
    BY <1>1, <1>6 DEF UnitsWaiting
  <2>2. CASE inbufs' = <<>> \/ Empty(Head(inbufs'))
    <3>1. units = 0
      BY <2>2 DEF UnitsWaiting
    <3> HIDE DEF lo, hi, head
    <3> QED
      BY <1>3, <1>4, <2>1, <3>1
  <2>3. CASE inbufs' # <<>> /\ ~Empty(Head(inbufs'))
    <3>1. 2 \in DOMAIN inbufs /\ Head(inbufs') = inbufs[2]
      BY <1>1, <1>2, <2>3
    <3> DEFINE lo2 == inbufs[2].lo
    <3>2. ~Empty(inbufs[2]) /\ 1 < 2
      BY <2>3, <3>1
    <3>3. hi <= lo2
      BY <1>2, <3>1, <3>2 DEF Lined
    <3>4. units = given - lo2
      BY <2>3, <3>1 DEF UnitsWaiting
    <3>5. lo2 \in Nat
      <4>1. inbufs[2] \in Chunk
        BY <1>1, <3>1
      <4> QED
        BY <4>1, ChunkFacts DEF TypeOK, NativeTypeOK
    <3> HIDE DEF lo, hi, head, lo2
    <3> QED
      BY <1>3, <1>4, <2>1, <3>3, <3>4, <3>5
  <2> QED
    BY <2>2, <2>3
<1> QED
  BY <1>5, <1>6

LEMMA NativeUsesUp ==
  ASSUME TypeOK, LockHeld, Lined, Sizes, Sizes', Native, ~job.timeout
  PROVE  WorkLeft' \in 0 .. WorkLeft - 1
<1> DEFINE left1 == WorkLeft'
           work1 == NativeWork'
           units1 == UnitsWaiting'
           told == Len(calls)
           told1 == Len(calls')
           size == Size(Head(inbufs))
<1>1. NativeTypeOK /\ Locks /\ given' = given
  BY DEF TypeOK, LockHeld, Locks, Native
<1>2. /\ NativeWork \in Nat /\ UnitsWaiting \in Nat /\ WorkLeft = 7 * UnitsWaiting + NativeWork
  BY DEF Sizes, WorkLeft
<1>3. /\ work1 \in Nat /\ units1 \in Nat /\ left1 = 7 * units1 + work1
  BY DEF Sizes, WorkLeft
<1>4. WorkLeft \in Nat
  BY <1>2
<1>5. left1 \in Nat
  <2> HIDE DEF left1, work1, units1
  <2> QED
    BY <1>3
<1>6. CASE FetchChunk
  <2>1. size \in Nat /\ work1 + 1 = NativeWork + 7 * size
    BY <1>1, <1>6, FetchWork
  <2>2. units1 + size <= UnitsWaiting
    BY <1>1, <1>3, <1>6, <2>1, FetchedWaitsNoMore
  <2> SUFFICES left1 \in 0 .. WorkLeft - 1
    OBVIOUS
  <2> HIDE DEF left1, work1, units1, size
  <2> QED
    BY <1>2, <1>3, <1>4, <1>5, <2>1, <2>2
<1>7. CASE ~FetchChunk
  <2>1. work1 + 2 * told1 < NativeWork + 2 * told /\ inbufs' = inbufs
    BY <1>1, <1>7, NativeStepWork DEF Native
  <2>2. units1 = UnitsWaiting
    BY <1>1, <2>1 DEF UnitsWaiting, Empty
  <2>3. told \in Nat /\ told1 \in Nat /\ told <= told1
    <3>1. calls' = calls \/ \E c \in Call : calls' = Append(calls, c)
      BY <1>1, NativeCalls DEF Native
    <3> QED
      BY <1>1, <3>1 DEF NativeTypeOK
  <2> SUFFICES left1 \in 0 .. WorkLeft - 1
    OBVIOUS
  <2> HIDE DEF left1, work1, units1, told, told1
  <2> QED
    BY <1>2, <1>3, <1>4, <1>5, <2>1, <2>2, <2>3
<1> QED
  BY <1>6, <1>7

(* However the workers share the chunks, the object comes to rest: it does *)
(* not go on for ever on the calls of code() that were made.               *)
THEOREM WorkIsUsedUp == Spec => WorkRunsOut
<1>1. Init => Lined
  <2>1. ASSUME Init PROVE inbufs = <<>>
    BY <2>1 DEF Init, NativeInit
  <2> QED
    BY <2>1 DEF Lined
<1>2. IInv /\ Lined => Sizes
  BY SizesAre DEF IInv
<1>3. IInv /\ Lined /\ [Next]_vars => Lined'
  BY NextLined DEF IInv
<1>4. IInv /\ Attended /\ Lined /\ Sizes /\ Sizes' /\ [Next]_vars
        => [~job.timeout /\ UNCHANGED <<chunks, setUpAt>> => WorkLeft' \in 0 .. WorkLeft - 1]_nativeVars
  <2> SUFFICES ASSUME IInv, Attended, Lined, Sizes, Sizes', Next, ~job.timeout,
                      UNCHANGED <<chunks, setUpAt>>
               PROVE  WorkLeft' \in 0 .. WorkLeft - 1
    BY DEF vars
  <2>1. ~GiveInHandler /\ \A async \in BOOLEAN : ~Give(async)
    <3>1. chunks \in Nat
      BY DEF IInv, TypeOK
    <3> QED
      BY <3>1 DEF Give, GiveInHandler
  <2>2. ~SetUpAgain
    <3> SUFFICES ASSUME SetUpAgain PROVE FALSE
      OBVIOUS
    <3>1. Results = {}
      BY DEF SetUpAgain, Results, IInv, TypeOK, NativeTypeOK
    <3> QED
      BY <3>1 DEF SetUpAgain
  <2> QED
    BY <2>1, <2>2, NativeUsesUp DEF Next, IInv, Attended
<1> QED
  BY <1>1, <1>2, <1>3, <1>4, AttendedInductive, PTL DEF Spec, WorkRunsOut

=============================================================================
