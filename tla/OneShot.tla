------------------------------ MODULE OneShot ------------------------------
(***************************************************************************)
(* compress(), decompress() and the methods of LZMA() (index.js 328-424):  *)
(* a stream of module JSLzmaStream that gets its whole input by one end(), *)
(* and the listeners singleStringCoding puts on it.                        *)
(*                                                                         *)
(* The base class emits 'data' and 'end' in ticks of their own, after      *)
(* push(); an 'error' is emitted by bufferHandler itself, which has called *)
(* push(null) before, so the 'end' event follows an error as well.         *)
(***************************************************************************)
EXTENDS JSLzmaStream

VARIABLES
  started,   \* "no", "yes", or "thrown": Buffer.from has refused the input
  failed,    \* set by the first 'error'
  buffers,   \* the payload of the 'data' events so far
  ended,     \* the 'end' event was emitted
  answers,   \* calls of on_finish: "result" or "error"
  promise,   \* "pending", "resolved" or "rejected"
  result     \* the payload given to on_finish

answerVars == <<failed, answers, promise, result>>
eventVars == <<buffers, ended>>
oneShotVars == <<started, answerVars, eventVars>>

(* createStream was called already, and the stream is counted. *)
Start ==
  /\ started = "no"
  /\ \/ started' = "yes" /\ written' = Len(File) /\ endCalled' = TRUE
     \/ started' = "thrown" /\ UNCHANGED <<written, endCalled>>
  /\ UNCHANGED <<nativeVars, synchronous, transformVars, outputVars, countVars,
                 streamVars, answerVars, eventVars>>

(* A settled promise stays as it is. *)
Settle(state) == promise' = IF promise = "pending" THEN state ELSE promise

(* Both listeners of 'error' are once-listeners. *)
ErrorEvent ==
  /\ OnError
  /\ IF errors = 0
     THEN /\ failed' = TRUE
          /\ answers' = Append(answers, "error")
          /\ Settle("rejected")
          /\ UNCHANGED result
     ELSE UNCHANGED answerVars
  /\ UNCHANGED <<started, eventVars>>

DataEvent ==
  /\ pc = "idle" /\ buffers # pushed
  /\ buffers' = pushed
  /\ UNCHANGED <<vars, started, ended, answerVars>>

(* Mutation: the 'end' event behind an error is an answer, too. *)
Finished_Always ==
  /\ answers' = Append(answers, "result")
  /\ result' = buffers

Finished ==
  IF failed THEN UNCHANGED <<answers, result>>
  ELSE answers' = Append(answers, "result") /\ result' = buffers

EndEvent ==
  /\ pc = "idle" /\ eof /\ buffers = pushed /\ ~ended
  /\ ended' = TRUE
  /\ Finished
  /\ Settle("resolved")
  /\ UNCHANGED <<vars, started, failed, buffers>>

StreamTurn ==
  /\ StartWrite \/ Flush \/ OnBuffer \/ OnStreamEnd \/ OnNumber \/ NativeTurn
  /\ UNCHANGED oneShotVars

OneShotInit ==
  /\ Init
  /\ started = "no" /\ failed = FALSE
  /\ buffers = {} /\ ended = FALSE
  /\ answers = <<>> /\ promise = "pending" /\ result = {}

OneShotNext == Start \/ StreamTurn \/ ErrorEvent \/ DataEvent \/ EndEvent

OneShotSpec == OneShotInit /\ [][OneShotNext]_<<vars, oneShotVars>>

(* The event loop and the thread pool keep running. *)
FairOneShot ==
  /\ OneShotSpec
  /\ WF_<<vars, oneShotVars>>(StreamTurn \/ ErrorEvent)
  /\ WF_<<vars, oneShotVars>>(DataEvent) /\ WF_<<vars, oneShotVars>>(EndEvent)

-----------------------------------------------------------------------------
(* Properties *)

OneShotTypeOK ==
  /\ TypeOK
  /\ started \in {"no", "yes", "thrown"}
  /\ failed \in BOOLEAN /\ ended \in BOOLEAN
  /\ buffers \in SUBSET Units /\ result \in SUBSET Units
  /\ answers \in Seq({"result", "error"})
  /\ promise \in {"pending", "resolved", "rejected"}

Answer == INSTANCE OneAnswer WITH payload <- Payload, wellFormed <- WellFormed

(* on_finish is called once and the promise settles with it, although the  *)
(* stream emits 'end' behind an error; the result is the whole payload.    *)
ImplementsOneAnswer == Answer!Spec

(* Every call of compress or decompress is answered. *)
Answered == started = "yes" ~> answers # <<>>

(* Once it is answered, its stream is counted down.                        *)
AnsweredIsReleased == answers # <<>> ~> curAsyncStreamsCount = 0
=============================================================================
