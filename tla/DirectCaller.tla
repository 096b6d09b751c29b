---------------------------- MODULE DirectCaller ----------------------------
(***************************************************************************)
(* The native object used directly (new lzma.Stream()), as its queues      *)
(* allow and JSLzmaStream never does: code() is called again while workers *)
(* are queued, at work, or finished and waiting for their OnOK, and while  *)
(* invokeBufferHandlers has dropped the lock around a handler.             *)
(*                                                                         *)
(* bufferHandler is called on the spot; calls is the record of all calls.  *)
(***************************************************************************)
EXTENDS LZMAStream, Integers

CONSTANT MaxWorkers   \* code() calls whose OnOK is still to come

ASSUME WorkersAssumption == MaxWorkers \in Nat \ {0}

VARIABLES
  given,    \* the units 1 .. given of the input were given to code()
  chunks,   \* in so many calls
  reported, \* the sum of the numbers bufferHandler was called with
  setUpAt   \* the calls of bufferHandler before the coder was set up last

directVars == <<given, chunks, reported, setUpAt>>
vars == <<nativeVars, directVars>>

Outstanding == workers + finished + (IF mutex = "worker" THEN 1 ELSE 0)

(* code(chunk, async), or code(null, async) at the end. *)
Give(async) ==
  /\ Outstanding < MaxWorkers /\ ~shouldFinish
  /\ \/ \E cut \in job.cuts :
          given < cut /\ given' = cut /\ Code([lo |-> given, hi |-> cut], async)
     \/ given = Len(File) /\ UNCHANGED given /\ Code(NoInput, async)
  /\ chunks' = chunks + 1
  /\ UNCHANGED <<calls, reported, setUpAt>>

(* code(chunk, true) inside bufferHandler: the lock is free, the handlers  *)
(* of an earlier worker go on afterwards.                                  *)
GiveInHandler ==
  /\ pc \in {"outbufs", "chunks", "reset"} /\ mutex = "free"
  /\ Outstanding < MaxWorkers /\ ~shouldFinish
  /\ \E cut \in job.cuts :
       /\ given < cut /\ given' = cut
       /\ inbufs' = Append(inbufs, [lo |-> given, hi |-> cut])
  /\ workers' = workers + 1 /\ chunks' = chunks + 1
  /\ UNCHANGED <<internal, coder, lastCodeResult, outbufs, processedChunks, settings, locals,
                 mutex, finished, pc, calls, reported, setUpAt>>

Results == {i \in (setUpAt + 1) .. Len(calls) : calls[i].kind \in {"null", "error"}}

(* After a result the caller sets up a coder for the next member. *)
SetUpAgain ==
  /\ job.restartable /\ Results # {}
  /\ ResetUnderlying(TRUE)
  /\ setUpAt' = Len(calls)
  /\ UNCHANGED <<calls, given, chunks, reported>>

Init ==
  /\ NativeInit
  /\ given = 0 /\ chunks = 0 /\ reported = 0 /\ setUpAt = 0

Native ==
  /\ NativeStep
  /\ reported' = reported + (IF calls' = calls THEN 0 ELSE calls'[Len(calls')].n)
  /\ UNCHANGED <<given, chunks, setUpAt>>

Next == (\E async \in BOOLEAN : Give(async)) \/ GiveInHandler \/ SetUpAgain \/ Native

Spec == Init /\ [][Next]_vars

(* The thread pool and the event loop keep running. *)
FairSpec == Spec /\ WF_vars(Native)

TypeOK ==
  /\ NativeTypeOK
  /\ given \in 0 .. Len(File) /\ chunks \in Nat /\ reported \in Nat
  /\ setUpAt \in 0 .. Len(calls)

-----------------------------------------------------------------------------
(* Properties *)

NoResultYet == \A i \in DOMAIN calls : calls[i].kind \notin {"null", "error"}

(* Until a result is reported every chunk is in one place: waiting, read   *)
(* by the worker that holds the lock, counted, or reported, however many   *)
(* workers code at the same time and whichever of them reports the chunks  *)
(* of the others (src/lzma-stream.cpp 197-206, 229-239, 275-286).          *)
ChunksAddUp ==
  NoResultYet => reported + Len(inbufs) + readChunks + processedChunks = chunks

(* Output is handed over in the order of the input and never twice, from   *)
(* whichever worker it comes and across members.                           *)
OutputInOrder ==
  \A i, j \in DOMAIN calls : i < j => \A a \in calls[i].out, b \in calls[j].out : a < b

(* The end of a coder is reported once and behind its last output: a       *)
(* worker that comes in while the handlers run, or after the reset, adds   *)
(* nothing to it (184-195, 208-209).  An error has no such place: a worker *)
(* that finds no input left after another one gets LZMA_BUF_ERROR, which   *)
(* liblzma survives, and a third may still code before the reset.          *)
EndIsLast ==
  \A i \in Results :
    calls[i].kind = "null" =>
      \A j \in (setUpAt + 1) .. Len(calls) :
        /\ j > i => calls[j].kind = "number"
        /\ j < i => calls[j].kind \in {"buf", "number", "error"}

(* However the workers share the chunks, each step of the object uses up   *)
(* some of the work that the calls of code() have brought.                 *)
UnitsWaiting == IF inbufs = <<>> \/ Empty(Head(inbufs)) THEN 0 ELSE given - Head(inbufs).lo
WorkLeft == 7 * UnitsWaiting + NativeWork

WorkRunsOut ==
  [][~job.timeout /\ UNCHANGED <<chunks, setUpAt>> => WorkLeft' \in 0 .. WorkLeft - 1]_nativeVars

(* No chunk is left behind: while one is not reported, and no result was   *)
(* told, a thread is due, although a worker may have read the chunk of     *)
(* another one, or have left its own to it (213-239).                      *)
NoChunkStranded == NoResultYet /\ reported # chunks => NativeIsDue

(* Every chunk is reported, or a result is. *)
ChunksReported == chunks > 0 ~> (~NoResultYet \/ reported = chunks)
=============================================================================
