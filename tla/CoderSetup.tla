----------------------------- MODULE CoderSetup -----------------------------
(***************************************************************************)
(* Streams from createStream to cleanup, as far as their coders, their     *)
(* memory limits and the count of asynchronous streams are concerned:      *)
(* createStream and the constructor (index.js 27-109, 271-325), _restart   *)
(* (246-264), the proxied memlimitSet (200-206, src/lzma-stream.cpp        *)
(* 321-330) and cleanup (43-52, 131-137).  What the streams do in between  *)
(* is modelled by JSLzmaStream.                                            *)
(*                                                                         *)
(* Every stream stands for one call of createStream.  All of it runs on    *)
(* the main thread; streams interleave by their calls.                     *)
(***************************************************************************)
EXTENDS CoderOptions

CONSTANTS
  Streams,   \* calls of createStream
  Calls,     \* [function, first, second, wanted], see CoderOptions; wanted is
             \* the coder the README describes for the call, or undefined
  Limits     \* what memlimitSet is called with

ASSUME StreamsAssumption == IsFiniteSet(Streams)

(* A number is scaled to an integer; what is not finite has no n. *)
ASSUME LimitsAssumption == \A v \in Limits : v.type = "number" => v.n \in Int

VARIABLES
  call,          \* the call the stream was created by
  status,        \* "none", "thrown", "lost", "open" or "cleaned"
  coder,         \* the coder of the native object
  limitSet,      \* the limit that memlimitSet has set last, or 0
  synchronous,
  curAsyncStreamsCount

vars == <<call, status, coder, limitSet, synchronous, curAsyncStreamsCount>>

NoCall == [function |-> "createStream", first |-> undefined, second |-> undefined, wanted |-> undefined]

Init ==
  /\ call = [s \in Streams |-> NoCall]
  /\ status = [s \in Streams |-> "none"]
  /\ coder = [s \in Streams |-> NoCoderAtAll]
  /\ limitSet = [s \in Streams |-> 0]
  /\ synchronous = [s \in Streams |-> FALSE]
  /\ curAsyncStreamsCount = 0

Options(s) == Settled(call[s]).options

(* lzma_memlimit_set; 0 leaves the limit as it is. *)
LimitRefused(asked, limit) ==
  ~HasMemconfig(asked) \/ (limit # 0 /\ limit < MemusageBase)
WithLimit(asked, limit) == IF limit = 0 THEN asked ELSE [asked EXCEPT !.memlimit = limit]

(* Mutation: a limit is set whether or not one was asked for. *)
CreateThrows_EveryLimit(asked, memlimit) ==
  \/ ~Accepts(asked)
  \/ ~IsNumber(memlimit) \/ LimitRefused(asked, NumberToUint64ClampNullMax(memlimit))

(* What createStream throws for, in its order; the memory limit is set    *)
(* once more when the coder has been set up.                              *)
CreateThrows(asked, memlimit) ==
  \/ ~Accepts(asked)
  \/ /\ memlimit \notin Falsy
     /\ ~IsNumber(memlimit) \/ LimitRefused(asked, NumberToUint64ClampNullMax(memlimit))

BufsizeThrows(bufsize) ==
  bufsize # undefined /\ (bufsize.type # "number" \/ bufsize.n <= 0)

CreateStream(s) ==
  /\ status[s] = "none"
  /\ \E c \in Calls :
       LET options == Settled(c).options
           asked == CoderMethod(Settled(c).coder, options)
           memlimit == Get(options, "memlimit")
           sync == Get(options, "synchronous") \notin Falsy
       IN /\ call' = [call EXCEPT ![s] = c]
          /\ IF CreateThrows(asked, memlimit)
             THEN /\ status' = [status EXCEPT ![s] = "thrown"]
                  /\ UNCHANGED <<coder, synchronous, curAsyncStreamsCount>>
             ELSE \* the constructor counts, and then throws for a bad bufsize
                  /\ status' = [status EXCEPT ![s] =
                       IF BufsizeThrows(Get(options, "bufsize")) THEN "lost" ELSE "open"]
                  /\ coder' = [coder EXCEPT ![s] =
                       IF memlimit \in Falsy THEN asked
                       ELSE WithLimit(asked, NumberToUint64ClampNullMax(memlimit))]
                  /\ synchronous' = [synchronous EXCEPT ![s] = sync]
                  /\ curAsyncStreamsCount' = curAsyncStreamsCount + (IF sync THEN 0 ELSE 1)
  /\ UNCHANGED limitSet

(* A refused call changes nothing; a missing nativeStream is a TypeError. *)
MemlimitSet(s) ==
  /\ status[s] = "open"
  /\ \E v \in Limits :
       LET limit == NumberToUint64ClampNullMax(v) IN
       /\ IsNumber(v) /\ ~LimitRefused(coder[s], limit)
       /\ coder' = [coder EXCEPT ![s] = WithLimit(coder[s], limit)]
       /\ limitSet' = [limitSet EXCEPT ![s] = IF limit = 0 THEN limitSet[s] ELSE limit]
  /\ UNCHANGED <<call, status, synchronous, curAsyncStreamsCount>>

(* Mutation: the coder is set up again without its options. *)
Again_WithoutOptions(s) == CoderMethod(Settled(call[s]).coder, Obj(<<>>))

Again(s) == CoderMethod(Settled(call[s]).coder, Options(s))

(* The end of a member: _restart, which only two methods leave behind. *)
Restart(s) ==
  /\ status[s] = "open" /\ coder[s].kind \in Restartable
  /\ coder' = [coder EXCEPT ![s] = IF Accepts(Again(s)) THEN Again(s) ELSE NoCoderAtAll]
  /\ UNCHANGED <<call, status, limitSet, synchronous, curAsyncStreamsCount>>

(* Mutation: synchronous streams are counted down, too. *)
CountDown_Every(s) == curAsyncStreamsCount' = curAsyncStreamsCount - 1

(* countedCleanup holds from the first cleanup on. *)
CountDown(s) ==
  curAsyncStreamsCount' =
    curAsyncStreamsCount - (IF ~synchronous[s] /\ status[s] = "open" THEN 1 ELSE 0)

(* Mutation: the native object keeps its coder. *)
Cleanup_KeepsCoder(s) ==
  /\ status[s] \in {"open", "cleaned"}
  /\ status' = [status EXCEPT ![s] = "cleaned"]
  /\ CountDown(s)
  /\ UNCHANGED <<call, coder, limitSet, synchronous>>

(* Called once or several times: by an error, by _flush, by the caller. *)
Cleanup(s) ==
  /\ status[s] \in {"open", "cleaned"}
  /\ status' = [status EXCEPT ![s] = "cleaned"]
  /\ coder' = [coder EXCEPT ![s] = NoCoderAtAll]
  /\ CountDown(s)
  /\ UNCHANGED <<call, limitSet, synchronous>>

Next == \E s \in Streams : CreateStream(s) \/ MemlimitSet(s) \/ Restart(s) \/ Cleanup(s)

Spec == Init /\ [][Next]_vars

-----------------------------------------------------------------------------
(* Properties *)

(* Every variable stays in its type; a limit that was set has room for the *)
(* least decoder, and only open streams have coders, whose kind liblzma    *)
(* knows (the coder of a lost stream goes with its native object).         *)
TypeOK ==
  /\ status \in [Streams -> {"none", "thrown", "lost", "open", "cleaned"}]
  /\ limitSet \in [Streams -> {0} \cup MemusageBase .. NoLimit]
  /\ synchronous \in [Streams -> BOOLEAN]
  /\ curAsyncStreamsCount \in Nat
  /\ \A s \in Streams : status[s] \in {"open", "lost"} <=> Accepts(coder[s])

Counted == {s \in Streams : status[s] \in {"open", "lost"} /\ ~synchronous[s]}

(* curAsyncStreamsCount is the number of asynchronous streams that were    *)
(* constructed and not cleaned up, however their calls interleave, however *)
(* often they are cleaned up, and whatever createStream has thrown for     *)
(* (index.js 40-53).                                                       *)
CountExact == curAsyncStreamsCount = Cardinality(Counted)

Asks(s) == call[s].wanted # undefined

(* The coder of an open stream is the one the README (346-377) describes   *)
(* for the call, in whatever form the options were given and after every   *)
(* restart; its memory limit is that of the options or of memlimitSet,     *)
(* whichever of them a restart has left.                                   *)
CoderAsAsked ==
  \A s \in Streams :
    status[s] = "open" /\ Asks(s) =>
      LET limit == coder[s].memlimit IN
      /\ coder[s] = [call[s].wanted EXCEPT !.memlimit = limit]
      /\ limit \in {call[s].wanted.memlimit} \cup ({limitSet[s]} \ {0})

(* The README and the methods agree on every call by itself. *)
Documented ==
  \A c \in Calls : c.wanted # undefined => c.wanted = CoderMethod(Settled(c).coder, Settled(c).options)

(* The README gives a meaning only to what liblzma takes: a coder it can   *)
(* set up, and a memory limit only for a decoder, with room for the least. *)
Sensible ==
  \A c \in Calls : c.wanted # undefined =>
    /\ Accepts(c.wanted)
    /\ Get(Settled(c).options, "memlimit") \notin Falsy =>
         /\ IsNumber(Get(Settled(c).options, "memlimit"))
         /\ HasMemconfig(c.wanted) /\ c.wanted.memlimit \in MemusageBase .. NoLimit

(* createStream does not throw for a call whose options the README gives   *)
(* a meaning (346-377).  Left out are a memlimit for an encoder, for which *)
(* it does throw although line 354 offers it, and Infinity as a limit: the *)
(* calls with these have no wanted coder.                                  *)
DocumentedAccepted == \A s \in Streams : Asks(s) => status[s] # "thrown"
=============================================================================
