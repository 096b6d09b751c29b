-------------------------- MODULE CoderSetup_proofs --------------------------
(***************************************************************************)
(* Proofs about CoderSetup, for every finite set of streams and every set  *)
(* of calls and limits.  The count of asynchronous streams is exact:       *)
(* curAsyncStreamsCount changes in two places, and in each the set it      *)
(* counts changes by the same stream (IInv).  An open stream has the coder *)
(* its call asked for, but for the limit: it has it from createStream on,  *)
(* memlimitSet changes the limit alone, and _restart asks for the same     *)
(* coder again (SetupInv).                                                 *)
(***************************************************************************)
EXTENDS CoderSetup, FiniteSetTheorems, TLAPS

Statuses == {"none", "thrown", "lost", "open", "cleaned"}

(* The values the proof needs to know: what a stream's status can be. *)
Shape ==
  /\ status \in [Streams -> Statuses]
  /\ synchronous \in [Streams -> BOOLEAN]

IInv == Shape /\ CountExact

(* The set that is counted is finite and its size a number. *)
LEMMA CountedFinite == IsFiniteSet(Counted) /\ Cardinality(Counted) \in Nat
<1>1. Counted \subseteq Streams
  BY DEF Counted
<1>2. IsFiniteSet(Counted)
  BY <1>1, FS_Subset, StreamsAssumption
<1> QED
  BY <1>2, FS_CardinalityType

(* No stream is counted before the first call. *)
LEMMA InitCounts == Init => IInv
<1> SUFFICES ASSUME Init PROVE IInv
  OBVIOUS
<1>1. Shape
  BY DEF Init, Shape, Statuses
<1>2. Counted = {}
  BY DEF Init, Counted
<1> QED
  BY <1>1, <1>2, FS_EmptySet DEF Init, IInv, CountExact

(* createStream adds the stream to the set if and only if it counts it. *)
LEMMA CreateCounts ==
  ASSUME IInv, NEW s \in Streams, CreateStream(s)
  PROVE  IInv'
<1> USE DEF IInv, Shape
<1>1. s \notin Counted
  BY DEF CreateStream, Counted
<1>2. CASE /\ status' = [status EXCEPT ![s] = "thrown"]
           /\ UNCHANGED <<coder, synchronous, curAsyncStreamsCount>>
  <2>1. Shape'
    BY <1>2 DEF Statuses
  <2>2. Counted' = Counted
    BY <1>1, <1>2 DEF Counted
  <2> QED
    BY <1>2, <2>1, <2>2 DEF CountExact
<1>3. ASSUME NEW st \in {"lost", "open"}, NEW sync \in BOOLEAN,
             status' = [status EXCEPT ![s] = st],
             synchronous' = [synchronous EXCEPT ![s] = sync],
             curAsyncStreamsCount' = curAsyncStreamsCount + (IF sync THEN 0 ELSE 1)
      PROVE  IInv'
  <2>1. Shape'
    BY <1>3 DEF Statuses
  <2>2. CASE sync
    <3>1. Counted' = Counted
      BY <1>1, <1>3, <2>2 DEF Counted
    <3> QED
      BY <1>3, <2>1, <2>2, <3>1, CountedFinite DEF CountExact
  <2>3. CASE ~sync
    <3>1. Counted' = Counted \cup {s}
      BY <1>1, <1>3, <2>3 DEF Counted
    <3>2. Cardinality(Counted \cup {s}) = Cardinality(Counted) + 1
      BY <1>1, CountedFinite, FS_AddElement
    <3> QED
      BY <1>3, <2>1, <2>3, <3>1, <3>2 DEF CountExact
  <2> QED
    BY <2>2, <2>3
<1>4. \/ /\ status' = [status EXCEPT ![s] = "thrown"]
         /\ UNCHANGED <<coder, synchronous, curAsyncStreamsCount>>
      \/ \E st \in {"lost", "open"}, sync \in BOOLEAN :
           /\ status' = [status EXCEPT ![s] = st]
           /\ synchronous' = [synchronous EXCEPT ![s] = sync]
           /\ curAsyncStreamsCount' = curAsyncStreamsCount + (IF sync THEN 0 ELSE 1)
  <2>1. PICK c \in Calls :
          LET options == Settled(c).options
              asked == CoderMethod(Settled(c).coder, options)
              memlimit == Get(options, "memlimit")
              sync == Get(options, "synchronous") \notin Falsy
          IN IF CreateThrows(asked, memlimit)
             THEN /\ status' = [status EXCEPT ![s] = "thrown"]
                  /\ UNCHANGED <<coder, synchronous, curAsyncStreamsCount>>
             ELSE /\ status' = [status EXCEPT ![s] =
                       IF BufsizeThrows(Get(options, "bufsize")) THEN "lost" ELSE "open"]
                  /\ synchronous' = [synchronous EXCEPT ![s] = sync]
                  /\ curAsyncStreamsCount' = curAsyncStreamsCount + (IF sync THEN 0 ELSE 1)
    BY DEF CreateStream
  <2> QED
    BY <2>1
<1> QED
  BY <1>2, <1>3, <1>4

(* The first cleanup of an asynchronous stream takes it out of the set. *)
LEMMA CleanupCounts ==
  ASSUME IInv, NEW s \in Streams, Cleanup(s)
  PROVE  IInv'
<1> USE DEF IInv, Shape
<1>1. Shape'
  BY DEF Cleanup, Statuses
<1>2. CASE ~synchronous[s] /\ status[s] = "open"
  <2>1. s \in Counted /\ Counted' = Counted \ {s}
    BY <1>2 DEF Cleanup, Counted
  <2>2. Cardinality(Counted \ {s}) = Cardinality(Counted) - 1
    BY <2>1, CountedFinite, FS_RemoveElement
  <2> QED
    BY <1>1, <1>2, <2>1, <2>2 DEF Cleanup, CountDown, CountExact
<1>3. CASE ~(~synchronous[s] /\ status[s] = "open")
  <2>1. Counted' = Counted
    BY <1>3 DEF Cleanup, Counted
  <2> QED
    BY <1>1, <1>3, <2>1, CountedFinite DEF Cleanup, CountDown, CountExact
<1> QED
  BY <1>2, <1>3

(* curAsyncStreamsCount is the number of asynchronous streams that were    *)
(* constructed and not cleaned up (index.js 40-53), for every finite set   *)
(* of streams and every set of calls and limits.                           *)
THEOREM StreamsAreCounted == Spec => []CountExact
<1>1. IInv /\ [Next]_vars => IInv'
  <2> SUFFICES ASSUME IInv, [Next]_vars PROVE IInv'
    OBVIOUS
  <2>1. CASE UNCHANGED vars
    BY <2>1 DEF vars, IInv, Shape, CountExact, Counted
  <2>2. ASSUME NEW s \in Streams, CreateStream(s) PROVE IInv'
    BY <2>2, CreateCounts
  <2>3. ASSUME NEW s \in Streams, MemlimitSet(s) \/ Restart(s) PROVE IInv'
    BY <2>3 DEF MemlimitSet, Restart, IInv, Shape, CountExact, Counted
  <2>4. ASSUME NEW s \in Streams, Cleanup(s) PROVE IInv'
    BY <2>4, CleanupCounts
  <2> QED
    BY <2>1, <2>2, <2>3, <2>4 DEF Next
<1>2. IInv => CountExact
  BY DEF IInv
<1> QED
  BY InitCounts, <1>1, <1>2, PTL DEF Spec

-----------------------------------------------------------------------------
(* The coder that liblzma is asked for *)

(* A coder is a record of these fields. *)
IsCoder(c) ==
  c = [kind |-> c.kind, chain |-> c.chain, check |-> c.check, threads |-> c.threads,
       memlimit |-> c.memlimit, flags |-> c.flags]

Asked(c) == CoderMethod(Settled(c).coder, Settled(c).options)

(* A coder with another value in one field is a coder, too. *)
LEMMA SetsOneField ==
  ASSUME NEW c, IsCoder(c), NEW v
  PROVE  /\ IsCoder([c EXCEPT !.kind = v]) /\ [c EXCEPT !.kind = v].kind = v
         /\ IsCoder([c EXCEPT !.chain = v]) /\ [c EXCEPT !.chain = v].kind = c.kind
         /\ IsCoder([c EXCEPT !.check = v]) /\ [c EXCEPT !.check = v].kind = c.kind
         /\ IsCoder([c EXCEPT !.threads = v]) /\ [c EXCEPT !.threads = v].kind = c.kind
         /\ IsCoder([c EXCEPT !.memlimit = v]) /\ [c EXCEPT !.memlimit = v].kind = c.kind
         /\ [c EXCEPT !.memlimit = v].memlimit = v
         /\ IsCoder([c EXCEPT !.flags = v]) /\ [c EXCEPT !.flags = v].kind = c.kind
         /\ [c EXCEPT !.flags = v].memlimit = c.memlimit
<1>1. [c EXCEPT !.kind = v] = [kind |-> v, chain |-> c.chain, check |-> c.check, threads |-> c.threads,
                               memlimit |-> c.memlimit, flags |-> c.flags]
  BY DEF IsCoder
<1>2. [c EXCEPT !.chain = v] = [kind |-> c.kind, chain |-> v, check |-> c.check, threads |-> c.threads,
                                memlimit |-> c.memlimit, flags |-> c.flags]
  BY DEF IsCoder
<1>3. [c EXCEPT !.check = v] = [kind |-> c.kind, chain |-> c.chain, check |-> v, threads |-> c.threads,
                                memlimit |-> c.memlimit, flags |-> c.flags]
  BY DEF IsCoder
<1>4. [c EXCEPT !.threads = v] = [kind |-> c.kind, chain |-> c.chain, check |-> c.check, threads |-> v,
                                  memlimit |-> c.memlimit, flags |-> c.flags]
  BY DEF IsCoder
<1>5. [c EXCEPT !.memlimit = v] = [kind |-> c.kind, chain |-> c.chain, check |-> c.check, threads |-> c.threads,
                                   memlimit |-> v, flags |-> c.flags]
  BY DEF IsCoder
<1>6. [c EXCEPT !.flags = v] = [kind |-> c.kind, chain |-> c.chain, check |-> c.check, threads |-> c.threads,
                                memlimit |-> c.memlimit, flags |-> v]
  BY DEF IsCoder
<1>7. \A k, h, e, t, m, f :
        IsCoder([kind |-> k, chain |-> h, check |-> e, threads |-> t, memlimit |-> m, flags |-> f])
  BY DEF IsCoder
<1> QED
  BY <1>1, <1>2, <1>3, <1>4, <1>5, <1>6, <1>7

LEMMA MakersMakeCoders ==
  ASSUME NEW kind, NEW chain, NEW check, NEW threads, NEW memlimit, NEW flags
  PROVE  /\ IsCoder(Encoder(kind, chain, check, threads)) /\ Encoder(kind, chain, check, threads).kind = kind
         /\ IsCoder(Decoder(kind, memlimit, flags)) /\ Decoder(kind, memlimit, flags).kind = kind
         /\ Decoder(kind, memlimit, flags).memlimit = memlimit
         /\ IsCoder(TypeError) /\ TypeError.kind = "TypeError"
         /\ IsCoder(NoCoderAtAll) /\ NoCoderAtAll.kind = "none"
<1>1. IsCoder(NoCoderAtAll) /\ NoCoderAtAll.kind = "none"
  BY DEF IsCoder, NoCoderAtAll
<1>2. IsCoder(TypeError) /\ TypeError.kind = "TypeError"
  BY DEF IsCoder, TypeError, NoCoderAtAll
<1>3. /\ IsCoder(Encoder(kind, chain, check, threads))
      /\ Encoder(kind, chain, check, threads).kind = kind
  <2> DEFINE r1 == [NoCoderAtAll EXCEPT !.kind = kind]
             r2 == [r1 EXCEPT !.chain = chain]
             r3 == [r2 EXCEPT !.check = check]
             r4 == [r3 EXCEPT !.threads = threads]
  <2>1. Encoder(kind, chain, check, threads) = r4
    BY DEF Encoder
  <2>2. IsCoder(r1) /\ r1.kind = kind
    BY <1>1, SetsOneField
  <2>3. IsCoder(r2) /\ r2.kind = kind
    <3> HIDE DEF r1
    <3> QED
      BY <2>2, SetsOneField
  <2>4. IsCoder(r3) /\ r3.kind = kind
    <3> HIDE DEF r2
    <3> QED
      BY <2>3, SetsOneField
  <2>5. IsCoder(r4) /\ r4.kind = kind
    <3> HIDE DEF r3
    <3> QED
      BY <2>4, SetsOneField
  <2> QED
    BY <2>1, <2>5
<1>4. /\ IsCoder(Decoder(kind, memlimit, flags))
      /\ Decoder(kind, memlimit, flags).kind = kind /\ Decoder(kind, memlimit, flags).memlimit = memlimit
  <2> DEFINE r1 == [NoCoderAtAll EXCEPT !.kind = kind]
             r2 == [r1 EXCEPT !.memlimit = memlimit]
             r3 == [r2 EXCEPT !.flags = flags]
  <2>1. Decoder(kind, memlimit, flags) = r3
    BY DEF Decoder
  <2>2. IsCoder(r1) /\ r1.kind = kind
    BY <1>1, SetsOneField
  <2>3. IsCoder(r2) /\ r2.kind = kind /\ r2.memlimit = memlimit
    <3> HIDE DEF r1
    <3> QED
      BY <2>2, SetsOneField
  <2>4. IsCoder(r3) /\ r3.kind = kind /\ r3.memlimit = memlimit
    <3> HIDE DEF r2
    <3> QED
      BY <2>3, SetsOneField
  <2> QED
    BY <2>1, <2>4
<1> QED
  BY <1>1, <1>2, <1>3, <1>4

LEMMA FiltersMakeCoders ==
  ASSUME NEW filters, NEW c, IsCoder(c), ~HasMemconfig(c)
  PROVE  IsCoder(WithFilters(filters, c)) /\ ~HasMemconfig(WithFilters(filters, c))
BY MakersMakeCoders DEF WithFilters, HasMemconfig

(* Only the decoders with a memory limit have one, the one of the options. *)
LEMMA MethodsMakeCoders ==
  ASSUME NEW name, NEW options
  PROVE  /\ IsCoder(CoderMethod(name, options))
         /\ HasMemconfig(CoderMethod(name, options)) =>
              CoderMethod(name, options).memlimit = NumberToUint64ClampNullMax(Memlimit(options))
<1> DEFINE Fits(c) ==
      /\ IsCoder(c)
      /\ HasMemconfig(c) => c.memlimit = NumberToUint64ClampNullMax(Memlimit(options))
<1>1. \A kind, chain, check, threads :
        kind \in {"streamEncoder", "mtEncoder", "rawEncoder", "rawDecoder", "aloneEncoder"}
          => IsCoder(Encoder(kind, chain, check, threads)) /\ ~HasMemconfig(Encoder(kind, chain, check, threads))
  BY MakersMakeCoders DEF HasMemconfig
<1>2. \A kind, chain, check, threads, filters :
        kind \in {"streamEncoder", "mtEncoder", "rawEncoder", "rawDecoder", "aloneEncoder"}
          => Fits(WithFilters(filters, Encoder(kind, chain, check, threads)))
  BY <1>1, FiltersMakeCoders
<1>3. \A opt : Fits(mtEncoder_(opt))
  BY <1>1, <1>2 DEF mtEncoder_
<1>4. Fits(easyEncoder(options))
  <2>1. \A preset, check : Fits(easyEncoder_(preset, check))
    BY <1>1 DEF easyEncoder_
  <2> HIDE DEF Fits
  <2> QED
    BY <1>3, <2>1, Zenon DEF easyEncoder
<1>5. Fits(streamEncoder(options))
  <2>1. \A filters, check : Fits(streamEncoder_(filters, check))
    BY <1>2 DEF streamEncoder_
  <2> HIDE DEF Fits
  <2> QED
    BY <1>3, <2>1, Zenon DEF streamEncoder
<1>6. Fits(aloneEncoder(options))
  BY <1>1 DEF aloneEncoder
<1>7. \A filters : Fits(rawEncoder_(filters)) /\ Fits(rawDecoder_(filters))
  BY <1>2 DEF rawEncoder_, rawDecoder_
<1>8. \A kind, flags : Fits(Decoder(kind, NumberToUint64ClampNullMax(Memlimit(options)), flags))
  BY MakersMakeCoders
<1>9. \A flags : /\ Fits(streamDecoder_(Memlimit(options), flags))
                 /\ Fits(autoDecoder_(Memlimit(options), flags))
                 /\ Fits(aloneDecoder_(Memlimit(options)))
  BY <1>8 DEF streamDecoder_, autoDecoder_, aloneDecoder_
<1>10. Fits(TypeError)
  BY MakersMakeCoders DEF HasMemconfig
<1>11. Fits(CoderMethod(name, options))
  <2> HIDE DEF Fits
  <2> QED
    BY <1>4, <1>5, <1>6, <1>7, <1>9, <1>10 DEF CoderMethod
<1> QED
  BY <1>11

(* createStream sets the limit of the options once more, which changes     *)
(* nothing: the coder is the one that was asked for.                       *)
LEMMA CreatedAsAsked ==
  ASSUME NEW name, NEW options, NEW asked, NEW memlimit,
         asked = CoderMethod(name, options), memlimit = Get(options, "memlimit"),
         ~CreateThrows(asked, memlimit), memlimit \notin Falsy
  PROVE  WithLimit(asked, NumberToUint64ClampNullMax(memlimit)) = asked
<1>1. HasMemconfig(asked)
  BY DEF CreateThrows, LimitRefused
<1>2. Memlimit(options) = memlimit
  BY DEF Memlimit, Or
<1>3. IsCoder(asked) /\ asked.memlimit = NumberToUint64ClampNullMax(memlimit)
  BY <1>1, <1>2, MethodsMakeCoders
<1> DEFINE limit == NumberToUint64ClampNullMax(memlimit)
<1> HIDE DEF limit
<1>4. [asked EXCEPT !.memlimit = limit] = asked
  BY <1>3 DEF IsCoder, limit
<1> QED
  BY <1>4 DEF WithLimit, limit

-----------------------------------------------------------------------------
(* Coders over the life of a stream *)

Functions ==
  /\ Shape
  /\ call = [s \in Streams |-> call[s]]
  /\ coder = [s \in Streams |-> coder[s]]
  /\ limitSet \in [Streams -> {0} \cup MemusageBase .. NoLimit]

(* An open stream has the coder it was created with, as its first call and *)
(* every restart set it up, but for the limit that memlimitSet has set.    *)
AsAsked(s) ==
  LET limit == coder[s].memlimit IN
  /\ call[s] \in Calls
  /\ IsCoder(coder[s]) /\ Accepts(coder[s]) /\ Accepts(Again(s))
  /\ coder[s] = [Again(s) EXCEPT !.memlimit = limit]
  /\ limit \in {Again(s).memlimit} \cup ({limitSet[s]} \ {0})

SetupInv ==
  /\ Functions
  /\ \A s \in Streams : /\ status[s] \in {"open", "lost"} <=> Accepts(coder[s])
                        /\ status[s] = "open" => AsAsked(s)

LEMMA NoCoderIsNotAccepted == ~Accepts(NoCoderAtAll)
BY DEF Accepts, NoCoderAtAll

LEMMA InitSetup == Init => SetupInv
BY NoCoderIsNotAccepted DEF Init, SetupInv, Functions, Shape, Statuses

(* A stream is not disturbed by what happens to another. *)
LEMMA OtherStream ==
  ASSUME NEW s \in Streams, call'[s] = call[s], coder'[s] = coder[s], limitSet'[s] = limitSet[s],
         status'[s] = status[s],
         /\ status[s] \in {"open", "lost"} <=> Accepts(coder[s])
         /\ status[s] = "open" => AsAsked(s)
  PROVE  /\ status'[s] \in {"open", "lost"} <=> Accepts(coder'[s])
         /\ status'[s] = "open" => AsAsked(s)'
<1>1. Again(s)' = Again(s)
  BY DEF Again, Options
<1> QED
  BY <1>1 DEF AsAsked

LEMMA CreateSetup ==
  ASSUME SetupInv, NEW s \in Streams, CreateStream(s)
  PROVE  SetupInv'
<1> USE DEF SetupInv, Functions, Shape
<1>1. PICK c \in Calls :
        LET options == Settled(c).options
            asked == CoderMethod(Settled(c).coder, options)
            memlimit == Get(options, "memlimit")
            sync == Get(options, "synchronous") \notin Falsy
        IN /\ call' = [call EXCEPT ![s] = c]
           /\ IF CreateThrows(asked, memlimit)
              THEN /\ status' = [status EXCEPT ![s] = "thrown"]
                   /\ UNCHANGED <<coder, synchronous, curAsyncStreamsCount>>
              ELSE /\ status' = [status EXCEPT ![s] =
                        IF BufsizeThrows(Get(options, "bufsize")) THEN "lost" ELSE "open"]
                   /\ coder' = [coder EXCEPT ![s] =
                        IF memlimit \in Falsy THEN asked
                        ELSE WithLimit(asked, NumberToUint64ClampNullMax(memlimit))]
                   /\ synchronous' = [synchronous EXCEPT ![s] = sync]
  BY DEF CreateStream
<1> DEFINE asked == Asked(c)
           memlimit == Get(Settled(c).options, "memlimit")
<1>2. status[s] = "none" /\ limitSet' = limitSet /\ call' = [call EXCEPT ![s] = c]
  BY <1>1 DEF CreateStream
<1>3. call' = [t \in Streams |-> call'[t]] /\ call'[s] = c
      /\ \A t \in Streams : t # s => call'[t] = call[t]
  BY <1>2
<1>4. Again(s)' = asked
  BY <1>3 DEF Again, Options, Asked
<1>5. CASE CreateThrows(asked, memlimit)
  <2>1. status' = [status EXCEPT ![s] = "thrown"] /\ UNCHANGED <<coder, synchronous>>
    BY <1>1, <1>5 DEF Asked
  <2>2. Functions'
    BY <1>2, <1>3, <2>1 DEF Statuses
  <2>3. ASSUME NEW t \in Streams
        PROVE  /\ status'[t] \in {"open", "lost"} <=> Accepts(coder'[t])
               /\ status'[t] = "open" => AsAsked(t)'
    <3>1. CASE t = s
      BY <1>2, <2>1, <3>1
    <3>2. CASE t # s
      <4>1. call'[t] = call[t] /\ coder'[t] = coder[t] /\ limitSet'[t] = limitSet[t] /\ status'[t] = status[t]
        BY <1>2, <1>3, <2>1, <3>2
      <4> QED
        BY <4>1, OtherStream
    <3> QED
      BY <3>1, <3>2
  <2> QED
    BY <2>2, <2>3
<1>6. CASE ~CreateThrows(asked, memlimit)
  <2>1. PICK st \in {"lost", "open"}, sync \in BOOLEAN :
          /\ status' = [status EXCEPT ![s] = st]
          /\ synchronous' = [synchronous EXCEPT ![s] = sync]
          /\ coder' = [coder EXCEPT ![s] =
               IF memlimit \in Falsy THEN asked
               ELSE WithLimit(asked, NumberToUint64ClampNullMax(memlimit))]
    BY <1>1, <1>6 DEF Asked
  <2>2. coder' = [coder EXCEPT ![s] = asked]
    <3>1. asked = CoderMethod(Settled(c).coder, Settled(c).options)
      BY DEF Asked
    <3>2. memlimit \notin Falsy => WithLimit(asked, NumberToUint64ClampNullMax(memlimit)) = asked
      BY <1>6, <3>1, CreatedAsAsked
    <3> HIDE DEF asked, memlimit
    <3>3. CASE memlimit \in Falsy
      BY <2>1, <3>3
    <3>4. CASE memlimit \notin Falsy
      BY <2>1, <3>2, <3>4
    <3> QED
      BY <3>3, <3>4
  <2>3. Accepts(asked) /\ IsCoder(asked)
    BY <1>6, MethodsMakeCoders DEF CreateThrows, Asked
  <2> HIDE DEF asked, memlimit
  <2>4. Functions'
    BY <1>2, <1>3, <2>1, <2>2 DEF Statuses
  <2>5. ASSUME NEW t \in Streams
        PROVE  /\ status'[t] \in {"open", "lost"} <=> Accepts(coder'[t])
               /\ status'[t] = "open" => AsAsked(t)'
    <3>1. CASE t = s
      <4>1. coder'[s] = asked /\ status'[s] \in {"lost", "open"}
        BY <2>1, <2>2
      <4>2. asked = [asked EXCEPT !.memlimit = asked.memlimit]
        BY <2>3 DEF IsCoder
      <4>3. AsAsked(s)'
        BY <1>3, <1>4, <2>3, <4>1, <4>2 DEF AsAsked
      <4> QED
        BY <2>3, <3>1, <4>1, <4>3
    <3>2. CASE t # s
      <4>1. call'[t] = call[t] /\ coder'[t] = coder[t] /\ limitSet'[t] = limitSet[t] /\ status'[t] = status[t]
        BY <1>2, <1>3, <2>1, <2>2, <3>2
      <4> QED
        BY <4>1, OtherStream
    <3> QED
      BY <3>1, <3>2
  <2> QED
    BY <2>4, <2>5
<1> QED
  BY <1>5, <1>6

LEMMA LimitMakesCoder ==
  ASSUME NEW c, IsCoder(c), NEW l
  PROVE  IsCoder([c EXCEPT !.memlimit = l]) /\ [c EXCEPT !.memlimit = l].memlimit = l
BY SetsOneField

(* A limit set twice is the second limit. *)
LEMMA LimitSetTwice ==
  ASSUME NEW a, IsCoder(a), NEW m, NEW l
  PROVE  [[a EXCEPT !.memlimit = m] EXCEPT !.memlimit = l] = [a EXCEPT !.memlimit = l]
<1>1. [a EXCEPT !.memlimit = m] = [kind |-> a.kind, chain |-> a.chain, check |-> a.check, threads |-> a.threads,
                                   memlimit |-> m, flags |-> a.flags]
  BY DEF IsCoder
<1>2. [a EXCEPT !.memlimit = l] = [kind |-> a.kind, chain |-> a.chain, check |-> a.check, threads |-> a.threads,
                                   memlimit |-> l, flags |-> a.flags]
  BY DEF IsCoder
<1> DEFINE b == [a EXCEPT !.memlimit = m]
<1>3. b = [kind |-> a.kind, chain |-> a.chain, check |-> a.check, threads |-> a.threads,
           memlimit |-> m, flags |-> a.flags]
  BY <1>1
<1> HIDE DEF b
<1>4. [b EXCEPT !.memlimit = l] = [kind |-> a.kind, chain |-> a.chain, check |-> a.check, threads |-> a.threads,
                                   memlimit |-> l, flags |-> a.flags]
  BY <1>3
<1> QED
  BY <1>2, <1>4 DEF b

(* A decoder is accepted with every other limit but 0. *)
LEMMA AcceptsOtherLimit ==
  ASSUME NEW c, IsCoder(c), Accepts(c), HasMemconfig(c), NEW l, l # 0
  PROVE  Accepts([c EXCEPT !.memlimit = l])
<1> DEFINE d == [c EXCEPT !.memlimit = l]
<1>1. d = [kind |-> c.kind, chain |-> c.chain, check |-> c.check, threads |-> c.threads,
           memlimit |-> l, flags |-> c.flags]
  BY DEF IsCoder
<1>2. d.kind = c.kind /\ d.memlimit = l /\ d.flags = c.flags
  BY <1>1
<1> HIDE DEF d
<1>3. Accepts(d)
  BY <1>2 DEF Accepts, HasMemconfig
<1> QED
  BY <1>3 DEF d

(* What memlimitSet hands on is a uint64_t. *)
LEMMA LimitsAreUint64 ==
  ASSUME NEW v \in Limits, IsNumber(v)
  PROVE  NumberToUint64ClampNullMax(v) \in 0 .. NoLimit
<1>1. Int64Value(v) \in Int
  BY LimitsAssumption DEF Int64Value, HasNumber, NumberOf, IsNumber, Int64Max, Int64Min
<1> QED
  BY <1>1 DEF NumberToUint64ClampNullMax, Uint64, Uint64Max, NoLimit

LEMMA MemlimitSetSetup ==
  ASSUME SetupInv, NEW s \in Streams, MemlimitSet(s)
  PROVE  SetupInv'
<1> USE DEF SetupInv, Functions, Shape
<1>1. PICK v \in Limits :
        LET limit == NumberToUint64ClampNullMax(v) IN
        /\ IsNumber(v) /\ ~LimitRefused(coder[s], limit)
        /\ coder' = [coder EXCEPT ![s] = WithLimit(coder[s], limit)]
        /\ limitSet' = [limitSet EXCEPT ![s] = IF limit = 0 THEN limitSet[s] ELSE limit]
  BY DEF MemlimitSet
<1> DEFINE limit == NumberToUint64ClampNullMax(v)
<1>2. limit \in 0 .. NoLimit
  BY <1>1, LimitsAreUint64
<1>3. HasMemconfig(coder[s]) /\ (limit = 0 \/ limit \in MemusageBase .. NoLimit)
  BY <1>1, <1>2 DEF LimitRefused, MemusageBase, NoLimit, Uint64Max
<1>4. /\ coder' = [coder EXCEPT ![s] = WithLimit(coder[s], limit)]
      /\ limitSet' = [limitSet EXCEPT ![s] = IF limit = 0 THEN limitSet[s] ELSE limit]
  BY <1>1
<1>5. /\ status[s] = "open" /\ status' = status /\ call' = call /\ synchronous' = synchronous
      /\ AsAsked(s)
  BY DEF MemlimitSet
<1> HIDE DEF limit
<1>6. Functions'
  BY <1>3, <1>4, <1>5
<1>7. Again(s)' = Again(s)
  BY <1>5 DEF Again, Options
<1>8. IsCoder(Again(s))
  BY MethodsMakeCoders DEF Again
<1>9. Accepts(coder'[s]) /\ AsAsked(s)'
  <2>1. CASE limit = 0
    <3>1. coder'[s] = coder[s] /\ limitSet'[s] = limitSet[s] /\ call'[s] = call[s]
      BY <1>4, <1>5, <2>1 DEF WithLimit
    <3> QED
      BY <1>5, <1>7, <3>1 DEF AsAsked
  <2>2. CASE limit # 0
    <3>1. coder'[s] = [coder[s] EXCEPT !.memlimit = limit] /\ limitSet'[s] = limit
      BY <1>4, <2>2 DEF WithLimit
    <3>2. IsCoder(coder'[s]) /\ coder'[s].memlimit = limit
      <4>1. IsCoder(coder[s])
        BY <1>5 DEF AsAsked
      <4>2. /\ IsCoder([coder[s] EXCEPT !.memlimit = limit])
            /\ [coder[s] EXCEPT !.memlimit = limit].memlimit = limit
        BY <4>1, LimitMakesCoder, Zenon
      <4> QED
        BY <3>1, <4>2
    <3>3. Accepts(coder'[s])
      <4>1. IsCoder(coder[s]) /\ Accepts(coder[s]) /\ HasMemconfig(coder[s])
        BY <1>3, <1>5 DEF AsAsked
      <4>2. Accepts([coder[s] EXCEPT !.memlimit = limit])
        BY <2>2, <4>1, AcceptsOtherLimit
      <4> QED
        BY <3>1, <4>2
    <3>4. coder'[s] = [Again(s) EXCEPT !.memlimit = limit]
      <4>1. coder[s] = [Again(s) EXCEPT !.memlimit = coder[s].memlimit]
        BY <1>5 DEF AsAsked
      <4>2. [[Again(s) EXCEPT !.memlimit = coder[s].memlimit] EXCEPT !.memlimit = limit]
              = [Again(s) EXCEPT !.memlimit = limit]
        BY <1>8, LimitSetTwice
      <4> QED
        BY <3>1, <4>1, <4>2
    <3>5. call'[s] \in Calls /\ Accepts(Again(s))
      BY <1>5 DEF AsAsked
    <3>6. coder'[s].memlimit \in {limitSet'[s]} \ {0}
      BY <2>2, <3>1, <3>2
    <3> QED
      BY <1>7, <3>2, <3>3, <3>4, <3>5, <3>6 DEF AsAsked
  <2> QED
    BY <2>1, <2>2
<1>10. ASSUME NEW t \in Streams
       PROVE  /\ status'[t] \in {"open", "lost"} <=> Accepts(coder'[t])
              /\ status'[t] = "open" => AsAsked(t)'
  <2>1. CASE t = s
    BY <1>5, <1>9, <2>1
  <2>2. CASE t # s
    <3>1. call'[t] = call[t] /\ coder'[t] = coder[t] /\ limitSet'[t] = limitSet[t] /\ status'[t] = status[t]
      BY <1>4, <1>5, <2>2
    <3> QED
      BY <3>1, OtherStream
  <2> QED
    BY <2>1, <2>2
<1> QED
  BY <1>6, <1>10

(* A restart asks for the same coder again, and gets it. *)
LEMMA RestartSetup ==
  ASSUME SetupInv, NEW s \in Streams, Restart(s)
  PROVE  SetupInv'
<1> USE DEF SetupInv, Functions, Shape
<1>1. /\ status[s] = "open" /\ AsAsked(s)
      /\ UNCHANGED <<call, status, limitSet, synchronous>>
  BY DEF Restart
<1>2. coder' = [coder EXCEPT ![s] = Again(s)]
  BY <1>1 DEF Restart, AsAsked
<1>3. Functions'
  BY <1>1, <1>2
<1>4. Again(s)' = Again(s)
  BY <1>1 DEF Again, Options
<1>5. IsCoder(Again(s))
  BY MethodsMakeCoders DEF Again
<1>6. AsAsked(s)' /\ Accepts(coder'[s])
  <2>1. coder'[s] = Again(s) /\ Accepts(Again(s)) /\ call'[s] \in Calls
    BY <1>1, <1>2 DEF AsAsked
  <2> DEFINE again == Again(s)
  <2>2. Again(s) = [Again(s) EXCEPT !.memlimit = Again(s).memlimit]
    <3>1. IsCoder(again)
      BY <1>5
    <3> HIDE DEF again
    <3>2. again = [again EXCEPT !.memlimit = again.memlimit]
      BY <3>1 DEF IsCoder
    <3> QED
      BY <3>2 DEF again
  <2> QED
    BY <1>4, <1>5, <2>1, <2>2 DEF AsAsked
<1>7. ASSUME NEW t \in Streams
      PROVE  /\ status'[t] \in {"open", "lost"} <=> Accepts(coder'[t])
             /\ status'[t] = "open" => AsAsked(t)'
  <2>1. CASE t = s
    BY <1>1, <1>6, <2>1
  <2>2. CASE t # s
    <3>1. call'[t] = call[t] /\ coder'[t] = coder[t] /\ limitSet'[t] = limitSet[t] /\ status'[t] = status[t]
      BY <1>1, <1>2, <2>2
    <3> QED
      BY <3>1, OtherStream
  <2> QED
    BY <2>1, <2>2
<1> QED
  BY <1>3, <1>7

(* A stream that is cleaned up has no coder any more. *)
LEMMA CleanupSetup ==
  ASSUME SetupInv, NEW s \in Streams, Cleanup(s)
  PROVE  SetupInv'
<1> USE DEF SetupInv, Functions, Shape
<1>1. /\ status' = [status EXCEPT ![s] = "cleaned"]
      /\ coder' = [coder EXCEPT ![s] = NoCoderAtAll]
      /\ UNCHANGED <<call, limitSet, synchronous>>
  BY DEF Cleanup
<1>2. Functions'
  BY <1>1 DEF Statuses
<1>3. ASSUME NEW t \in Streams
      PROVE  /\ status'[t] \in {"open", "lost"} <=> Accepts(coder'[t])
             /\ status'[t] = "open" => AsAsked(t)'
  <2>1. CASE t = s
    BY <1>1, <2>1, NoCoderIsNotAccepted
  <2>2. CASE t # s
    <3>1. call'[t] = call[t] /\ coder'[t] = coder[t] /\ limitSet'[t] = limitSet[t] /\ status'[t] = status[t]
      BY <1>1, <2>2
    <3> QED
      BY <3>1, OtherStream
  <2> QED
    BY <2>1, <2>2
<1> QED
  BY <1>2, <1>3

LEMMA NextSetup ==
  ASSUME SetupInv, [Next]_vars
  PROVE  SetupInv'
<1>1. CASE UNCHANGED vars
  <2>1. Functions'
    BY <1>1 DEF SetupInv, Functions, Shape, vars
  <2>2. ASSUME NEW s \in Streams
        PROVE  /\ status'[s] \in {"open", "lost"} <=> Accepts(coder'[s])
               /\ status'[s] = "open" => AsAsked(s)'
    <3>1. call'[s] = call[s] /\ coder'[s] = coder[s] /\ limitSet'[s] = limitSet[s] /\ status'[s] = status[s]
      BY <1>1 DEF vars
    <3> QED
      BY <3>1, OtherStream DEF SetupInv
  <2> QED
    BY <2>1, <2>2 DEF SetupInv
<1>2. ASSUME NEW s \in Streams, CreateStream(s) PROVE SetupInv'
  BY <1>2, CreateSetup
<1>3. ASSUME NEW s \in Streams, MemlimitSet(s) PROVE SetupInv'
  BY <1>3, MemlimitSetSetup
<1>4. ASSUME NEW s \in Streams, Restart(s) PROVE SetupInv'
  BY <1>4, RestartSetup
<1>5. ASSUME NEW s \in Streams, Cleanup(s) PROVE SetupInv'
  BY <1>5, CleanupSetup
<1> QED
  BY <1>1, <1>2, <1>3, <1>4, <1>5 DEF Next

(* Every variable stays in its type; above all, the streams with a coder   *)
(* that liblzma accepts are those that createStream has not thrown for and *)
(* that are not cleaned up, through every restart and memlimitSet          *)
(* (index.js 40-53, 246-264; src/lzma-stream.cpp 321-330), and the count   *)
(* is never negative.                                                      *)
THEOREM CodersLiveWithTheirStreams == Spec => []TypeOK
<1>1. Spec => []CountExact
  BY StreamsAreCounted
<1>2. SetupInv /\ CountExact => TypeOK
  BY CountedFinite DEF SetupInv, Functions, Shape, Statuses, CountExact, TypeOK
<1> QED
  BY InitSetup, NextSetup, <1>1, <1>2, PTL DEF Spec

(* When the methods ask for the coder that the README (346-377) describes  *)
(* for every call by itself, then an open stream has that coder at every   *)
(* time: the limit createStream sets once more, memlimitSet and _restart   *)
(* (index.js 246-264, 287-288) change nothing but the limit, in whatever   *)
(* order they and the calls for other streams come.                        *)
THEOREM CodersStayAsAsked == Documented /\ Spec => []CoderAsAsked
<1>1. Documented /\ SetupInv => CoderAsAsked
  <2> SUFFICES ASSUME Documented, SetupInv, NEW s \in Streams, status[s] = "open", Asks(s)
               PROVE  LET limit == coder[s].memlimit IN
                      /\ coder[s] = [call[s].wanted EXCEPT !.memlimit = limit]
                      /\ limit \in {call[s].wanted.memlimit} \cup ({limitSet[s]} \ {0})
    BY DEF CoderAsAsked
  <2>1. AsAsked(s)
    BY DEF SetupInv
  <2>2. call[s].wanted = Again(s)
    BY <2>1 DEF Documented, Asks, AsAsked, Again, Options
  <2> QED
    BY <2>1, <2>2 DEF AsAsked
<1>2. Documented /\ [Next]_vars => Documented'
  BY DEF Documented
<1> QED
  BY InitSetup, NextSetup, <1>1, <1>2, PTL DEF Spec

-----------------------------------------------------------------------------
(* Calls that are taken *)

(* A stream remembers its call, and has thrown only for a call the README  *)
(* gives no meaning.                                                       *)
TakenInv ==
  /\ call = [s \in Streams |-> call[s]]
  /\ status = [s \in Streams |-> status[s]]
  /\ DocumentedAccepted

(* Where README and methods agree, and liblzma takes what the README       *)
(* describes, createStream has nothing to throw for: the limit it sets     *)
(* once more is the one the coder was set up with.                         *)
LEMMA NothingToThrowFor ==
  ASSUME Documented, Sensible, NEW c \in Calls, c.wanted # undefined
  PROVE  ~CreateThrows(Asked(c), Get(Settled(c).options, "memlimit"))
<1> DEFINE options == Settled(c).options
           memlimit == Get(options, "memlimit")
<1>1. c.wanted = Asked(c)
  BY DEF Documented, Asked
<1>2. Accepts(Asked(c))
  BY <1>1 DEF Sensible
<1>3. ASSUME memlimit \notin Falsy
      PROVE  IsNumber(memlimit) /\ ~LimitRefused(Asked(c), NumberToUint64ClampNullMax(memlimit))
  <2>1. IsNumber(memlimit) /\ HasMemconfig(Asked(c)) /\ Asked(c).memlimit \in MemusageBase .. NoLimit
    BY <1>1, <1>3 DEF Sensible
  <2>2. Memlimit(options) = memlimit
    BY <1>3 DEF Memlimit, Or
  <2>3. Asked(c).memlimit = NumberToUint64ClampNullMax(memlimit)
    BY <2>1, <2>2, MethodsMakeCoders DEF Asked
  <2> DEFINE limit == NumberToUint64ClampNullMax(memlimit)
  <2>4. limit \in MemusageBase .. NoLimit
    BY <2>1, <2>3
  <2> HIDE DEF limit, memlimit
  <2>5. ~(limit < MemusageBase)
    BY <2>4 DEF MemusageBase, NoLimit, Uint64Max
  <2> QED
    BY <2>1, <2>5 DEF LimitRefused, limit
<1> QED
  BY <1>2, <1>3 DEF CreateThrows

(* createStream throws for such a call in no state of the other streams.   *)
LEMMA CreateTakes ==
  ASSUME Documented, Sensible, TakenInv, NEW s \in Streams, CreateStream(s)
  PROVE  TakenInv'
<1>1. PICK c \in Calls :
        LET options == Settled(c).options
            asked == CoderMethod(Settled(c).coder, options)
            memlimit == Get(options, "memlimit")
        IN /\ call' = [call EXCEPT ![s] = c]
           /\ IF CreateThrows(asked, memlimit)
              THEN status' = [status EXCEPT ![s] = "thrown"]
              ELSE status' = [status EXCEPT ![s] =
                     IF BufsizeThrows(Get(options, "bufsize")) THEN "lost" ELSE "open"]
  BY DEF CreateStream
<1>2. call' = [call EXCEPT ![s] = c]
  BY <1>1
<1>3. PICK st \in {"thrown", "lost", "open"} :
        /\ status' = [status EXCEPT ![s] = st]
        /\ st = "thrown" => CreateThrows(Asked(c), Get(Settled(c).options, "memlimit"))
  BY <1>1 DEF Asked
<1>4. /\ call' = [t \in Streams |-> call'[t]]
      /\ status' = [t \in Streams |-> status'[t]]
  BY <1>2, <1>3 DEF TakenInv
<1>5. ASSUME NEW t \in Streams, Asks(t)'
      PROVE  status'[t] # "thrown"
  <2>1. CASE t = s
    <3>1. call'[s] = c /\ status'[s] = st
      BY <1>2, <1>3 DEF TakenInv
    <3>2. c.wanted # undefined
      BY <1>5, <2>1, <3>1 DEF Asks
    <3> QED
      BY <1>3, <2>1, <3>1, <3>2, NothingToThrowFor
  <2>2. CASE t # s
    <3>1. call'[t] = call[t] /\ status'[t] = status[t]
      BY <1>2, <1>3, <2>2 DEF TakenInv
    <3> QED
      BY <1>5, <3>1 DEF Asks, TakenInv, DocumentedAccepted
  <2> QED
    BY <2>1, <2>2
<1> QED
  BY <1>4, <1>5 DEF TakenInv, DocumentedAccepted

(* createStream does not throw for a call whose options the README         *)
(* (346-377) gives a meaning, whatever streams there are and whatever has  *)
(* been done with them: what it checks when it sets the limit once more    *)
(* (index.js 287-288) holds of every coder the README describes.           *)
THEOREM DocumentedCallsAreTaken == Documented /\ Sensible /\ Spec => []DocumentedAccepted
<1>1. Init => TakenInv
  BY DEF Init, TakenInv, DocumentedAccepted, Asks
<1>2. Documented /\ Sensible /\ TakenInv /\ [Next]_vars => TakenInv'
  <2> SUFFICES ASSUME Documented, Sensible, TakenInv, [Next]_vars PROVE TakenInv'
    OBVIOUS
  <2>1. CASE UNCHANGED vars
    BY <2>1 DEF vars, TakenInv, DocumentedAccepted, Asks
  <2>2. ASSUME NEW s \in Streams, CreateStream(s) PROVE TakenInv'
    BY <2>2, CreateTakes
  <2>3. ASSUME NEW s \in Streams, MemlimitSet(s) \/ Restart(s) PROVE TakenInv'
    BY <2>3 DEF MemlimitSet, Restart, TakenInv, DocumentedAccepted, Asks
  <2>4. ASSUME NEW s \in Streams, Cleanup(s) PROVE TakenInv'
    <3>1. call' = call /\ status' = [status EXCEPT ![s] = "cleaned"]
      BY <2>4 DEF Cleanup
    <3> QED
      BY <3>1 DEF TakenInv, DocumentedAccepted, Asks
  <2> QED
    BY <2>1, <2>2, <2>3, <2>4 DEF Next
<1>3. Documented /\ [Next]_vars => Documented'
  BY DEF Documented
<1>4. Sensible /\ [Next]_vars => Sensible'
  BY DEF Sensible
<1>5. TakenInv => DocumentedAccepted
  BY DEF TakenInv
<1> QED
  BY <1>1, <1>2, <1>3, <1>4, <1>5, PTL DEF Spec

=============================================================================
