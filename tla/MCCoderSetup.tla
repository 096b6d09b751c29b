---------------------------- MODULE MCCoderSetup ----------------------------
(* Values of the constants of CoderSetup for TLC: calls that the README    *)
(* gives a meaning, with the coder it describes, and calls it does not.    *)
EXTENDS CoderSetup

Call(function, first, second, wanted) ==
  [function |-> function, first |-> first, second |-> second, wanted |-> wanted]
Create(name, fields, wanted) == Call("createStream", Str(name), Obj(fields), wanted)

(* easyEncoder: presets, with and without a check and threads; CpuThreads  *)
(* stand for 0.                                                            *)
Easy(kind, preset, check, threads) ==
  Encoder(kind, << [id |-> LZMA2, options |-> LzmaPreset(preset)] >>, check, threads)

EasyCalls ==
  {Create("easyEncoder", "preset" :> Num(p), Easy("streamEncoder", p, 1, 1)) : p \in {1, 9, EXTREME + 9}}
  \cup {Create("easyEncoder", [preset |-> Num(p), check |-> Num(c), synchronous |-> Num(1)],
               Easy("streamEncoder", p, c, 1)) : p \in {1, 6}, c \in {4, 10}}
  \cup {Create("easyEncoder", [preset |-> Num(p), check |-> Num(c), threads |-> Num(t)],
               Easy("mtEncoder", p, c, IF t = 0 THEN CpuThreads ELSE t))
          : p \in {0, 3}, c \in {0, 4}, t \in {0, 2}}
  \cup {Create("easyEncoder", "threads" :> Num(2), Easy("mtEncoder", 6, 1, 2))}

(* The ways to ask for a preset. *)
SpelledCalls ==
  {Call("createStream", Num(3), undefined, Easy("streamEncoder", 3, 1, 1)),
   Call("createStream", Obj("preset" :> Num(3)), undefined, Easy("streamEncoder", 3, 1, 1)),
   Call("createStream", Str("easyEncoder"), Num(3), Easy("streamEncoder", 3, 1, 1)),
   Call("createStream", Str("easyEncoder"), Str("6"), Easy("streamEncoder", 6, 1, 1)),
   Call("createStream", undefined, undefined, Easy("streamEncoder", 6, 1, 1)),
   Call("createCompressor", Num(3), undefined, Easy("streamEncoder", 3, 1, 1)),
   Call("createCompressor", undefined, undefined, Easy("streamEncoder", 6, 1, 1)),
   Call("Compressor", Num(3), Obj("check" :> Num(4)), Easy("streamEncoder", 3, 4, 1)),
   Call("Compressor", undefined, Obj("preset" :> Num(3)), Easy("streamEncoder", 3, 1, 1)),
   Call("LZMA().compress", Num(3), undefined,
        Encoder("aloneEncoder", << [id |-> LZMA1, options |-> LzmaPreset(3)] >>, 0, 1))}

(* Filters, and what liblzma is to read of them. *)
Entry(name) == Obj("id" :> Str(name))
With(name, fields) == Obj([id |-> Str(name), options |-> Obj(fields)])

Lzma2 == [id |-> LZMA2, options |-> LzmaDefaults]
Chains ==
  {[given |-> <<Entry("LZMA_FILTER_LZMA2")>>, read |-> <<Lzma2>>],
   [given |-> <<Entry("LZMA_FILTER_X86"), Entry("LZMA_FILTER_LZMA2")>>,
    read |-> <<[id |-> X86, options |-> nullptr], Lzma2>>],
   [given |-> <<With("LZMA_FILTER_DELTA", "dist" :> Num(2)),
                With("LZMA_FILTER_LZMA2", "preset" :> Num(1))>>,
    read |-> <<[id |-> DELTA, options |-> [type |-> 0, dist |-> 2]],
               [id |-> LZMA2, options |-> LzmaPreset(1)]>>]}

FilterCalls ==
  {Create("streamEncoder", [filters |-> Arr(c.given), check |-> Num(4)],
          Encoder("streamEncoder", c.read, 4, 1)) : c \in Chains}
  \cup {Create("streamEncoder", [filters |-> Arr(c.given), threads |-> Num(2)],
               Encoder("mtEncoder", c.read, 1, 2)) : c \in Chains}
  \cup {Create("raw" \o way, "filters" :> Arr(c.given), Encoder("raw" \o way, c.read, 0, 1))
          : c \in Chains, way \in {"Encoder", "Decoder"}}

DecoderCalls ==
  {Create(name, <<>>, Decoder(name, NoLimit, 0)) : name \in Restartable \cup {"aloneDecoder"}}
  \cup {Create(name, [memlimit |-> Num(100), flags |-> Num(8)], Decoder(name, 100, 8)) : name \in Restartable}
  \cup {Create("aloneDecoder", "memlimit" :> Num(100), Decoder("aloneDecoder", 100, 0)),
        Call("createDecompressor", Obj("memlimit" :> Num(100)), undefined, Decoder("autoDecoder", 100, 0)),
        Call("Decompressor", undefined, undefined, Decoder("autoDecoder", NoLimit, 0))}

(* Calls the README gives no meaning: wrong types, names, sizes and chains. *)
OddFilters ==
  {Str("LZMA_FILTER_X86"), Arr(<<>>), Arr(<<Num(1)>>), Arr(<<Obj(<<>>)>>),
   Arr(<<Entry("LZMA_FILTER_LZMA2"), Entry("no such filter")>>),
   Arr(<<Entry("LZMA_FILTER_DELTA"), Entry("LZMA_FILTER_LZMA2")>>),
   Arr(<<With("LZMA_FILTER_X86", <<>>), Entry("LZMA_FILTER_LZMA2")>>),
   Arr(<<Entry("LZMA_FILTER_LZMA1")>>),
   Arr(<<With("LZMA_FILTER_LZMA2", [lc |-> Num(4), lp |-> Num(1)])>>)}

OddOptions ==
  {"preset" :> Num(10), "preset" :> Num(-1), "check" :> Num(2), "bufsize" :> Num(0),
   "bufsize" :> Str("6"), [bufsize |-> Num(0), synchronous |-> Num(1)],
   "memlimit" :> Num(1), "memlimit" :> Infinity, "memlimit" :> Str("6"), "flags" :> Num(16)}

OddCalls ==
  {Create("streamEncoder", "filters" :> f, undefined) : f \in OddFilters}
  \cup {Create("streamEncoder", [filters |-> f, threads |-> Num(2)], undefined) : f \in OddFilters}
  \cup {Create(name, o, undefined) : o \in OddOptions, name \in {"easyEncoder", "autoDecoder"}}
  \cup {Create("noSuchCoder", <<>>, undefined), Call("createStream", Num(3), Obj("check" :> Num(4)), undefined)}

AllCalls == EasyCalls \cup SpelledCalls \cup FilterCalls \cup DecoderCalls \cup OddCalls

(* What the proofs of CoderAsAsked assume of the calls: each by itself, the *)
(* methods ask for the coder that the README describes.                    *)
ASSUME CallsDocumented ==
  \A c \in AllCalls : c.wanted # undefined => c.wanted = CoderMethod(Settled(c).coder, Settled(c).options)

(* What the proof of DocumentedAccepted assumes besides: liblzma takes that *)
(* coder, and its limit.                                                   *)
ASSUME CallsSensible ==
  \A c \in AllCalls : c.wanted # undefined =>
    /\ Accepts(c.wanted)
    /\ Get(Settled(c).options, "memlimit") \notin Falsy =>
         /\ IsNumber(Get(Settled(c).options, "memlimit"))
         /\ HasMemconfig(c.wanted) /\ c.wanted.memlimit \in MemusageBase .. NoLimit

AllLimits == {Num(0), Num(1), Num(50), Num(200), NaN, Infinity, null, Num(-1)}

(* Documented values that are falsy, so that the code takes its default:   *)
(* preset 0 and CHECK_NONE.  With threads they come back (EasyCalls).      *)
DivergentCalls ==
  {Create("easyEncoder", "preset" :> Num(0), Easy("streamEncoder", 0, 1, 1)),
   Create("easyEncoder", "check" :> Num(0), Easy("streamEncoder", 6, 0, 1))}
=============================================================================
