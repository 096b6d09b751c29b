---------------------------- MODULE CoderOptions ----------------------------
(***************************************************************************)
(* From the options of createStream to the coder that liblzma is asked     *)
(* for: the arguments of createStream and its relatives, the coder methods *)
(* of Stream.prototype (index.js 208-299) and of LZMAStream                *)
(* (src/lzma-stream.cpp 332-414), FilterArray, MTOptions and the number    *)
(* conversions (src/filter-array.cpp, src/mt-options.cpp, src/util.cpp).   *)
(*                                                                         *)
(* JavaScript values are records with a type.  Numbers keep the order of   *)
(* their bounds, scaled: int64_t is -128 .. 127, uint32_t 0 .. 63 with     *)
(* PRESET_EXTREME 32, and dictionary sizes are logarithms.                 *)
(***************************************************************************)
EXTENDS Integers, Sequences, FiniteSets, TLC

CONSTANT CpuThreads   \* lzma_cputhreads()

ASSUME CpuThreadsAssumption == CpuThreads \in 1 .. 8

-----------------------------------------------------------------------------
(* JavaScript values *)

undefined == [type |-> "undefined"]
null      == [type |-> "null"]
NaN       == [type |-> "nan"]
Infinity  == [type |-> "infinity"]
Num(n)    == [type |-> "number", n |-> n]
Str(text) == [type |-> "string", text |-> text]
Arr(items)  == [type |-> "array", items |-> items]
Obj(fields) == [type |-> "object", fields |-> fields]

IsNumber(v) == v.type \in {"number", "nan", "infinity"}
IsObject(v) == v.type \in {"object", "array"}

Falsy == {undefined, null, NaN, Num(0), Str("")}
Or(v, default) == IF v \in Falsy THEN default ELSE v

Get(o, key) ==
  IF o.type = "object" /\ key \in DOMAIN o.fields THEN o.fields[key] ELSE undefined

ObjectAssign(target, source) ==
  IF source.type = "object" THEN Obj(source.fields @@ target.fields) ELSE target

(* The strings that are numbers. *)
Numeral == [t \in {"6"} |-> 6]

(* parseInt and ToNumber where the result is a finite number. *)
HasNumber(v) == v.type = "number" \/ (v.type = "string" /\ v.text \in DOMAIN Numeral)
NumberOf(v) == IF v.type = "number" THEN v.n ELSE Numeral[v.text]

Int64Min == -128
Int64Max == 127
Uint64Max == 255
Uint32Count == 64

(* napi_get_value_int64: what is not finite is 0, and the rest saturates. *)
Int64Value(v) ==
  IF HasNumber(v)
  THEN CASE NumberOf(v) > Int64Max -> Int64Max
         [] NumberOf(v) < Int64Min -> Int64Min
         [] OTHER -> NumberOf(v)
  ELSE 0

Uint32Value(v) == Int64Value(v) % Uint32Count
Uint64(n) == n % (Uint64Max + 1)

NumberToUint64ClampNullMax(v) ==
  IF v \in {null, undefined} THEN Uint64Max ELSE Uint64(Int64Value(v))

GetIntegerProperty(o, key, default) ==
  IF Get(o, key) = undefined THEN default ELSE Int64Value(Get(o, key))

-----------------------------------------------------------------------------
(* Filters.  A chain is what liblzma reads of the array: the filters in    *)
(* front of the first LZMA_VLI_UNKNOWN.                                    *)

VLI_UNKNOWN == Uint64Max
X86 == 4
DELTA == 3
LZMA1 == 65
LZMA2 == 33
IsLZMA(id) == id \in {LZMA1, LZMA2}

FilterIds ==
  [LZMA_FILTER_X86 |-> X86, LZMA_FILTER_POWERPC |-> 5, LZMA_FILTER_IA64 |-> 6,
   LZMA_FILTER_ARM |-> 7, LZMA_FILTER_ARMTHUMB |-> 8, LZMA_FILTER_SPARC |-> 9,
   LZMA_FILTER_DELTA |-> DELTA, LZMA_FILTER_LZMA1 |-> LZMA1,
   LZMA_FILTER_LZMA2 |-> LZMA2, LZMA_FILTERS_MAX |-> 4]

FilterByName(name) ==
  IF name.type = "string" /\ name.text \in DOMAIN FilterIds
  THEN FilterIds[name.text] ELSE VLI_UNKNOWN

(* What lzma_lzma_preset knows: a level, and perhaps PRESET_EXTREME. *)
EXTREME == 32
IsPreset(p) == p \in (0 .. 9) \cup {EXTREME + level : level \in 0 .. 9}
LzmaPreset(p) == [preset |-> p]

LzmaDefaults ==
  [dictSize |-> 23, lp |-> 0, lc |-> 3, pb |-> 2, mode |-> 1, niceLen |-> 64, mf |-> 4, depth |-> 0]

(* The preset replaces every other option; one that does not exist is ignored. *)
parseOptionsLZMA(o) ==
  LET preset == Uint64(GetIntegerProperty(o, "preset", -1)) IN
  IF preset # Uint64Max /\ IsPreset(preset % Uint32Count)
  THEN LzmaPreset(preset % Uint32Count)
  ELSE [key \in DOMAIN LzmaDefaults |-> GetIntegerProperty(o, key, LzmaDefaults[key])]

nullptr == <<>>
DeltaOptions(o) ==
  [type |-> GetIntegerProperty(o, "type", 0), dist |-> GetIntegerProperty(o, "dist", 1)]

Filter(entry) ==
  LET id == FilterByName(Get(entry, "id"))
      opt == Get(entry, "options")
      hasOptions == opt \notin {undefined, null}
  IN [id |-> id,
      options |-> CASE IsLZMA(id) -> parseOptionsLZMA(opt)
                    [] id = DELTA /\ hasOptions -> DeltaOptions(opt)
                    [] OTHER -> nullptr]

(* Options are understood only for DELTA, LZMA1 and LZMA2. *)
BadEntry(entry) ==
  \/ ~IsObject(entry) \/ Get(entry, "id") = undefined
  \/ /\ Get(entry, "options") \notin {undefined, null}
     /\ FilterByName(Get(entry, "id")) # DELTA /\ ~IsLZMA(FilterByName(Get(entry, "id")))

FilterArrayThrows(v) == v.type # "array" \/ \E i \in DOMAIN v.items : BadEntry(v.items[i])

(* Mutation: a filter without options is not put into the array. *)
FilterArray_WithOptions(v) ==
  LET all == [i \in DOMAIN v.items |-> Filter(v.items[i])]
      known(f) == f.id # VLI_UNKNOWN /\ f.options # nullptr
  IN SelectSeq(all, known)

FilterArray(v) ==
  LET all == [i \in DOMAIN v.items |-> Filter(v.items[i])]
      read == {n \in 0 .. Len(all) : \A i \in 1 .. n : all[i].id # VLI_UNKNOWN}
  IN SubSeq(all, 1, CHOOSE n \in read : \A k \in read : k <= n)

-----------------------------------------------------------------------------
(* The coders liblzma is asked for.  The easy encoders are stream encoders *)
(* with an LZMA2 filter by preset; a bad preset is no chain at all.        *)

NoLimit == Uint64Max
NoCoderAtAll ==
  [kind |-> "none", chain |-> <<>>, check |-> 0, threads |-> 1, memlimit |-> NoLimit, flags |-> 0]

EasyChain(preset) ==
  IF IsPreset(preset) THEN << [id |-> LZMA2, options |-> LzmaPreset(preset)] >> ELSE <<>>

Encoder(kind, chain, check, threads) ==
  [NoCoderAtAll EXCEPT !.kind = kind, !.chain = chain, !.check = check, !.threads = threads]
Decoder(kind, memlimit, flags) ==
  [NoCoderAtAll EXCEPT !.kind = kind, !.memlimit = memlimit, !.flags = flags]

(* A method throws a TypeError before it asks liblzma. *)
TypeError == [NoCoderAtAll EXCEPT !.kind = "TypeError"]

WithFilters(filters, coder) == IF FilterArrayThrows(filters) THEN TypeError ELSE coder

rawEncoder_(filters) == WithFilters(filters, Encoder("rawEncoder", FilterArray(filters), 0, 1))
rawDecoder_(filters) == WithFilters(filters, Encoder("rawDecoder", FilterArray(filters), 0, 1))
easyEncoder_(preset, check) ==
  Encoder("streamEncoder", EasyChain(Uint32Value(preset)), Uint32Value(check), 1)
streamEncoder_(filters, check) ==
  WithFilters(filters, Encoder("streamEncoder", FilterArray(filters), Uint32Value(check), 1))
aloneEncoder(options) ==
  Encoder("aloneEncoder", << [id |-> LZMA1, options |-> parseOptionsLZMA(options)] >>, 0, 1)

Threads(opt) ==
  IF Uint32Value(Get(opt, "threads")) = 0 THEN CpuThreads ELSE Uint32Value(Get(opt, "threads"))

mtEncoder_(opt) ==
  LET filters == Get(opt, "filters")
      check == Uint32Value(Get(opt, "check"))
  IN IF filters.type = "array"
     THEN WithFilters(filters, Encoder("mtEncoder", FilterArray(filters), check, Threads(opt)))
     ELSE Encoder("mtEncoder", EasyChain(Uint32Value(Get(opt, "preset"))), check, Threads(opt))

streamDecoder_(memlimit, flags) ==
  Decoder("streamDecoder", NumberToUint64ClampNullMax(memlimit), Uint32Value(flags))
autoDecoder_(memlimit, flags) ==
  Decoder("autoDecoder", NumberToUint64ClampNullMax(memlimit), Uint32Value(flags))
aloneDecoder_(memlimit) == Decoder("aloneDecoder", NumberToUint64ClampNullMax(memlimit), 0)

-----------------------------------------------------------------------------
(* What liblzma accepts (xz 5.2.3) *)

(* Raw decoders look at lc, lp and pb alone. *)
LzmaOptionsValid(o, encodes) ==
  \/ "preset" \in DOMAIN o
  \/ /\ o.lc + o.lp <= 4 /\ o.pb <= 4
     /\ encodes => o.niceLen \in 2 .. 273 /\ o.mode \in {1, 2}

FilterValid(f, encodes) ==
  CASE IsLZMA(f.id) -> LzmaOptionsValid(f.options, encodes)
    [] f.id = DELTA -> f.options # nullptr /\ f.options.type = 0 /\ f.options.dist \in 1 .. 256
    [] OTHER -> TRUE

(* One to four filters, the last one, and only that, LZMA1 or LZMA2. *)
ChainValid(chain, encodes) ==
  /\ Len(chain) \in 1 .. 4
  /\ \A i \in DOMAIN chain :
        FilterValid(chain[i], encodes) /\ (IsLZMA(chain[i].id) <=> i = Len(chain))

MemusageBase == 4
SupportedChecks == {0, 1, 4, 10}

(* An .xz file takes no LZMA1 filter; in multi-threaded mode this comes    *)
(* out when the first block is coded.                                      *)
Accepts(coder) ==
  CASE coder.kind = "streamEncoder" ->
         /\ ChainValid(coder.chain, TRUE) /\ \A i \in DOMAIN coder.chain : coder.chain[i].id # LZMA1
         /\ coder.check \in SupportedChecks
    [] coder.kind = "mtEncoder" ->
         ChainValid(coder.chain, TRUE) /\ coder.check \in SupportedChecks /\ coder.threads # 0
    [] coder.kind \in {"rawEncoder", "aloneEncoder"} -> ChainValid(coder.chain, TRUE)
    [] coder.kind = "rawDecoder" -> ChainValid(coder.chain, FALSE)
    [] coder.kind \in {"streamDecoder", "autoDecoder"} -> coder.memlimit # 0 /\ coder.flags \in 0 .. 15
    [] coder.kind = "aloneDecoder" -> coder.memlimit # 0
    [] OTHER -> FALSE

HasMemconfig(coder) == coder.kind \in {"streamDecoder", "autoDecoder", "aloneDecoder"}

-----------------------------------------------------------------------------
(* The coder methods of Stream.prototype *)

PRESET_DEFAULT == Num(6)
CHECK_CRC32 == Num(1)

WantsThreads(options) == Get(options, "threads") \notin {undefined, null}

easyEncoder(options) ==
  LET preset == Or(Get(options, "preset"), PRESET_DEFAULT)
      check == Or(Get(options, "check"), CHECK_CRC32)
  IN IF WantsThreads(options)
     THEN mtEncoder_(ObjectAssign(Obj([preset |-> preset, filters |-> null, check |-> check]), options))
     ELSE easyEncoder_(preset, check)

streamEncoder(options) ==
  LET filters == Or(Get(options, "filters"), Arr(<<>>))
      check == Or(Get(options, "check"), CHECK_CRC32)
  IN IF WantsThreads(options)
     THEN mtEncoder_(ObjectAssign(Obj([preset |-> null, filters |-> filters, check |-> check]), options))
     ELSE streamEncoder_(filters, check)

Memlimit(options) == Or(Get(options, "memlimit"), null)
Flags(options) == Or(Get(options, "flags"), Num(0))

Restartable == {"streamDecoder", "autoDecoder"}

(* stream[coder](options); there is no method by any other name. *)
CoderMethod(coder, options) ==
  LET name == IF coder.type = "string" THEN coder.text ELSE "" IN
  CASE name = "easyEncoder"   -> easyEncoder(options)
    [] name = "streamEncoder" -> streamEncoder(options)
    [] name = "aloneEncoder"  -> aloneEncoder(options)
    [] name = "rawEncoder"    -> rawEncoder_(Or(Get(options, "filters"), Arr(<<>>)))
    [] name = "rawDecoder"    -> rawDecoder_(Or(Get(options, "filters"), Arr(<<>>)))
    [] name = "streamDecoder" -> streamDecoder_(Memlimit(options), Flags(options))
    [] name = "autoDecoder"   -> autoDecoder_(Memlimit(options), Flags(options))
    [] name = "aloneDecoder"  -> aloneDecoder_(Memlimit(options))
    [] OTHER -> TypeError

-----------------------------------------------------------------------------
(* createStream and its relatives.  A call is the function and its two     *)
(* arguments; Compressor takes the preset first, LZMA().compress the mode. *)

CompressorOptions(preset, options) ==
  LET copy == ObjectAssign(Obj(<<>>), options) IN
  IF preset \in Falsy THEN copy ELSE ObjectAssign(copy, Obj([preset |-> preset]))

ModeOptions(mode) ==
  IF HasNumber(mode) /\ NumberOf(mode) \in 1 .. 9
  THEN Obj([preset |-> Num(NumberOf(mode))]) ELSE Obj(<<>>)

CreateStreamArguments(call) ==
  CASE call.function = "createStream"       -> <<call.first, call.second>>
    [] call.function = "createCompressor"   -> <<Str("easyEncoder"), call.first>>
    [] call.function \in {"createDecompressor", "Decompressor"} -> <<Str("autoDecoder"), call.first>>
    [] call.function = "Compressor"         -> <<Str("easyEncoder"), CompressorOptions(call.first, call.second)>>
    [] call.function = "LZMA().compress"    -> <<Str("aloneEncoder"), ModeOptions(call.first)>>

(* Options in the place of the coder, and a number in that of the options. *)
Settled(call) ==
  LET args == CreateStreamArguments(call)
      alone == (args[1].type \in {"number", "null", "object"}) /\ args[2] \in Falsy
      options == IF alone THEN args[1] ELSE args[2]
  IN [coder |-> Or(IF alone THEN null ELSE args[1], Str("easyEncoder")),
      options |-> IF HasNumber(options) THEN Obj([preset |-> Num(NumberOf(options))])
                  ELSE Or(options, Obj(<<>>))]
=============================================================================
