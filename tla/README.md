# lzma-native in TLA+

A model of [lzma-native](../src/README.md), the Node.js binding of liblzma: the
asynchronous stream object and its memory, the JavaScript stream on top of it
from its options to its end, the one-shot functions, and the parser that reads
the index of an `.xz` file backwards. TLC checks it on small
instances; TLAPS proves the safety properties, the two refinements, and the
safety half of the stream's liveness (work runs out, and as long as somebody waits
a thread or callback is due) for every value of the constants.

Paths below are relative to the repository (`index.js`, `src/lzma-stream.cpp`);
in `PROJECT.json` they have the prefix `src/`.

## 1. Inventory of the system

| # | Component | State it keeps | Operations | Modelled by |
|---|---|---|---|---|
| 1 | `LZMAStream` (`src/lzma-stream.cpp`) | `lzma_stream`, `inbufs`, `outbufs`, `shouldFinish`, `processedChunks`, `lastCodeResult`, `bufsize`, `mutex` | `code`, `setBufsize`, `resetUnderlying`, coder set-up, `invokeBufferHandlers` | `LZMAStream`, `DirectCaller` |
| 2 | `LZMAStreamCodingWorker` (`src/liblzma-node.hpp`) | one per asynchronous `code()` | `Execute` (pool thread), `OnOK` (event loop) | `LZMAStream` |
| 3 | liblzma's coders (external) | `lzma_internal` | `lzma_code`, `lzma_end` | operators of `LZMAStream` |
| 4 | `JSLzmaStream` (`index.js` 26-197) | `chunkCallbacks`, `_isFinished`, `_writingLastChunk`, `nativeStream`, the count of open asynchronous streams | `_transform`, `_writev`, `_flush`, `cleanup`, `bufferHandler`, `bufsize` | `JSLzmaStream` |
| 5 | `stream.Transform` (external) | write buffer, read buffer | `write`, `end`, `push` | by contract, in `JSLzmaStream` |
| 6 | Coder methods, `createStream` and relatives, `memlimitSet`, `_restart` (`index.js` 27-52, 200-325) | `_initOptions`, `_restart`, `countedCleanup`, `curAsyncStreamsCount` | set-up, restart, limits, cleanup | `CoderOptions`, `CoderSetup` |
| 7 | `bufferIndexOfYZ`, `skipLeadingZeroes` | - | pure functions | operators of `JSLzmaStream` |
| 8 | `my_lzma_parse_indexes_from_file` (`src/index-parser.cpp` 103-425) | `lzma_index_parser_data`, `lzma_index_parser_internal` | a coroutine: from one read to the next | `IndexParser` |
| 9 | `IndexParser` wrapper (475-594) | `currentReadBuffer`, `isCurrentlyInParseCall` | `init`, `parse`, `feed`, destructor | `IndexParser` |
| 10 | `parseFileIndex`, `parseFileIndexFD` (`index.js` 441-562) | `inSameTick`, `bytesRead` | `read_cb` | `IndexParser` |
| 11 | External memory accounting (`src/lzma-stream.cpp` 9-93) | `nonAdjustedExternalMemory` | `alloc`, `free`, `MemScope`, report, destructor | `ExternalMemory` |
| 12 | `singleStringCoding` and its wrappers (`index.js` 328-424) | `failed`, `buffers`, a promise | `compress`, `decompress`, `LZMA()` | `OneShot`, `OneAnswer` |
| 13 | Option and number conversion (`src/util.cpp`, `filter-array.cpp`, `mt-options.cpp`) | - | pure functions | operators of `CoderOptions` |
| 14 | Bindings and constants (`liblzma-functions.cpp`, `module.cpp`) | - | stateless | no |
| 15 | `bin/lzmajs`, build scripts, bundled liblzma | - | - | no |

How they interact. The caller writes to a `JSLzmaStream`; the base class calls
`_transform` for one chunk at a time (everything written meanwhile comes in one
piece through `_writev`). `_transform` cuts the chunk behind each `YZ`, skips
padding, and calls `code()` of the native object. An asynchronous `code()`
queues a worker; the pool runs `doLZMACode` under the mutex; back on the event
loop the worker's `OnOK` runs `invokeBufferHandlers`, which calls
`bufferHandler` for each output buffer, for the end or the error, and for the
number of chunks processed, with the mutex *released* around each call. Each
`bufferHandler` call posts an immediate; the immediates push the output, restart
a decoder whose member has ended, and run the chunk callbacks, which lets the
base class go on. A synchronous `code()` does all this but the immediates in the
call itself.

A stream begins with `createStream`: the options become a coder of liblzma
(filters, preset, check, threads, limit), the constructor counts an asynchronous
stream, and `cleanup` counts it down. `compress()` and `decompress()` make such a
stream, give it the whole input by one `end()`, and listen for its events. All
memory of liblzma goes through hooks that add to an atomic counter, from
whichever thread; each native method reports it to V8 when it returns.

The index parser is a coroutine in C: it asks for bytes with `read_callback` and
goes on in the same call when `feed()` has come before the callback returns, or
in a later call of `parse()`.

What is hard here: a lock that is dropped in the middle of a function that goes
on with what it has read; results that reach JavaScript several immediates after
the native object has moved on; the end of a member inside a chunk; a decoder
that is set up again between two chunks; two paths into `cleanup`; errors at
every step; offsets computed from what a file claims; a memory limit shared by
successive decoders; ownership of Indexes across reads; answers that may come in
the same tick or later, short, or never; a counter shared by two threads and read
twice; several workers on the same queues; option values that are falsy, huge or
not numbers; functions that throw half-way. `PROJECT.json` lists these hazards at
their lines, with the properties that look for them.

What makes each component right:

- *native object*: every chunk is accounted for exactly once; nothing is coded
  during the handlers; no coder survives `resetUnderlying`.
- *JavaScript stream*: the payload comes out in order and complete, or an error
  is reported; the end is the last thing delivered; members and padding are told
  apart however the input is cut; every stream that is ended is answered and
  counted down.
- *coder set-up*: a documented call is accepted and gives the coder it describes,
  in whatever form the options come and after every restart; the count of open
  streams is exact.
- *one-shot functions*: one answer, to callback and promise alike; the result is
  the whole payload; the stream is released.
- *external memory*: every byte is counted once and given back, and nothing is
  destroyed under a worker.
- *index parser*: reads stay inside the file and only bytes just read are looked
  at; what is reported covers the file and is true; the memory limit is kept;
  nothing leaks; the caller is answered once.

## 2. Modules

- **`LZMAStream`** - components 1 to 3. Input is a sequence of units (`head`,
  `data`, `Y`, `Z`, `zero`, `junk`); a chunk is an interval of it, so a unit
  keeps its identity through the queues; an output buffer is the set of payload
  units whose coded form it carries. `mutex` and `pc` (where the main thread is
  inside the native object) are variables. What the code does under the lock from
  acquisition to release is one action; the coding loop is one action per chunk
  fetched and one per `lzma_code`; the handlers are one action per section
  between two `bufferHandler` calls, since the lock is free there.
- **`JSLzmaStream`** - components 4 to 7, extends `LZMAStream`. One action per
  callback of the event loop, each with `pc = "idle"`.
- **`BytePipe`** - what a caller is promised: payload in order without gaps, then
  an end (only if the input is well formed and everything came out) or a failure.
  `JSLzmaStream` implements it (`ImplementsBytePipe`) with `out <- pushed` and
  `status` from `eof` and `errors`.
- **`DirectCaller`** - the same `LZMAStream` with another caller, one that uses
  the native API as its queues allow and `JSLzmaStream` never does: several
  `code()` calls outstanding, calls inside `bufferHandler`, a coder set up again
  after each result.
- **`OneShot`** - component 12, extends `JSLzmaStream` with the listeners of
  `singleStringCoding`; the events 'data', 'end' and 'error' are actions.
- **`OneAnswer`** - what its caller is promised; `OneShot` implements it
  (`ImplementsOneAnswer`).
- **`CoderOptions`** - from JavaScript values to the coder liblzma is asked for, as
  operators: argument juggling of `createStream` and its relatives, the coder
  methods in JavaScript and C++, `FilterArray`, `MTOptions`, the number
  conversions with the wrap-around of their widths, and what liblzma accepts.
  Values are typed records; widths keep their order (`int64_t` is -128 .. 127).
- **`CoderSetup`** - component 6 on top of it: several streams, each from one call of
  `createStream` through `memlimitSet` and `_restart` to `cleanup`.
- **`ExternalMemory`** - component 11: a native method is the sequence of its
  statements that touch lock, heap or counter (`todo`), interleaved with a worker.
- **`IndexParser`** - components 8 to 10. Offsets and sizes are bytes; a file is
  given by what can be decoded at which offset. Each action is the code from one
  read to the next, error paths included; `live` counts `lzma_index` objects. The
  format itself, read from the front (`IsStream`, `PaddedUpTo`, `IsContents`), is the
  reference that what the parser finds from behind is compared with.
- **`MCJSLzmaStream`, `MCDirectCaller`, `MCOneShot`, `MCCoderSetup`,
  `MCIndexParser`** - inputs and files for TLC, values of
  constants only.
- **`LZMAStream_proofs`** - lemmas about the native object, used by
  **`JSLzmaStream_proofs`** (control of the stream) and **`DirectCaller_proofs`**;
  **`StreamData_proofs`** (what comes out of the stream) extends the former and
  **`OneShot_proofs`** extends it in turn; **`IndexParser_proofs`**,
  **`ExternalMemory_proofs`**, **`CoderSetup_proofs`**.

liblzma is external: `CodeProgress`, `CodeStuck`, `CodeFails` and `CodeEnded`
allow every answer its contract allows. A coder takes no input beyond the end of
its member, may hold payload back, `LZMA_OK` means the input is used up or the
output buffer full (unless a timeout ended the call), two calls without progress
give `LZMA_BUF_ERROR`, the end is repeated. `lzma_index` operations keep counts,
sizes and check sets; the memory formula has liblzma's shape with symbolic sizes.

Abstractions worth knowing: contents of units, totals of the progress event and
error texts are left out. `_restart` is one action although it is two native
calls: no worker exists at that moment (lemma `ImmediateFinds`). `chunkCallbacks`
are run one at a time because there is at most one (`OneChunkOutstanding`). The `catch`
around `nativeStream.code()` (`index.js` 170-175) is left out: `code()` throws for what
is no Buffer, and the base class hands over nothing else.
Allocation failures appear only as `canFail`. In `IndexParser` the variant
without a callback, where errors are thrown, is the same as the one with it, with
`delivered` standing for the exception.

Operators whose comment begins with `Mutation:` are plausible bugs. No
specification uses them; putting one in the place of the operator it is named
after must break the property that `PROJECT.json` pairs it with.

## 3. Runs

Passing:

- **`stream`** (`TypeOK`, seven further invariants about accounting, locking, end
  and release, `GoodInputAccepted`, the refinement, a liveness property, and what
  it needs of each step: `WorkRunsOut`, `NobodyWaitsInVain`).
  Eight inputs: two members with padding between and behind and `YZ` in the
  payload; a second member that is damaged, cut short or not a member; a `.lzma`
  member with data behind it; an encoder; two of them with a coder that may fail
  at any time; synchronous and asynchronous; `bufsize` 1 or 2 set at any time,
  or read, after which the vector of the coding loop cannot be made and a worker
  throws or the process aborts; the writer may cut anywhere but inside a footer.
- **`direct`** - five inputs (an encoder, one that may fail, one and two members,
  damaged input), up to three workers outstanding: chunks add up until a result
  is told, output is in order, an end comes last, every chunk is answered
  (`ChunksReported`), because none is ever left to nobody (`NoChunkStranded`).
- **`one_shot`** - good inputs (one and two members, a `.lzma` member, an encoder),
  bad ones (damaged, truncated, foreign, only padding), coders that may fail.
- **`memory`** - two blocks of two sizes, three calls of native methods, workers,
  and the stream dropped at any time.
- **`setup`** - two streams, each made by any of the calls of `MCCoderSetup`: every
  spelling of a preset, checks, threads (0 included), filter chains with and
  without options, decoders with limits and flags, and odd values; `memlimitSet`,
  restarts and repeated `cleanup` in any order. Documented calls carry the coder
  that the README of the repository describes (`wanted`).
- **`parse`** - the index parser over five good files (one to three streams,
  padding up to 16 bytes, an Index longer than the buffer, an empty stream, check
  15) and nineteen bad ones (wrong sizes in both directions, wrong flags, data in
  front, only padding), five memory limits from none to plenty, and a reader that
  answers now or later, refuses, answers one byte short or long in the same tick,
  or drops the callback. `LimitSuffices`: a limit that covers each Index with
  those behind it is never refused. `ReadsAdvance`: each read leaves less to be read.

Violations, each a disagreement between code and a text of the repository (see
`findings`):

- **`parted_footer`** - a write that ends between `Y` and `Z`: later members are lost.
- **`bufsize_stall`** - reading `bufsize` stalls an asynchronous stream.
- **`alone_trailing`** - data behind a `.lzma` member: the stream is never counted down.
- **`mt_timeout`** - the `timeout` option loses input or output.
- **`short_answer`** - a short answer in a later tick goes unnoticed.
- **`options`** - preset 0 and `CHECK_NONE` are falsy and become the defaults.

Other disagreements that were met, modelled as the code has them and not given a
run of their own:

- a bad `bufsize` makes the constructor throw after it has counted the stream
  (`index.js:107`), and `Buffer.from` may throw behind `createStream` in
  `compress()` (`index.js:335`): `curAsyncStreamsCount` stays up, against
  `test/stream.js` 580-584 (`status` "lost" in `CoderSetup`, `started` "thrown" in
  `OneShot`);
- `memlimit`, documented for compression too (README line 354), makes
  `createStream` throw for every encoder: liblzma answers `LZMA_PROG_ERROR` to
  `memlimitSet`;
- `Infinity` as a limit becomes 0 and is refused; `liblzma-node.hpp` 64-68 says
  `UINT64_MAX`;
- the documented `dict_size` and `nice_len` (README line 376) are never read; the
  code looks for `dictSize` and `niceLen`;
- two errors of the index parser in front of the first read return without the
  cleanup of `index-parser.h` 32-33 and 114 (actions `MemlimitTooLow`, `TooSmall`);
- the limit reported with `LZMA_MEMLIMIT_ERROR` leaves out the Indexes not read yet
  (`index-parser.h` 123-125; `IndexOverLimit`). JavaScript is not told it;
- what V8 is told is the counter *after* `exchange(0)` (`lzma-stream.cpp` 88-92),
  hence mostly 0 (`told` in `ExternalMemory`);
- with two workers outstanding, good input can end in `LZMA_BUF_ERROR`: one of them
  has used up the other's chunk. `JSLzmaStream` is safe (`OneChunkOutstanding`).

Bounds. Inputs have up to 14 units, enough for two members each with header,
payload, footer and padding, and for two `YZ` in one member; more members repeat
the same restart. `InitialBufsize = 1` makes every unit of payload fill the output
buffer, `bufsize = 2` leaves it partly filled. With three workers one can be
queued, one at work and one finished during the handlers of a fourth call. Two
streams suffice for the count, which is the only thing streams share; three
methods on a native object let a report be cut by a worker that an earlier call
queued. `MaxVector`, `UintMax` and
`SizeMax` only keep their order. `MaxCalls`
and `MaxWorkers` are the only bounds on steps; all state spaces are finite
without others. The parser's buffer has 16 bytes, so Indexes of 8, 20 and 36 bytes need
one, two and three reads. `CHECK_DEADLOCK FALSE` is set for the runs on
`LZMAStream`: a stream whose caller stops, or whose `_transform` found no native
object, waits for ever, and so does an aborted process; and for `setup`, where a
call that throws leaves nothing to do.

Fairness. `FairSpec` of the stream: weak fairness of `StartWrite`, `Flush`,
`Immediates` (the event loop runs what is queued, readers keep reading) and
`NativeTurn` (the pool runs every worker, `lzma_code` returns). Nothing is assumed
of the writer. `EndsEventually` assumes that nobody has read `bufsize`
(`bufsize_stall`), and leaves out input behind a decoder that cannot be
restarted: that case is `alone_trailing`. `FairSpec` of `DirectCaller`: the pool and the event loop
(`Native`). `FairOneShot`: the stream's turns, and the 'data' and 'end' events, which
the base class emits in ticks of their own. `FairSpec` of the parser: weak fairness
of `ParseStep` and of `Reader`; the reader answers every read, unless the parser
is collected first because the callback was dropped (`Forgotten`).

Preconditions. `GoodInputAccepted` and the refinement exclude footers parted by a
cut and, through the `timeout` field of a job, the multi-threaded timeout: these
lose data (runs `parted_footer`, `mt_timeout`). `FreshBytes` in `parse` excludes
short answers in a later tick (`short_answer`). `CoderAsAsked` and
`DocumentedAccepted` in `setup` are about calls with a `wanted` coder, and these
leave out the values listed above; after a `memlimitSet` the property allows the
limit of the options (a restart takes it) or the one set, and does not tell which of
them a restart leaves. `CountExact` counts a stream whose `bufsize` was refused as the
code does, so it does not see that leak, and `AnsweredIsReleased` is about calls that
return. `EveryByteCounted` and `AllGivenBack` are about what is taken from the counter,
not about the figure V8 is told. The hazards that no property covers have an empty list
in `PROJECT.json` and a note that says why. Chunks are exact in
`direct` only until a result is told (`NoResultYet`): `resetUnderlying` then wipes
the counts of workers that came in between.

## 4. Proofs

For every set of jobs (or files, calls, blocks), buffer size and limit that the
named assumptions allow:

- `JSLzmaStream_proofs`: `TypeCorrect`, `StreamConservesChunks`,
  `StreamHasOneChunkOutstanding`, `StreamHandlersUndisturbed`,
  `StreamReleasesAtCleanup`, `StreamCountsExactly`, `StreamRunsOut`.
- `StreamData_proofs`: `StreamNothingAfterEof`, `StreamCoderAtHand`,
  `StreamImplementsBytePipe`, `StreamLosesNothing`, `StreamAcceptsGoodInput`,
  `StreamNeverStrands`, `StreamOverIsCountedDown`.
- `OneShot_proofs`: `OneShotTypes`, `OneShotImplementsOneAnswer`.
- `DirectCaller_proofs`: `TypeCorrect`, `NoChunkIsLost`, `EndComesLast`,
  `OutputComesInOrder`, `NoChunkIsStranded`, `WorkIsUsedUp`.
- `CoderSetup_proofs`: `StreamsAreCounted`, `CodersLiveWithTheirStreams`,
  `CodersStayAsAsked`, `DocumentedCallsAreTaken`.
- `ExternalMemory_proofs`: `TypeCorrect`, `MemoryIsCounted`, `MemoryIsGivenBack`.
- `IndexParser_proofs`: `TypeCorrect`, `ParserReadsInBounds`, `ParserCoversFile`,
  `ParserAnswersOnce`, `ParserLeaksNothing`, `ParserKeepsMemlimit`,
  `ParserTellsTheTruth`, `ParserParsesGoodFiles`, `ParserReadsFreshBytes`,
  `ParserNeedsNoMore`, `ParserAdvances`.

Assumptions on constants: `JobsAssumption`, `SizeAssumption`, `StreamAssumption`
(shapes of the jobs, order of the limits), `FilesAssumption`, `SizesAssumption`
(types, a footer's magic bytes are not zero, a buffer that holds a header, an Index
needs some memory), `MemoryAssumption`, `StreamsAssumption` (finitely many streams),
`LimitsAssumption`, `WorkersAssumption`, `CpuThreadsAssumption`.

Hypotheses of single theorems. Each is a predicate of the input, holds for the
instances that TLC checks (an `ASSUME` of the MC module says so), and without it the
code does something else:

| Hypothesis | Says | Without it | Evaluated by TLC |
|---|---|---|---|
| `SoundJob` | no cut parts the `YZ` of a member that something may follow, no timeout of the multi-threaded encoder, one member for a decoder of one | `parted_footer`, `mt_timeout` | `StreamJobsSound`, `OneShotJobsSound` |
| `MembersBegin` | the input, and what follows a member and its padding, begins with a header | liblzma refuses it | `StreamJobsSound` |
| `Documented` | each call by itself asks for the coder the README describes | `options` | `CallsDocumented` |
| `Sensible` | liblzma takes the coder the README describes, and a limit only for a decoder and with room for the least | a limit for an encoder throws (section 3) | `CallsSensible` |
| `~ShortAsync` | late answers of the reader are whole | `short_answer` | - |
| `FilesTold` | `wellFormed`, `info` and `memory` are true of the file | they are input of the model | `AllFilesTold` |
| `FilesFit` | the Indexes of a good file do not fill the address space | `SIZE_MAX` becomes a real limit | `AllFilesFit` |

`FilesTold` needs for each file a function `c` that gives what its first `e` bytes
contain. It is defined by recursion on `e` (`Contents` of `MCIndexParser`); that it
exists for every file is an induction, hence a hypothesis here.

*The stream.* `ChunkConservation` is not inductive: that a worker reports one
chunk depends on where the threads are. The invariant `IInv` follows the one
chunk as a token: it is nowhere (`NoChunk`), in `inbufs` (`InQueue`), read by the
coding loop (`BeingRead`), in `processedChunks` (`Counted`), or in the last
pending `bufferHandler` call (`Reported`); each case says which thread may be at
work (`Queued`, `Working`, `Returned`, `Handling`, `Quiet`). A token that is
reported finds all threads quiet, so the next `_transform` starts from an empty
native object, which closes the circle; the other properties are read off the
cases. `OneAtATime` (a chunk is outstanding only while the base class is
writing or flushing), `Released` and `CountsOnce` complete it.

*What comes out of it.* `Control` adds where a result is: it is kept by the native
object until it is told (`ResultHeld`), the calls wait in the order output, result,
number (`CallsInOrder`), and behind the end or an error nothing is left to come
(`Silent`); `Replaced` says that an end that can be followed by a member is always
followed by a new coder. `Data` adds where the input is: `Pos` is the unit up to which
coders have taken it in, which depends on where the token is. All payload in front of
`Pos` has been given out or is in the coder (`Accounted`), in increasing order
(`Outputs`), a piece handed to the native object ends where a member ends in it
(`Whole`, which is what the search for `YZ` is for), and an end that is told is an end
of a member (`MemberEnds`). From these each step maps to a step of `BytePipe` or a
stutter (`StepIsPipeStep`). `Accepts`, for good input, says that nothing has failed and
that the decoder is in front of a header exactly where a member begins.

*That it comes to an end.* Liveness itself is out of the prover's reach; what it rests
on, apart from fairness, is not. `WorkLeft` weighs what is still to be done: a unit that
is not read yet weighs more than the payload it becomes in the coder, that more than its
part of an output buffer, that more than the call it is handed over by, and a worker
more than its return and the handlers it runs. `StreamRunsOut` says that every step but
a new write or a change of `bufsize` makes it less (without the timeout, under which
`lzma_code` may return as often as it likes): the loops of `_transform`, of the
immediates and of the restart do not go in circles. `StreamNeverStrands` says that as
long as a write or the flush has not called back, one of the threads or callbacks that
fairness is about has something to do. Where the token is (`IInv`) tells which, once it
is known that what has not called back is with the native object (`Expecting`) and that
a chunk in its queue has a thread on its way (`Awaited`). `StreamOverIsCountedDown` is
written with `~>` and proved without fairness, since `FlushedLetsGo` leaves no state in
between.

*The one-shot functions.* `StreamInv` is what was proved of the stream, which takes a
single chunk and an end; `Listening` relates the listeners' flags to `errors` and
`eof`, so that 'end' behind 'error' changes nothing.

*The parser.* `IInv` adds to the types how `pos`, `index_size` and the sizes of
the Indexes relate: the combined Index begins where the footer to be read ends,
so their sizes, the padding and `pos` always add up to the file's size. Reads in
bounds and coverage follow; `Answers` says that `delivered` is empty as long as a
read or a step is due. `Ownership` says that `live` is the number of owners, and
which of the three an Index has in each stage, so that the error label and the
destructor free exactly what there is. `Budget` says that the limit of a decoder
is what the combined Index has left; with `MemusageSubadditive` (a concatenation
needs no more than its parts, groups being rounded up) the combined Index stays
within `memlimit` when the next one joins it.

*What the parser reports.* The format is defined from the front, the parser goes from
behind. `TrueSoFar` says of the boundary behind which everything is known: whatever the
bytes in front of it contain makes up the file together with what was read, and a
well-formed file has something there. Skipped words are Stream Padding, and the footer
behind which a boundary lies is unique because a footer does not end in zeroes
(`OneFooter`), so the parser looks where the format does. When the boundary is 0 the
numbers are those of the file (`AllParsedTells`); as long as it is not, a well-formed
file has a footer, an Index and a header where they are looked for (`GoodFooterFound`,
`GoodIndexFound`, `GoodHeaderFound`), so no error is found; and what the next Index
needs beside those behind it is within the file's `memory` (`LimitEnough`).

*That the parser gets on.* `BytesLeft` is what lies in front of the read in progress,
and while an Index is decoded what its decoder has not seen of it. From one read to the
next it gets less, as the sizes a file claims are checked before they move `pos`
(`ParserAdvances`); so the number of reads is bounded by the size of the file.

*The memory.* `EveryByteCounted` is inductive once the header in front of a block
is known to be its size (`header = heap`). That nothing is left behind needs
`Life`: which statements the destructor has still to do, that the object is
`Alone` while it does them, and that all blocks are `Freed` behind `lzma_end`.

*The set-up.* `Counted` is a set of streams; each action adds or removes the one
stream it is about, and the counter follows because `countedCleanup` is the status
"open" at the first cleanup. `SetupInv` says that an open stream has the coder that
`_restart` would ask for again (`AsAsked`), but for the limit: a coder accepts another
limit exactly when it is a decoder's, and the one with the limit set stays acceptable.
That createStream takes the documented calls (`DocumentedCallsAreTaken`) is a matter of
the limit it sets once more: it is the one the coder was set up with
(`MethodsMakeCoders`), hence one liblzma does not refuse (`NothingToThrowFor`).
What the options of each single call come to is the hypothesis, `Documented` and
`Sensible`, which TLC evaluates for every call of the run.

*The direct caller.* Counts are wiped in two places, `resetUnderlying` and a coding
loop without a coder. `BehindResult` says that both are reached only when a result
has been told, which is where `ChunksAddUp` stops; every other step moves a chunk
from one place to the next. `AtEnd` says that an end was told only with all output
before it, and that until the coder is given up its sequence is "end", which calls
of workers that come late only repeat. For the order of output all units stand in one
line (`Line`): told, in `outbufs`, in the coder, in the current chunk, in `inbufs`, not
given yet; a step moves units from one place to the next and cannot pass others.
No chunk is stranded (`Attended`) because there is a worker for each chunk that waits,
unless one that codes has read more than its own (`WorkersSuffice`), and what was
counted has an `OnOK` or handlers to report it (`CountsReported`). `WorkIsUsedUp` weighs
as for the stream; that the chunks in `inbufs` lie behind one another (`Lined`) makes
the units that wait countable.

Only proved: the type invariants of `DirectCaller` and `OneShot`, `WorkRunsOut` of
`DirectCaller`, and `OverIsCountedDown`; no run repeats them.

Only model-checked: the liveness properties `EndsEventually`, `ChunksReported`,
`AnsweredIsReleased` and both `Answered`, which need fairness and `ENABLED`. For the
first two the theorems above leave what fairness does: somebody is due, and each turn
uses up work.

All recursion in the model is in functions of the MC modules; `Smallest` is defined by
`CHOOSE` and proved from the library's theorem on minimal elements.

## 5. Plan

Done: native object, stream, parser; external memory, direct use of the native
object, one-shot functions, options and set-up; proofs of every safety property of the
passing runs, of both refinements, and of what the stream's liveness needs of each
step. Next, in this order:

1. Work that runs out and nobody stranded for `OneShot` and the callbacks of the parser,
   as they are stated for the stream; the number conversions of `CoderOptions` for every
   width.
2. The informational results of the `TELL_*` flags, `LZMA_CONCATENATED`, and
   `filtersUpdate` between two chunks of an encoder.
3. The totals of the progress event, which travel with the immediates.
4. `Uint64ToNumberMaxNull` and `Uint64ToNumber0Null` with a reference definition.

## 6. Not modelled

- `filtersUpdate` changes a chain inside liblzma; the queries (`memusage`,
  `memlimitGet`, `totalIn`, ...) change nothing.
- `blockSize`: liblzma's own cutting of blocks, not visible to this code.
- The texts of `lzmaRetError`, `on_progress` of `LZMA()`, callbacks of the caller
  that throw (one inside the first 'error' listener, `index.js:341`, keeps the
  promise pending), failing allocations other than `canFail`.
- `FilterArray` keeps its options in a `std::list` so that pointers to them stay
  valid; addresses are not modelled, options are values of their filter.
- `cleanupIndexInfo` never reports check 15; modelled as it is and allowed for in
  `AnswersTrue`.
- The bindings of stateless liblzma functions and constants, `bin/lzmajs`, the
  build scripts and the bundled archive of liblzma.
