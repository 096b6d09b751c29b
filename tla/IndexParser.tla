----------------------------- MODULE IndexParser -----------------------------
(***************************************************************************)
(* Reading the indexes of an .xz file backwards: the coroutine             *)
(* my_lzma_parse_indexes_from_file and its wrapper IndexParser             *)
(* (src/index-parser.cpp), driven by parseFileIndex (index.js).            *)
(*                                                                         *)
(* The coroutine asks for a piece of the file (request) and goes on with   *)
(* it either in the same call, when the reader has fed the bytes before    *)
(* read_callback returns, or in a later call of parse().  An action is the *)
(* code from one read to the next; offsets and sizes are bytes.            *)
(***************************************************************************)
EXTENDS Integers, Sequences, FiniteSets

CONSTANTS
  Files,        \* the files that may be parsed, see File below
  Memlimits,    \* values of options.memlimit, 0 for none
  BufSize,      \* sizeof(internal->buf)
  InternalSize, \* sizeof(lzma_index_parser_internal)
  IndexBase, StreamMem, GroupMem, GroupSize, \* lzma_index_memusage
  SizeMax,      \* SIZE_MAX = UINT64_MAX
  ShortAsync    \* a late answer of the reader may be short

HeaderSize == 12  \* LZMA_STREAM_HEADER_SIZE
CheckIdMax == 15  \* LZMA_CHECK_ID_MAX

(* A file is known by what can be decoded at which offset: where there is  *)
(* no footer, header or index the decoder reports an error.  zeros holds   *)
(* the offsets of four zero bytes; a footer ends with its magic bytes, so  *)
(* its last four are never zero.  info is what the file really contains    *)
(* and memory the limit that is enough to parse it.                        *)
Footer == [version : Nat, check : 0 .. CheckIdMax, backward : Nat \ {0}]
NoFooter == [version |-> 0, check |-> 0, backward |-> 1]
IndexField == [size : Nat \ {0}, total : Nat, blocks : Nat]
Info == [streams : Nat, blocks : Nat, fileSize : Nat, streamPadding : Nat,
         checks : SUBSET (0 .. CheckIdMax)]

IsFile(f) ==
  /\ f.size \in Nat /\ f.size < SizeMax
  /\ f.zeros \subseteq Nat
  /\ DOMAIN f.footers \subseteq Nat /\ \A p \in DOMAIN f.footers : f.footers[p] \in Footer
  /\ \A p \in DOMAIN f.footers : p + 8 \notin f.zeros
  /\ DOMAIN f.headers \subseteq Nat /\ \A p \in DOMAIN f.headers : f.headers[p] \in 0 .. CheckIdMax
  /\ DOMAIN f.indexes \subseteq Nat /\ \A p \in DOMAIN f.indexes : f.indexes[p] \in IndexField
  /\ f.wellFormed \in BOOLEAN /\ f.info \in Info /\ f.memory \in Nat

(* The format of .xz files, read from the front.  A Stream is its header,  *)
(* its blocks, its Index and, at foot, its footer; Stream Padding up to e  *)
(* may follow.                                                             *)
IndexAt(f, foot) == foot - f.footers[foot].backward
HeaderAt(f, foot) == IndexAt(f, foot) - f.indexes[IndexAt(f, foot)].total - HeaderSize

IsStream(f, foot) ==
  /\ foot \in DOMAIN f.footers /\ f.footers[foot].version = 0
  /\ IndexAt(f, foot) \in DOMAIN f.indexes
  /\ f.indexes[IndexAt(f, foot)].size = f.footers[foot].backward
  /\ HeaderAt(f, foot) \in DOMAIN f.headers
  /\ f.headers[HeaderAt(f, foot)] = f.footers[foot].check

PaddedUpTo(f, foot, e) ==
  \E words \in 0 .. e : /\ e = foot + HeaderSize + 4 * words
                        /\ \A i \in 0 .. words - 1 : foot + HeaderSize + 4 * i \in f.zeros

NoStreams == [streams |-> 0, blocks |-> 0, fileSize |-> 0, streamPadding |-> 0, checks |-> {}]

(* What is in front of e when u is in front of the Stream with this footer. *)
Plus(u, f, foot, e) ==
  [streams |-> u.streams + 1,
   blocks |-> u.blocks + f.indexes[IndexAt(f, foot)].blocks,
   fileSize |-> e,
   streamPadding |-> u.streamPadding + (e - foot - HeaderSize),
   checks |-> u.checks \cup {f.footers[foot].check}]

ContentsOfLast(c, f, foot, e) == {Plus(u, f, foot, e) : u \in c[HeaderAt(f, foot)]}
LastFooters(f, e) == {foot \in DOMAIN f.footers : IsStream(f, foot) /\ PaddedUpTo(f, foot, e)}

(* c[e] holds what the first e bytes contain: nothing at all when they are *)
(* not a sequence of Streams.                                              *)
IsContents(c, f) ==
  \A e \in 0 .. f.size :
    c[e] = IF e = 0 THEN {NoStreams}
           ELSE UNION {ContentsOfLast(c, f, foot, e) : foot \in LastFooters(f, e)}

(* liblzma: what an Index of so many Streams and blocks needs. *)
lzma_index_memusage(streams, blocks) ==
  IndexBase + streams * StreamMem + ((blocks + GroupSize - 1) \div GroupSize) * GroupMem

(* The memory of a file is enough for each Index beside those behind it.   *)
Enough(c, f) ==
  \A e \in 0 .. f.size : \A foot \in LastFooters(f, e) : \A u \in c[HeaderAt(f, foot)] :
    LET blocks == f.indexes[IndexAt(f, foot)].blocks
        streamsBehind == f.info.streams - u.streams - 1
        blocksBehind == f.info.blocks - u.blocks - blocks
    IN f.memory >= lzma_index_memusage(1, blocks)
                     + IF streamsBehind = 0 THEN 0
                       ELSE lzma_index_memusage(streamsBehind, blocksBehind)

(* wellFormed, info and memory tell the truth about the file, ... *)
ToldBy(c, f) ==
  /\ c \in [0 .. f.size -> SUBSET Info] /\ IsContents(c, f)
  /\ f.wellFormed <=> f.size > 0 /\ c[f.size] # {}
  /\ \A t \in c[f.size] : f.size > 0 => f.info = t
  /\ f.wellFormed => Enough(c, f)
Told(f) == \E c \in [0 .. f.size -> SUBSET Info] : ToldBy(c, f)
FilesTold == \A f \in Files : Told(f)

ASSUME FilesAssumption == SizeMax \in Nat /\ \A f \in Files : IsFile(f)
ASSUME SizesAssumption ==
  /\ BufSize \in Nat /\ BufSize >= HeaderSize
  /\ InternalSize \in Nat /\ InternalSize < SizeMax
  /\ Memlimits \subseteq 0 .. SizeMax
  /\ IndexBase \in Nat \ {0} /\ StreamMem \in Nat /\ GroupMem \in Nat /\ GroupSize \in Nat \ {0}
  /\ ShortAsync \in BOOLEAN

VARIABLES
  file,                                           \* the file behind options.read
  fileSize, memlimit, index, streamPadding, async,\* lzma_index_parser_data
  internal,                                       \* info.internal # NULL
  state, pos, footerFlags, combinedIndex, thisIndex,
  padding, indexSize, memused,                    \* lzma_index_parser_internal
  decoder,                                        \* internal->strm
  live,              \* lzma_index objects allocated and not freed
  currentReadBuffer, \* a buffer waits for feed()
  request,           \* the read in progress or done last
  filled,            \* how many of its bytes have arrived
  phase,             \* where parseFileIndex is
  delivered          \* what it has told its caller

infoVars == <<fileSize, memlimit, index, streamPadding>>
streamVars == <<pos, footerFlags, padding, indexSize, memused>>
indexVars == <<combinedIndex, thisIndex, decoder, live>>
readVars == <<state, request, currentReadBuffer>>
vars == <<file, infoVars, async, internal, streamVars, indexVars, readVars,
          filled, phase, delivered>>

-----------------------------------------------------------------------------
(* liblzma: the Index and its decoder *)

NoIndex == [streams |-> 0, blocks |-> 0, size |-> 0, checks |-> {}]

memusedBy(i) == lzma_index_memusage(i.streams, i.blocks)

lzma_index_cat(dest, src) ==
  [streams |-> dest.streams + src.streams, blocks |-> dest.blocks + src.blocks,
   size |-> dest.size + src.size, checks |-> dest.checks \cup src.checks]

(* start: where its input begins; owns: it holds an lzma_index of its own; *)
(* stuck: lzma_code was called once without any input.                     *)
NoDecoder == [start |-> 0, limit |-> 0, owns |-> FALSE, stuck |-> FALSE]

Count(b) == IF b THEN 1 ELSE 0
(* Mutation: thisIndex is not freed on an error. *)
Held_WithoutThis == Count(decoder.owns) + Count(combinedIndex # NoIndex)

Held == Count(decoder.owns) + Count(combinedIndex # NoIndex) + Count(thisIndex # NoIndex)

-----------------------------------------------------------------------------
(* Ways out of the coroutine *)

Tell(result) == delivered' = Append(delivered, result)

Failure(ret) == [kind |-> "error", ret |-> ret, info |-> NoIndex, padding |-> 0]

(* What cleanupIndexInfo makes of the checks: bit 15 is not looked at. *)
cleanupIndexInfo(i) == [i EXCEPT !.checks = @ \cap (0 .. CheckIdMax - 1)]

Success(i, pad) == [kind |-> "info", ret |-> "STREAM_END", info |-> cleanupIndexInfo(i),
                    padding |-> pad]

(* The error label: everything is freed. *)
Fail(ret) ==
  /\ live' = live - Held
  /\ internal' = FALSE
  /\ combinedIndex' = NoIndex /\ thisIndex' = NoIndex /\ decoder' = NoDecoder
  /\ fileSize' = SizeMax
  /\ phase' = "over"
  /\ Tell(Failure(ret))

(* parse_indexes_read calls options.read.  The code sets state when the    *)
(* call is back; nobody looks at it before.                                *)
Read(count, offset, label) ==
  /\ request' = [count |-> count, offset |-> offset]
  /\ currentReadBuffer' = TRUE
  /\ state' = label
  /\ phase' = "reading"

(* Look for the Stream Footer in front of offset p + HeaderSize. *)
SeekFooter(p) ==
  /\ pos' = p
  /\ IF p < HeaderSize
     THEN Fail("DATA_ERROR") /\ UNCHANGED readVars
     ELSE /\ Read(HeaderSize, p, "READ_FOOTER")
          /\ UNCHANGED <<fileSize, internal, combinedIndex, thisIndex, decoder, live, delivered>>

-----------------------------------------------------------------------------
(* parse() is called for the first time *)

Parse ==
  /\ phase = "new"
  /\ memlimit' = IF memlimit = 0 THEN SizeMax ELSE memlimit

(* memlimit is too small for the internal structure, nothing is allocated. *)
MemlimitTooLow ==
  /\ phase = "new" /\ memlimit # 0 /\ memlimit <= InternalSize
  /\ memlimit' = 0
  /\ phase' = "over" /\ Tell(Failure("MEMLIMIT_ERROR"))
  /\ UNCHANGED <<file, fileSize, index, streamPadding, async, internal, streamVars,
                 indexVars, readVars, filled>>

(* These two errors return without going through the error label. *)
TooSmall ==
  /\ Parse
  /\ memlimit' > InternalSize
  /\ fileSize < 2 * HeaderSize
  /\ internal' = TRUE /\ pos' = fileSize
  /\ phase' = "over" /\ Tell(Failure("DATA_ERROR"))
  /\ UNCHANGED <<file, fileSize, index, streamPadding, async, footerFlags, padding,
                 indexSize, memused, indexVars, readVars, filled>>

ParseBegins ==
  /\ Parse
  /\ memlimit' > InternalSize
  /\ fileSize >= 2 * HeaderSize
  /\ internal' = TRUE
  /\ pos' = fileSize - HeaderSize /\ padding' = 0
  /\ Read(HeaderSize, fileSize - HeaderSize, "READ_FOOTER")
  /\ UNCHANGED <<file, fileSize, index, streamPadding, async, footerFlags,
                 indexSize, memused, indexVars, filled, delivered>>

-----------------------------------------------------------------------------
(* The bytes of a footer have arrived *)

Zero(i) == request.offset + 4 * i \in file.zeros

(* Mutation: a run of less than three words of zeroes is not recognised. *)
PaddingWords_Three == 3

(* Mutation: the words are counted in front of the last one. *)
PaddingWords_InFront == IF ~Zero(1) THEN 0 ELSE IF ~Zero(0) THEN 1 ELSE 2

PaddingWords == IF ~Zero(1) THEN 1 ELSE IF ~Zero(0) THEN 2 ELSE 3

(* The last word is Stream Padding: skip it and the words of zeroes before *)
(* it, and look again.                                                     *)
SkipPadding ==
  /\ phase = "parsing" /\ state = "READ_FOOTER"
  /\ Zero(2)
  /\ padding' = padding + 4 * PaddingWords
  /\ SeekFooter(pos - 4 * PaddingWords)
  /\ UNCHANGED <<file, memlimit, index, streamPadding, async, footerFlags, indexSize,
                 memused, filled>>

(* Mutation: an Index that begins in front of the file is believed. *)
FooterError_Unbounded(p) ==
  IF p \notin DOMAIN file.footers THEN "FORMAT_ERROR"
  ELSE IF file.footers[p].version # 0 THEN "OPTIONS_ERROR"
  ELSE "OK"

FooterError(p) ==
  IF p \notin DOMAIN file.footers THEN "FORMAT_ERROR"
  ELSE IF file.footers[p].version # 0 THEN "OPTIONS_ERROR"
  ELSE IF p < file.footers[p].backward + HeaderSize THEN "DATA_ERROR"
  ELSE "OK"

BadFooter ==
  /\ phase = "parsing" /\ state = "READ_FOOTER"
  /\ ~Zero(2)
  /\ FooterError(pos) # "OK"
  /\ Fail(FooterError(pos))
  /\ UNCHANGED <<file, memlimit, index, streamPadding, async, streamVars, readVars, filled>>

(* Mutation: each Index may use the whole limit. *)
DecoderLimit_Whole(used) == memlimit

(* Mutation: what the parser itself holds counts as well. *)
DecoderLimit_Less(used) == memlimit - used

DecoderLimit(used) == IF combinedIndex = NoIndex THEN memlimit ELSE memlimit - used

(* The footer is good: set up the Index decoder with what is left of the   *)
(* memory, and read the first piece of the Index.  A limit of 0 is refused.*)
GoodFooter ==
  /\ phase = "parsing" /\ state = "READ_FOOTER"
  /\ ~Zero(2)
  /\ FooterError(pos) = "OK"
  /\ footerFlags' = file.footers[pos]
  /\ indexSize' = file.footers[pos].backward
  /\ pos' = pos - indexSize'
  /\ memused' = IF combinedIndex = NoIndex THEN InternalSize ELSE memusedBy(combinedIndex)
  /\ LET limit == DecoderLimit(memused')
     IN IF limit <= 0
        THEN Fail("PROG_ERROR") /\ UNCHANGED readVars
        ELSE /\ decoder' = [start |-> pos', limit |-> limit, owns |-> TRUE, stuck |-> FALSE]
             /\ live' = live + 1
             /\ Read(IF indexSize' < BufSize THEN indexSize' ELSE BufSize, pos', "READ_INDEX")
             /\ UNCHANGED <<fileSize, internal, combinedIndex, thisIndex, delivered>>
  /\ UNCHANGED <<file, memlimit, index, streamPadding, async, padding, filled>>

-----------------------------------------------------------------------------
(* A piece of an Index has arrived *)

IndexArrived == phase = "parsing" /\ state = "READ_INDEX"

(* What the decoder was given so far, this piece included. *)
Given == pos + request.count - decoder.start

IndexKnown == decoder.start \in DOMAIN file.indexes
TheIndex == file.indexes[decoder.start]
OverLimit == lzma_index_memusage(1, TheIndex.blocks) > decoder.limit

MoveOn == pos' = pos + request.count /\ indexSize' = indexSize - request.count

(* The Index goes on: read the next piece, which has no bytes when the     *)
(* footer promised less than the Index has.                                *)
MoreIndex ==
  /\ IndexArrived /\ IndexKnown /\ ~OverLimit
  /\ Given < TheIndex.size
  /\ request.count > 0 \/ ~decoder.stuck
  /\ MoveOn
  /\ decoder' = [decoder EXCEPT !.stuck = request.count = 0]
  /\ Read(IF indexSize' < BufSize THEN indexSize' ELSE BufSize, pos', "READ_INDEX")
  /\ UNCHANGED <<file, infoVars, async, internal, footerFlags, padding, memused,
                 combinedIndex, thisIndex, live, filled, delivered>>

(* The decoder fails, or would like more than the footer promised. *)
BadIndex ==
  /\ IndexArrived
  /\ \/ ~IndexKnown
     \/ IndexKnown /\ ~OverLimit /\ Given < TheIndex.size
        /\ request.count = 0 /\ decoder.stuck
  /\ MoveOn
  /\ Fail("DATA_ERROR")
  /\ UNCHANGED <<file, memlimit, index, streamPadding, async, footerFlags, padding,
                 memused, readVars, filled>>

(* memlimit tells how much would have been needed. *)
IndexOverLimit ==
  /\ IndexArrived /\ IndexKnown /\ OverLimit
  /\ MoveOn
  /\ memlimit' = lzma_index_memusage(1, TheIndex.blocks) + memused
  /\ Fail("MEMLIMIT_ERROR")
  /\ UNCHANGED <<file, index, streamPadding, async, footerFlags, padding, memused,
                 readVars, filled>>

(* The Index is decoded.  It must have the size that the footer promised   *)
(* and leave room for its blocks; then the Stream Header is read.          *)
IndexDecoded ==
  /\ IndexArrived /\ IndexKnown /\ ~OverLimit
  /\ Given >= TheIndex.size
  /\ indexSize' = indexSize - request.count
  /\ LET after == pos + request.count
         front == after - footerFlags.backward - HeaderSize
         exact == indexSize' = 0 /\ Given = TheIndex.size
     IN IF ~exact
        THEN /\ Fail("DATA_ERROR")
             /\ pos' = after
             /\ UNCHANGED readVars
        ELSE IF front < TheIndex.total
        THEN /\ Fail("DATA_ERROR")
             /\ pos' = front
             /\ UNCHANGED readVars
        ELSE /\ thisIndex' = [streams |-> 1, blocks |-> TheIndex.blocks,
                              size |-> TheIndex.total + TheIndex.size + 2 * HeaderSize,
                              checks |-> {}]
             /\ decoder' = [decoder EXCEPT !.owns = FALSE]
             /\ pos' = front - TheIndex.total
             /\ Read(HeaderSize, pos', "READ_STREAM_HEADER")
             /\ UNCHANGED <<fileSize, internal, combinedIndex, live, delivered>>
  /\ UNCHANGED <<file, memlimit, index, streamPadding, async, footerFlags, padding,
                 memused, filled>>

-----------------------------------------------------------------------------
(* A Stream Header has arrived *)

HeaderArrived == phase = "parsing" /\ state = "READ_STREAM_HEADER"

(* Mutation: header and footer are not compared. *)
HeaderMatches_Unchecked == pos \in DOMAIN file.headers

HeaderMatches == pos \in DOMAIN file.headers /\ file.headers[pos] = footerFlags.check

BadHeader ==
  /\ HeaderArrived /\ ~HeaderMatches
  /\ Fail(IF pos \in DOMAIN file.headers THEN "DATA_ERROR" ELSE "FORMAT_ERROR")
  /\ UNCHANGED <<file, memlimit, index, streamPadding, async, streamVars, readVars, filled>>

(* Mutation: lzma_index_stream_padding is not called. *)
Combined_Unpadded ==
  LET i == [thisIndex EXCEPT !.checks = {footerFlags.check}]
  IN IF combinedIndex = NoIndex THEN i ELSE lzma_index_cat(i, combinedIndex)

(* This Index, with its flags and padding, in front of the others. *)
Combined ==
  LET i == [thisIndex EXCEPT !.size = @ + padding, !.checks = {footerFlags.check}]
  IN IF combinedIndex = NoIndex THEN i ELSE lzma_index_cat(i, combinedIndex)

AfterCat == live - Count(combinedIndex # NoIndex)

NextStream ==
  /\ HeaderArrived /\ HeaderMatches /\ pos >= 2 * HeaderSize
  /\ combinedIndex' = Combined /\ thisIndex' = NoIndex
  /\ live' = AfterCat
  /\ streamPadding' = streamPadding + padding
  /\ padding' = 0
  /\ pos' = pos - HeaderSize
  /\ Read(HeaderSize, pos', "READ_FOOTER")
  /\ UNCHANGED <<file, fileSize, memlimit, index, async, internal, footerFlags, indexSize,
                 memused, decoder, filled, delivered>>

(* Something is in front that cannot be a Stream; all Indexes are freed. *)
NoRoomForStream ==
  /\ HeaderArrived /\ HeaderMatches /\ pos \in 1 .. 2 * HeaderSize - 1
  /\ live' = AfterCat - 1
  /\ combinedIndex' = NoIndex /\ thisIndex' = NoIndex /\ decoder' = NoDecoder
  /\ internal' = FALSE /\ fileSize' = SizeMax
  /\ streamPadding' = streamPadding + padding
  /\ phase' = "over" /\ Tell(Failure("DATA_ERROR"))
  /\ UNCHANGED <<file, memlimit, index, async, streamVars, readVars, filled>>

(* The beginning of the file is reached: the Indexes are handed out. *)
AllParsed ==
  /\ HeaderArrived /\ HeaderMatches /\ pos = 0
  /\ index' = Combined
  /\ live' = AfterCat
  /\ streamPadding' = streamPadding + padding
  /\ combinedIndex' = NoIndex /\ thisIndex' = NoIndex /\ decoder' = NoDecoder
  /\ internal' = FALSE
  /\ phase' = "over" /\ Tell(Success(Combined, streamPadding'))
  /\ UNCHANGED <<file, fileSize, memlimit, async, streamVars, readVars, filled>>

ParseStep ==
  \/ MemlimitTooLow \/ TooSmall \/ ParseBegins
  \/ SkipPadding \/ BadFooter \/ GoodFooter
  \/ MoreIndex \/ BadIndex \/ IndexOverLimit \/ IndexDecoded
  \/ BadHeader \/ NextStream \/ NoRoomForStream \/ AllParsed

-----------------------------------------------------------------------------
(* options.read: every read is answered once, now or later *)

(* feed() copies no more than was asked for. *)
Feed(length) ==
  /\ filled' = IF length < request.count THEN length ELSE request.count
  /\ currentReadBuffer' = FALSE

Lengths == {request.count} \cup {n \in {request.count - 1, request.count + 1} : n >= 0}

(* Mutation: the length is not compared with what was asked for. *)
AnswerNow_AnyLength ==
  /\ phase = "reading"
  /\ \E length \in Lengths : Feed(length)
  /\ phase' = "parsing" /\ async' = FALSE
  /\ UNCHANGED <<file, infoVars, internal, streamVars, indexVars, state, request, delivered>>

(* The reader calls back before it returns; read_callback passes the       *)
(* length of its buffer on, and any other length than count is an error:   *)
(* LZMA_DATA_ERROR with the message "Unexpected end of file".              *)
AnswerNow ==
  /\ phase = "reading"
  /\ \E length \in Lengths :
       /\ Feed(length)
       /\ IF length = request.count
          THEN /\ phase' = "parsing"
               /\ UNCHANGED <<fileSize, internal, combinedIndex, thisIndex, decoder, live, delivered>>
          ELSE Fail("TRUNCATED")
  /\ async' = FALSE
  /\ UNCHANGED <<file, memlimit, index, streamPadding, streamVars, state, request>>

(* Mutation: the error is reported and parsing goes on later. *)
RefuseNow_GoesOn ==
  /\ phase = "reading"
  /\ async' = TRUE
  /\ phase' = "waiting" /\ Tell(Failure("IO"))
  /\ UNCHANGED <<file, infoVars, internal, streamVars, indexVars, readVars, filled>>

(* The reader reports an error before it returns.  The buffer still waits, *)
(* so the wrapper takes the read for an asynchronous one and parse()       *)
(* returns; nobody calls it again.                                         *)
RefuseNow ==
  /\ phase = "reading"
  /\ async' = TRUE
  /\ phase' = "abandoned" /\ Tell(Failure("IO"))
  /\ UNCHANGED <<file, infoVars, internal, streamVars, indexVars, readVars, filled>>

(* The reader returns without having called back: parse() returns true. *)
Postpone ==
  /\ phase = "reading"
  /\ async' = TRUE
  /\ phase' = "waiting"
  /\ UNCHANGED <<file, infoVars, internal, streamVars, indexVars, readVars, filled, delivered>>

(* Mutation: the bytes are fed and parse() is not called again. *)
AnswerLater_NoParse ==
  /\ phase = "waiting"
  /\ \E length \in Lengths : length >= request.count /\ Feed(length)
  /\ phase' = "abandoned"
  /\ UNCHANGED <<file, infoVars, async, internal, streamVars, indexVars, state, request, delivered>>

(* The reader calls back from a later tick and parse() is called again;    *)
(* the length of the buffer is not compared with anything.                 *)
AnswerLater ==
  /\ phase = "waiting"
  /\ \E length \in Lengths :
       /\ length < request.count => ShortAsync
       /\ Feed(length)
  /\ phase' = "parsing"
  /\ UNCHANGED <<file, infoVars, async, internal, streamVars, indexVars, state, request, delivered>>

RefuseLater ==
  /\ phase = "waiting"
  /\ phase' = "abandoned" /\ Tell(Failure("IO"))
  /\ UNCHANGED <<file, infoVars, async, internal, streamVars, indexVars, readVars, filled>>

Reader == AnswerNow \/ RefuseNow \/ Postpone \/ AnswerLater \/ RefuseLater

(* The destructor: the Index is freed, and a last call with file_size =    *)
(* SIZE_MAX frees what the coroutine holds.  A parser that waits becomes   *)
(* garbage when the reader drops its callback.                             *)
Collect ==
  /\ phase \in {"over", "abandoned", "waiting"}
  /\ fileSize' = SizeMax
  /\ index' = NoIndex
  /\ live' = live - Count(index # NoIndex) - (IF internal THEN Held ELSE 0)
  /\ internal' = FALSE
  /\ combinedIndex' = NoIndex /\ thisIndex' = NoIndex /\ decoder' = NoDecoder
  /\ phase' = "collected"
  /\ UNCHANGED <<file, memlimit, streamPadding, async, streamVars, readVars, filled, delivered>>

Rest == phase = "collected" /\ UNCHANGED vars

-----------------------------------------------------------------------------

(* A new IndexParser after init(options.fileSize, options.memlimit). *)
Init ==
  /\ file \in Files /\ memlimit \in Memlimits
  /\ fileSize = file.size
  /\ index = NoIndex /\ streamPadding = 0 /\ async = FALSE
  /\ internal = FALSE /\ state = "INITED" /\ pos = 0
  /\ footerFlags = NoFooter
  /\ combinedIndex = NoIndex /\ thisIndex = NoIndex
  /\ padding = 0 /\ indexSize = 0 /\ memused = 0
  /\ decoder = NoDecoder /\ live = 0
  /\ currentReadBuffer = FALSE
  /\ request = [count |-> 0, offset |-> 0] /\ filled = 0
  /\ phase = "new" /\ delivered = <<>>

Next == ParseStep \/ Reader \/ Collect \/ Rest

Spec == Init /\ [][Next]_vars

(* The native code returns, and every read is answered. *)
FairSpec == Spec /\ WF_vars(ParseStep) /\ WF_vars(Reader)

-----------------------------------------------------------------------------

Index == [streams : Nat, blocks : Nat, size : Nat, checks : SUBSET (0 .. CheckIdMax)]
Returns == {"IO", "TRUNCATED", "DATA_ERROR", "FORMAT_ERROR", "OPTIONS_ERROR",
            "MEMLIMIT_ERROR", "PROG_ERROR", "STREAM_END"}
Result == [kind : {"error", "info"}, ret : Returns, info : Index, padding : Nat]
Phases == {"new", "parsing", "reading", "waiting", "over", "abandoned", "collected"}

TypeOK ==
  /\ file \in Files
  /\ fileSize \in Nat /\ memlimit \in Nat /\ streamPadding \in Nat
  /\ index \in Index /\ async \in BOOLEAN /\ internal \in BOOLEAN
  /\ state \in {"INITED", "READ_FOOTER", "READ_INDEX", "READ_STREAM_HEADER"}
  /\ pos \in Nat /\ padding \in Nat /\ indexSize \in Nat /\ memused \in Nat
  /\ footerFlags \in Footer
  /\ combinedIndex \in Index /\ thisIndex \in Index
  /\ decoder \in [start : Nat, limit : Int, owns : BOOLEAN, stuck : BOOLEAN]
  /\ live \in Int
  /\ currentReadBuffer \in BOOLEAN
  /\ request \in [count : Nat, offset : Nat] /\ filled \in Nat
  /\ phase \in Phases
  /\ delivered \in Seq(Result)

Infos == {i \in DOMAIN delivered : delivered[i].kind = "info"}

(* Every read lies within the file: pos never leaves it, whatever sizes    *)
(* the footers and indexes of the file claim.                              *)
ReadsInBounds ==
  phase \in {"reading", "waiting", "parsing"} =>
    /\ request.offset >= 0
    /\ request.offset + request.count <= file.size

(* The parser looks only at bytes that the read in progress has brought.   *)
FreshBytes == phase = "parsing" => filled = request.count

(* The streams and their padding that parseFileIndex reports make up the   *)
(* whole file, without a gap and without an overlap.                       *)
FileCovered == \A i \in Infos : delivered[i].info.size = file.size

(* What is reported is what the file contains, however the answers of the  *)
(* reader were spread over ticks.                                          *)
AnswersTrue ==
  \A i \in Infos :
    /\ file.wellFormed
    /\ delivered[i].info.streams = file.info.streams
    /\ delivered[i].info.blocks = file.info.blocks
    /\ delivered[i].padding = file.info.streamPadding
    /\ delivered[i].info.checks = file.info.checks \ {CheckIdMax}

(* ... and the Indexes of a good file do not fill the address space. *)
FilesFit ==
  \A f \in Files :
    f.wellFormed =>
      InternalSize + lzma_index_memusage(f.info.streams, f.info.blocks)
        + lzma_index_memusage(1, f.info.blocks) < SizeMax

(* A good file fails only because of the reader or of the memory limit. *)
GoodFilesParsed ==
  file.wellFormed =>
    \A i \in DOMAIN delivered :
      delivered[i].ret \in {"STREAM_END", "IO", "TRUNCATED"}
        \cup (IF memlimit # SizeMax THEN {"MEMLIMIT_ERROR", "PROG_ERROR"} ELSE {})

(* The assertion of index-parser.cpp line 261: decoding each Index within  *)
(* what is left keeps their combination within the limit.                  *)
CombinedFitsMemlimit ==
  combinedIndex # NoIndex => memusedBy(combinedIndex) <= memlimit

(* A limit that covers each Index together with those read before it is    *)
(* never refused on the way, although each decoder gets only what the      *)
(* others have left (index-parser.cpp 255-271).                            *)
LimitSuffices ==
  [][file.wellFormed /\ memlimit > InternalSize /\ memlimit >= file.memory =>
       \A i \in DOMAIN delivered' \ DOMAIN delivered :
         delivered'[i].ret \notin {"MEMLIMIT_ERROR", "PROG_ERROR"}]_vars

(* What is still to be read, in front of what was.  An Index that wants    *)
(* more than the footer has promised is offered nothing twice.             *)
BytesLeft ==
  IF state = "READ_INDEX" THEN decoder.start + indexSize + Count(~decoder.stuck) + 1
  ELSE pos + HeaderSize

(* Every read leaves less to be read, so that a file of n bytes is done    *)
(* with after n reads at most, whatever sizes it claims and wherever it    *)
(* has zeroes (index-parser.cpp 160-361).                                  *)
ReadsAdvance ==
  [][phase = "parsing" /\ phase' = "reading" => BytesLeft' \in 0 .. BytesLeft - 1]_vars

(* Nothing that was allocated outlives the parser, however it ended. *)
NothingLeaks == phase = "collected" => live = 0 /\ ~internal

(* The caller of parseFileIndex is answered at most once. *)
AnsweredOnce == Len(delivered) <= 1

(* ... and is answered, unless the reader has dropped its callback. *)
Forgotten == phase = "collected" /\ delivered = <<>>
Answered == []~Forgotten => <>(delivered # <<>>)

=============================================================================
