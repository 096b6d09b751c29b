------------------------- MODULE IndexParser_proofs -------------------------
(***************************************************************************)
(* Theorems about module IndexParser.                                      *)
(*                                                                         *)
(* For every set of files and every size of the buffers, the parser reads  *)
(* within the file, reports Indexes that cover it exactly, answers at most *)
(* once, keeps to its memory limit and frees what it has allocated.  The   *)
(* argument is bookkeeping from the end of the file: what is in front of   *)
(* the position that is read, and what was read or skipped behind it,      *)
(* always add up to the size of the file (FooterStage, IndexStage,         *)
(* HeaderStage, one per kind of read).                                     *)
(*                                                                         *)
(* For files of which wellFormed, info and memory tell the truth           *)
(* (FilesTold), the parser that goes backwards finds what the format,      *)
(* which is read from the front, says is there: it tells the truth         *)
(* (TrueSoFar: what is in front of the boundary decides what is in the     *)
(* file), it refuses no good file, and the memory of the file suffices.    *)
(***************************************************************************)
EXTENDS IndexParser, TLAPS

Active == phase \in {"reading", "waiting", "parsing"}

(* Behind the footer there are padding and Streams that are known. *)
FooterStage ==
  /\ request.count = HeaderSize /\ pos >= HeaderSize
  /\ pos + HeaderSize + padding + combinedIndex.size = file.size

(* The rest of the Index ends where the footer begins. *)
IndexStage ==
  /\ decoder.start >= HeaderSize /\ decoder.start <= pos
  /\ request.count <= indexSize
  /\ pos + indexSize = decoder.start + footerFlags.backward
  /\ decoder.start + footerFlags.backward + HeaderSize + padding + combinedIndex.size = file.size

(* The Stream begins at the header that is read. *)
HeaderStage ==
  /\ request.count = HeaderSize
  /\ pos + thisIndex.size + padding + combinedIndex.size = file.size

Bookkeeping ==
  /\ phase = "new" => fileSize = file.size /\ combinedIndex = NoIndex
  /\ Active =>
       /\ request.offset = pos
       /\ request.offset + request.count <= file.size
       /\ \/ state = "READ_FOOTER" /\ FooterStage
          \/ state = "READ_INDEX" /\ IndexStage
          \/ state = "READ_STREAM_HEADER" /\ HeaderStage

(* The caller was answered when, and only when, parsing is over. *)
Answers ==
  /\ phase = "new" \/ Active => delivered = <<>>
  /\ delivered # <<>> => Len(delivered) = 1
  /\ FileCovered

IInv == TypeOK /\ Bookkeeping /\ Answers

-----------------------------------------------------------------------------
(* What the assumptions say of a file, and what the helpers return *)

LEMMA FileFacts ==
  ASSUME TypeOK
  PROVE  /\ file.size \in Nat
         /\ \A p \in DOMAIN file.footers : p \in Nat /\ file.footers[p] \in Footer
         /\ \A p \in DOMAIN file.indexes : p \in Nat /\ file.indexes[p] \in IndexField
         /\ \A p \in DOMAIN file.headers : p \in Nat /\ file.headers[p] \in 0 .. CheckIdMax
BY FilesAssumption DEF TypeOK, IsFile

LEMMA MemusageNat ==
  ASSUME NEW s \in Nat, NEW b \in Nat
  PROVE  lzma_index_memusage(s, b) \in Nat
<1>1. s * StreamMem \in Nat
  BY SizesAssumption
<1>2. (b + GroupSize - 1) \div GroupSize \in Nat
  BY SizesAssumption
<1>3. ((b + GroupSize - 1) \div GroupSize) * GroupMem \in Nat
  BY <1>2, SizesAssumption
<1> QED
  BY <1>1, <1>3, SizesAssumption DEF lzma_index_memusage

LEMMA Labelled ==
  ASSUME NEW t \in Index, NEW n \in Nat, NEW c \in SUBSET (0 .. CheckIdMax)
  PROVE  /\ [t EXCEPT !.size = n, !.checks = c] \in Index
         /\ [t EXCEPT !.size = n, !.checks = c].size = n
BY DEF Index

LEMMA CombinedFacts ==
  ASSUME TypeOK
  PROVE  /\ Combined \in Index
         /\ Combined.size = thisIndex.size + padding + combinedIndex.size
<1> DEFINE i == [thisIndex EXCEPT !.size = @ + padding, !.checks = {footerFlags.check}]
<1>1. thisIndex \in Index /\ combinedIndex \in Index /\ padding \in Nat
  BY DEF TypeOK
<1>2. {footerFlags.check} \in SUBSET (0 .. CheckIdMax)
  BY DEF TypeOK, Footer
<1>3. i \in Index /\ i.size = thisIndex.size + padding
  BY <1>1, <1>2, thisIndex.size + padding \in Nat, Labelled DEF Index
<1> HIDE DEF i
<1>4. CASE combinedIndex = NoIndex
  <2>1. combinedIndex.size = 0
    BY <1>4 DEF NoIndex
  <2>2. Combined = i
    BY <1>4 DEF Combined, i
  <2> QED
    BY <2>1, <2>2, <1>1, <1>3 DEF Index
<1>5. CASE combinedIndex # NoIndex
  <2>1. Combined = lzma_index_cat(i, combinedIndex)
    BY <1>5 DEF Combined, i
  <2>2. lzma_index_cat(i, combinedIndex) \in Index
    BY <1>1, <1>3 DEF lzma_index_cat, Index
  <2>3. lzma_index_cat(i, combinedIndex).size = i.size + combinedIndex.size
    BY DEF lzma_index_cat
  <2> QED
    BY <2>1, <2>2, <2>3, <1>3
<1> QED
  BY <1>4, <1>5

LEMMA NoIndexType == NoIndex \in Index
BY DEF NoIndex, Index

(* The error label leaves one answer, an error, and nothing of an Index. *)
LEMMA FailFacts ==
  ASSUME TypeOK, delivered = <<>>, NEW ret \in Returns, Fail(ret)
  PROVE  /\ fileSize' \in Nat /\ internal' \in BOOLEAN /\ live' \in Int
         /\ combinedIndex' \in Index /\ thisIndex' \in Index
         /\ decoder' \in [start : Nat, limit : Int, owns : BOOLEAN, stuck : BOOLEAN]
         /\ phase' = "over" /\ delivered' \in Seq(Result)
         /\ Len(delivered') = 1 /\ Infos' = {}
<1>1. Failure(ret) \in Result /\ Failure(ret).kind = "error"
  BY NoIndexType DEF Failure, Result
<1>2. delivered' = <<Failure(ret)>>
  BY DEF Fail, Tell
<1>3. Infos' = {}
  BY <1>1, <1>2 DEF Infos
<1>4. Held \in Int
  BY DEF Held, Count
<1>5. delivered' \in Seq(Result) /\ Len(delivered') = 1
  BY <1>1, <1>2
<1>6. NoDecoder \in [start : Nat, limit : Int, owns : BOOLEAN, stuck : BOOLEAN]
  BY DEF NoDecoder
<1>7. live' \in Int
  BY <1>4 DEF Fail, TypeOK
<1> QED
  BY <1>3, <1>5, <1>6, <1>7, NoIndexType, FilesAssumption DEF Fail

-----------------------------------------------------------------------------
(* The invariant holds at first, and every action keeps it *)

(* A step that goes through the error label ends the bookkeeping. *)
LEMMA FailStep ==
  ASSUME IInv, delivered = <<>>, NEW ret \in Returns, Fail(ret),
         file' = file, memlimit' \in Nat, pos' \in Nat, padding' \in Nat,
         indexSize' \in Nat, memused' \in Nat, footerFlags' \in Footer,
         UNCHANGED <<index, streamPadding, async, readVars, filled>>
  PROVE  IInv'
<1> USE DEF IInv
<1>1. /\ fileSize' \in Nat /\ internal' \in BOOLEAN /\ live' \in Int
      /\ combinedIndex' \in Index /\ thisIndex' \in Index
      /\ decoder' \in [start : Nat, limit : Int, owns : BOOLEAN, stuck : BOOLEAN]
      /\ phase' = "over" /\ delivered' \in Seq(Result)
      /\ Len(delivered') = 1 /\ Infos' = {}
  BY FailFacts
<1>2. TypeOK'
  BY <1>1 DEF TypeOK, Phases, readVars
<1>3. Bookkeeping'
  BY <1>1 DEF Bookkeeping, Active
<1>4. Answers'
  BY <1>1 DEF Answers, Active, FileCovered
<1> QED
  BY <1>2, <1>3, <1>4

LEMMA InitIInv == Init => IInv
<1> SUFFICES ASSUME Init PROVE IInv
  OBVIOUS
<1>1. TypeOK
  <2>1. file.size \in Nat
    BY FilesAssumption DEF Init, IsFile
  <2>2. memlimit \in Nat
    <3>1. memlimit \in 0 .. SizeMax
      BY SizesAssumption DEF Init
    <3>2. SizeMax \in Nat
      BY FilesAssumption
    <3> QED
      BY <3>1, <3>2
  <2>3. footerFlags \in Footer
    BY DEF Init, NoFooter, Footer, CheckIdMax
  <2>4. fileSize \in Nat /\ decoder \in [start : Nat, limit : Int, owns : BOOLEAN, stuck : BOOLEAN]
    BY <2>1 DEF Init, NoDecoder
  <2>5. delivered \in Seq(Result) /\ request \in [count : Nat, offset : Nat]
    BY DEF Init
  <2>6. index \in Index /\ combinedIndex \in Index /\ thisIndex \in Index
    BY NoIndexType DEF Init
  <2>7. async \in BOOLEAN /\ internal \in BOOLEAN /\ currentReadBuffer \in BOOLEAN
    BY DEF Init
  <2> QED
    BY <2>2, <2>3, <2>4, <2>5, <2>6, <2>7 DEF Init, TypeOK, Phases
<1>2. Bookkeeping
  BY DEF Init, Bookkeeping, Active
<1>3. Answers
  BY DEF Init, Answers, FileCovered, Infos
<1> QED
  BY <1>1, <1>2, <1>3 DEF IInv

LEMMA BeginsKeepIInv ==
  ASSUME IInv, MemlimitTooLow \/ TooSmall \/ ParseBegins
  PROVE  IInv'
<1> USE DEF IInv, HeaderSize
<1>1. phase = "new" /\ delivered = <<>>
  BY DEF MemlimitTooLow, TooSmall, ParseBegins, Parse, Answers
<1>2. \A ret \in Returns : Failure(ret) \in Result /\ Failure(ret).kind = "error"
  BY NoIndexType DEF Failure, Result
<1>3. SizeMax \in Nat
  BY FilesAssumption
<1>4. CASE MemlimitTooLow
  <2>1. delivered' = <<Failure("MEMLIMIT_ERROR")>>
    BY <1>1, <1>4 DEF MemlimitTooLow, Tell
  <2>2. delivered' \in Seq(Result) /\ Len(delivered') = 1 /\ Infos' = {}
    BY <2>1, <1>2 DEF Infos, Returns
  <2>3. TypeOK'
    BY <1>4, <2>2 DEF MemlimitTooLow, TypeOK, Phases, streamVars, indexVars, readVars
  <2> QED
    BY <1>4, <2>2, <2>3 DEF MemlimitTooLow, Bookkeeping, Active, Answers, FileCovered
<1>5. CASE TooSmall
  <2>1. delivered' = <<Failure("DATA_ERROR")>>
    BY <1>1, <1>5 DEF TooSmall, Tell
  <2>2. delivered' \in Seq(Result) /\ Len(delivered') = 1 /\ Infos' = {}
    BY <2>1, <1>2 DEF Infos, Returns
  <2>3. TypeOK'
    BY <1>3, <1>5, <2>2 DEF TooSmall, Parse, TypeOK, Phases, indexVars, readVars
  <2> QED
    BY <1>5, <2>2, <2>3 DEF TooSmall, Bookkeeping, Active, Answers, FileCovered
<1>6. CASE ParseBegins
  <2>1. fileSize = file.size /\ combinedIndex = NoIndex
    BY <1>1 DEF Bookkeeping
  <2>2. TypeOK'
    BY <1>3, <1>6 DEF ParseBegins, Parse, Read, TypeOK, Phases, indexVars
  <2>3. Bookkeeping'
    <3>1. combinedIndex.size = 0
      BY <2>1 DEF NoIndex
    <3>2. file.size \in Nat /\ fileSize >= 2 * HeaderSize
      BY <1>6, FileFacts DEF ParseBegins
    <3>3. /\ phase' = "reading" /\ state' = "READ_FOOTER" /\ padding' = 0
          /\ pos' = fileSize - HeaderSize
          /\ request' = [count |-> HeaderSize, offset |-> fileSize - HeaderSize]
      BY <1>6 DEF ParseBegins, Parse, Read
    <3>4. UNCHANGED <<combinedIndex, file>>
      BY <1>6 DEF ParseBegins, Parse, Read, indexVars
    <3>5. FooterStage' /\ request'.offset + request'.count <= file'.size
      BY <2>1, <3>1, <3>2, <3>3, <3>4 DEF FooterStage
    <3> QED
      BY <3>3, <3>5 DEF Bookkeeping
  <2>4. Answers'
    BY <1>1, <1>6 DEF ParseBegins, Read, Answers, Active, FileCovered, Infos
  <2> QED
    BY <2>2, <2>3, <2>4
<1> QED
  BY <1>4, <1>5, <1>6

LEMMA FooterKeepsIInv ==
  ASSUME IInv, SkipPadding \/ BadFooter \/ GoodFooter
  PROVE  IInv'
<1> USE DEF IInv
<1>1. Active /\ delivered = <<>> /\ state = "READ_FOOTER"
  BY DEF SkipPadding, BadFooter, GoodFooter, Active, Answers
<1>2. request.offset = pos /\ request.offset + request.count <= file.size /\ FooterStage
  BY <1>1 DEF Bookkeeping
<1>3. CASE SkipPadding
  <2>1. PaddingWords \in 1 .. 3
    BY DEF PaddingWords
  <2>2. padding' = padding + 4 * PaddingWords /\ pos' = pos - 4 * PaddingWords
    BY <1>3 DEF SkipPadding, SeekFooter
  <2>3. padding' \in Nat /\ pos' \in Nat
    BY <1>2, <2>1, <2>2 DEF TypeOK, FooterStage, HeaderSize
  <2>4. CASE pos' < HeaderSize
    <3>1. Fail("DATA_ERROR") /\ UNCHANGED readVars
      BY <1>3, <2>2, <2>4 DEF SkipPadding, SeekFooter
    <3>2. memlimit' \in Nat /\ indexSize' \in Nat /\ memused' \in Nat /\ footerFlags' \in Footer
      BY <1>3 DEF SkipPadding, TypeOK
    <3>3. "DATA_ERROR" \in Returns
      BY DEF Returns
    <3> QED
      BY <1>1, <1>3, <2>3, <3>1, <3>2, <3>3, FailStep DEF SkipPadding
  <2>5. CASE ~(pos' < HeaderSize)
    <3>1. /\ Read(HeaderSize, pos', "READ_FOOTER")
          /\ UNCHANGED <<fileSize, internal, combinedIndex, thisIndex, decoder, live, delivered>>
      BY <1>3, <2>2, <2>5 DEF SkipPadding, SeekFooter
    <3>2. TypeOK'
      BY <1>3, <2>3, <3>1 DEF SkipPadding, Read, HeaderSize, TypeOK, Phases
    <3>3. Bookkeeping'
      <4>1. /\ request' = [count |-> HeaderSize, offset |-> pos']
            /\ state' = "READ_FOOTER" /\ phase' = "reading"
            /\ UNCHANGED <<combinedIndex, file>>
        BY <1>3, <3>1 DEF SkipPadding, Read
      <4>2. /\ pos + HeaderSize + padding + combinedIndex.size = file.size
            /\ pos + HeaderSize <= file.size
        BY <1>2 DEF FooterStage
      <4>3. padding \in Nat /\ combinedIndex.size \in Nat /\ pos \in Nat /\ file.size \in Nat
        BY FileFacts DEF TypeOK, Index
      <4>4. FooterStage' /\ request'.offset + request'.count <= file'.size
        BY <2>1, <2>2, <2>3, <2>5, <4>1, <4>2, <4>3 DEF FooterStage, HeaderSize
      <4> QED
        BY <4>1, <4>4 DEF Bookkeeping
    <3>4. Answers'
      BY <1>1, <1>3, <3>1 DEF SkipPadding, Read, Answers, Active, FileCovered, Infos
    <3> QED
      BY <3>2, <3>3, <3>4
  <2> QED
    BY <2>4, <2>5
<1>4. CASE BadFooter
  <2>1. FooterError(pos) \in Returns
    BY <1>4 DEF BadFooter, FooterError, Returns
  <2> QED
    BY <1>1, <1>4, <2>1, FailStep DEF BadFooter, streamVars, TypeOK
<1>5. CASE GoodFooter
  <2> DEFINE flags == file.footers[pos]
             limit == DecoderLimit(memused')
             count == IF indexSize' < BufSize THEN indexSize' ELSE BufSize
  <2>1. flags \in Footer /\ pos \in DOMAIN file.footers /\ file.size \in Nat
    BY <1>5, FileFacts DEF GoodFooter, FooterError
  <2>2. pos >= flags.backward + HeaderSize /\ flags.backward \in Nat \ {0}
    <3>1. ~(pos < flags.backward + HeaderSize)
      BY <1>5 DEF GoodFooter, FooterError
    <3>2. flags.backward \in Nat \ {0} /\ pos \in Nat
      BY <2>1 DEF Footer, TypeOK
    <3> QED
      BY <3>1, <3>2 DEF HeaderSize
  <2>3. footerFlags' = flags /\ indexSize' = flags.backward /\ pos' = pos - flags.backward
    BY <1>5 DEF GoodFooter
  <2>4. pos' \in Nat /\ pos' >= HeaderSize /\ indexSize' \in Nat /\ footerFlags' \in Footer
    <3>1. pos \in Nat
      BY DEF TypeOK
    <3>2. flags.backward \in Nat /\ flags \in Footer
      BY <2>1, <2>2
    <3> HIDE DEF flags
    <3> QED
      BY <2>2, <2>3, <3>1, <3>2 DEF HeaderSize
  <2>5. memused' \in Nat
    <3>1. memusedBy(combinedIndex) \in Nat
      BY MemusageNat DEF memusedBy, TypeOK, Index
    <3> QED
      BY <1>5, <3>1, SizesAssumption DEF GoodFooter
  <2>6. limit \in Int
    BY <2>5 DEF DecoderLimit, TypeOK
  <2>7. CASE limit <= 0
    <3>1. Fail("PROG_ERROR") /\ UNCHANGED readVars
      BY <1>5, <2>7 DEF GoodFooter
    <3>2. "PROG_ERROR" \in Returns
      BY DEF Returns
    <3>3. memlimit' \in Nat /\ padding' \in Nat
      BY <1>5 DEF GoodFooter, TypeOK
    <3> QED
      BY <1>1, <1>5, <2>4, <2>5, <3>1, <3>2, <3>3, FailStep DEF GoodFooter
  <2>8. CASE ~(limit <= 0)
    <3>1. /\ decoder' = [start |-> pos', limit |-> limit, owns |-> TRUE, stuck |-> FALSE]
          /\ live' = live + 1
          /\ Read(count, pos', "READ_INDEX")
          /\ UNCHANGED <<fileSize, internal, combinedIndex, thisIndex, delivered>>
      BY <1>5, <2>8 DEF GoodFooter
    <3>2. count \in Nat /\ count <= indexSize'
      BY <2>4, SizesAssumption
    <3>3. decoder' \in [start : Nat, limit : Int, owns : BOOLEAN, stuck : BOOLEAN]
      BY <2>4, <2>6, <3>1
    <3>4. TypeOK'
      BY <1>5, <2>4, <2>5, <3>1, <3>2, <3>3 DEF GoodFooter, Read, TypeOK, Phases
    <3>5. Bookkeeping'
      <4>1. /\ decoder'.start = pos' /\ request' = [count |-> count, offset |-> pos']
            /\ state' = "READ_INDEX" /\ phase' = "reading"
            /\ UNCHANGED <<padding, combinedIndex, file>>
        BY <1>5, <3>1 DEF GoodFooter, Read
      <4>2. pos + HeaderSize + padding + combinedIndex.size = file.size
        BY <1>2 DEF FooterStage
      <4>3. /\ padding \in Nat /\ combinedIndex.size \in Nat /\ pos \in Nat
        BY DEF TypeOK, Index
      <4>4. IndexStage'
        BY <2>2, <2>3, <2>4, <3>2, <4>1, <4>2, <4>3 DEF IndexStage, HeaderSize
      <4>5. request'.offset + request'.count <= file'.size
        BY <2>1, <2>2, <2>3, <2>4, <3>2, <4>1, <4>2, <4>3 DEF HeaderSize
      <4> QED
        BY <4>1, <4>4, <4>5 DEF Bookkeeping
    <3>6. Answers'
      BY <1>1, <1>5, <3>1 DEF GoodFooter, Read, Answers, Active, FileCovered, Infos
    <3> QED
      BY <3>4, <3>5, <3>6
  <2> QED
    BY <2>6, <2>7, <2>8
<1> QED
  BY <1>3, <1>4, <1>5

LEMMA IndexKeepsIInv ==
  ASSUME IInv, MoreIndex \/ BadIndex \/ IndexOverLimit \/ IndexDecoded
  PROVE  IInv'
<1> USE DEF IInv, IndexArrived
<1>1. Active /\ delivered = <<>> /\ state = "READ_INDEX"
  BY DEF MoreIndex, BadIndex, IndexOverLimit, IndexDecoded, Active, Answers
<1>2. request.offset = pos /\ request.offset + request.count <= file.size /\ IndexStage
  BY <1>1 DEF Bookkeeping
<1>3. /\ pos \in Nat /\ indexSize \in Nat /\ padding \in Nat /\ memused \in Nat
      /\ request.count \in Nat /\ decoder.start \in Nat /\ footerFlags.backward \in Nat
      /\ combinedIndex.size \in Nat /\ thisIndex.size \in Nat /\ file.size \in Nat
  BY FileFacts DEF TypeOK, Index, Footer
<1>4. pos + request.count \in Nat /\ indexSize - request.count \in Nat
  BY <1>2, <1>3 DEF IndexStage
<1>5. "DATA_ERROR" \in Returns /\ "MEMLIMIT_ERROR" \in Returns
  BY DEF Returns
<1>6. CASE MoreIndex
  <2> DEFINE count == IF indexSize' < BufSize THEN indexSize' ELSE BufSize
  <2>1. pos' = pos + request.count /\ indexSize' = indexSize - request.count
    BY <1>6 DEF MoreIndex, MoveOn
  <2>2. count \in Nat /\ count <= indexSize'
    BY <1>4, <2>1, SizesAssumption
  <2>3. /\ decoder' = [decoder EXCEPT !.stuck = request.count = 0]
        /\ Read(count, pos', "READ_INDEX")
    BY <1>6 DEF MoreIndex
  <2>4. decoder' \in [start : Nat, limit : Int, owns : BOOLEAN, stuck : BOOLEAN]
    <3>1. (request.count = 0) \in BOOLEAN
      OBVIOUS
    <3> QED
      BY <2>3, <3>1 DEF TypeOK
  <2>5. TypeOK'
    BY <1>4, <1>6, <2>1, <2>2, <2>3, <2>4 DEF MoreIndex, Read, TypeOK, Phases, infoVars
  <2>6. Bookkeeping'
    <3>1. /\ decoder'.start = decoder.start /\ request' = [count |-> count, offset |-> pos']
          /\ state' = "READ_INDEX" /\ phase' = "reading"
          /\ UNCHANGED <<padding, combinedIndex, file, footerFlags>>
      BY <1>6, <2>3 DEF MoreIndex, Read, TypeOK
    <3>2. IndexStage' /\ request'.offset + request'.count <= file'.size
      BY <1>2, <1>3, <1>4, <2>1, <2>2, <3>1 DEF IndexStage, HeaderSize
    <3> QED
      BY <3>1, <3>2 DEF Bookkeeping
  <2>7. Answers'
    BY <1>1, <1>6, <2>3 DEF MoreIndex, Read, Answers, Active, FileCovered, Infos
  <2> QED
    BY <2>5, <2>6, <2>7
<1>7. CASE BadIndex
  <2>1. memlimit' \in Nat /\ footerFlags' \in Footer /\ padding' \in Nat /\ memused' \in Nat
    BY <1>7 DEF BadIndex, TypeOK
  <2>2. pos' \in Nat /\ indexSize' \in Nat
    BY <1>4, <1>7 DEF BadIndex, MoveOn
  <2> QED
    BY <1>1, <1>5, <1>7, <2>1, <2>2, FailStep DEF BadIndex
<1>8. CASE IndexOverLimit
  <2>1. footerFlags' \in Footer /\ padding' \in Nat /\ memused' \in Nat
    BY <1>8 DEF IndexOverLimit, TypeOK
  <2>2. pos' \in Nat /\ indexSize' \in Nat
    BY <1>4, <1>8 DEF IndexOverLimit, MoveOn
  <2>3. TheIndex.blocks \in Nat
    BY <1>8, FileFacts DEF IndexOverLimit, IndexKnown, TheIndex, IndexField
  <2>4. memlimit' \in Nat
    <3>1. lzma_index_memusage(1, TheIndex.blocks) \in Nat
      BY <2>3, MemusageNat
    <3> QED
      BY <1>3, <1>8, <3>1 DEF IndexOverLimit
  <2> QED
    BY <1>1, <1>5, <1>8, <2>1, <2>2, <2>4, FailStep DEF IndexOverLimit
<1>9. CASE IndexDecoded
  <2> DEFINE after == pos + request.count
             front == after - footerFlags.backward - HeaderSize
             exact == indexSize' = 0 /\ Given = TheIndex.size
  <2>1. TheIndex \in IndexField
    BY <1>9, FileFacts DEF IndexDecoded, IndexKnown, TheIndex
  <2>2. indexSize' = indexSize - request.count /\ indexSize' \in Nat /\ after \in Nat
    BY <1>4, <1>9 DEF IndexDecoded
  <2>3. memlimit' \in Nat /\ footerFlags' \in Footer /\ padding' \in Nat /\ memused' \in Nat
    BY <1>9 DEF IndexDecoded, TypeOK
  <2>4. CASE ~exact
    <3>1. Fail("DATA_ERROR") /\ pos' = after /\ UNCHANGED readVars
      BY <1>9, <2>4 DEF IndexDecoded
    <3> QED
      BY <1>1, <1>5, <1>9, <2>2, <2>3, <3>1, FailStep DEF IndexDecoded
  <2>5. ASSUME exact PROVE IInv'
    <3>1. /\ front = decoder.start - HeaderSize /\ front \in Nat
          /\ TheIndex.size = footerFlags.backward
          /\ TheIndex.total \in Nat /\ TheIndex.blocks \in Nat /\ TheIndex.size \in Nat
      BY <1>2, <1>3, <2>1, <2>2, <2>5 DEF IndexStage, Given, HeaderSize, IndexField
    <3>2. CASE front < TheIndex.total
      <4>1. Fail("DATA_ERROR") /\ pos' = front /\ UNCHANGED readVars
        BY <1>9, <2>5, <3>2 DEF IndexDecoded
      <4> QED
        BY <1>1, <1>5, <1>9, <2>2, <2>3, <3>1, <4>1, FailStep DEF IndexDecoded
    <3>3. CASE ~(front < TheIndex.total)
      <4>1. /\ thisIndex' = [streams |-> 1, blocks |-> TheIndex.blocks,
                             size |-> TheIndex.total + TheIndex.size + 2 * HeaderSize,
                             checks |-> {}]
            /\ decoder' = [decoder EXCEPT !.owns = FALSE]
            /\ pos' = front - TheIndex.total
            /\ Read(HeaderSize, pos', "READ_STREAM_HEADER")
            /\ UNCHANGED <<fileSize, internal, combinedIndex, live, delivered>>
        BY <1>9, <2>5, <3>3 DEF IndexDecoded
      <4>2. pos' \in Nat
        BY <3>1, <3>3, <4>1
      <4>3. thisIndex' \in Index /\ thisIndex'.size = TheIndex.total + TheIndex.size + 2 * HeaderSize
        BY <3>1, <4>1 DEF Index, HeaderSize
      <4>4. decoder' \in [start : Nat, limit : Int, owns : BOOLEAN, stuck : BOOLEAN]
        BY <4>1 DEF TypeOK
      <4>5. TypeOK'
        BY <1>9, <2>2, <4>1, <4>2, <4>3, <4>4 DEF IndexDecoded, Read, HeaderSize, TypeOK, Phases
      <4>6. Bookkeeping'
        <5>1. /\ request' = [count |-> HeaderSize, offset |-> pos']
              /\ state' = "READ_STREAM_HEADER" /\ phase' = "reading"
              /\ UNCHANGED <<padding, combinedIndex, file>>
          BY <1>9, <4>1 DEF IndexDecoded, Read
        <5>2. HeaderStage' /\ request'.offset + request'.count <= file'.size
          BY <1>2, <1>3, <3>1, <4>1, <4>2, <4>3, <5>1 DEF HeaderStage, IndexStage, HeaderSize
        <5> QED
          BY <5>1, <5>2 DEF Bookkeeping
      <4>7. Answers'
        BY <1>1, <1>9, <4>1 DEF IndexDecoded, Read, Answers, Active, FileCovered, Infos
      <4> QED
        BY <4>5, <4>6, <4>7
    <3> QED
      BY <3>2, <3>3
  <2> QED
    BY <2>4, <2>5
<1> QED
  BY <1>6, <1>7, <1>8, <1>9

LEMMA HeaderKeepsIInv ==
  ASSUME IInv, BadHeader \/ NextStream \/ NoRoomForStream \/ AllParsed
  PROVE  IInv'
<1> USE DEF IInv, HeaderArrived
<1>1. Active /\ delivered = <<>> /\ state = "READ_STREAM_HEADER"
  BY DEF BadHeader, NextStream, NoRoomForStream, AllParsed, Active, Answers
<1>2. request.offset = pos /\ request.offset + request.count <= file.size /\ HeaderStage
  BY <1>1 DEF Bookkeeping
<1>3. /\ pos \in Nat /\ padding \in Nat /\ streamPadding + padding \in Nat
      /\ combinedIndex.size \in Nat /\ thisIndex.size \in Nat /\ file.size \in Nat
      /\ SizeMax \in Nat
  <2>1. /\ pos \in Nat /\ padding \in Nat /\ streamPadding \in Nat
        /\ combinedIndex \in Index /\ thisIndex \in Index
    BY DEF TypeOK
  <2>2. combinedIndex.size \in Nat /\ thisIndex.size \in Nat
    BY <2>1 DEF Index
  <2>3. file.size \in Nat
    BY FileFacts
  <2>4. SizeMax \in Nat
    BY FilesAssumption
  <2> QED
    BY <2>1, <2>2, <2>3, <2>4
<1>4. Combined \in Index /\ Combined.size = thisIndex.size + padding + combinedIndex.size
  BY CombinedFacts
<1>5. AfterCat \in Int
  BY DEF AfterCat, Count, TypeOK
<1>6. NoDecoder \in [start : Nat, limit : Int, owns : BOOLEAN, stuck : BOOLEAN]
  BY DEF NoDecoder
<1>7. CASE BadHeader
  <2> DEFINE ret == IF pos \in DOMAIN file.headers THEN "DATA_ERROR" ELSE "FORMAT_ERROR"
  <2>1. ret \in Returns /\ Fail(ret)
    BY <1>7 DEF BadHeader, Returns
  <2>2. /\ memlimit' \in Nat /\ footerFlags' \in Footer /\ padding' \in Nat /\ memused' \in Nat
        /\ pos' \in Nat /\ indexSize' \in Nat
    BY <1>7 DEF BadHeader, TypeOK, streamVars
  <2> HIDE DEF ret
  <2> QED
    BY <1>1, <1>7, <2>1, <2>2, FailStep DEF BadHeader
<1>8. CASE NextStream
  <2>1. /\ combinedIndex' = Combined /\ thisIndex' = NoIndex /\ live' = AfterCat
        /\ padding' = 0 /\ pos' = pos - HeaderSize /\ pos >= 2 * HeaderSize
        /\ streamPadding' = streamPadding + padding
        /\ Read(HeaderSize, pos', "READ_FOOTER")
    BY <1>8 DEF NextStream
  <2>2. pos' \in Nat /\ pos' >= HeaderSize
    BY <1>3, <2>1 DEF HeaderSize
  <2>3. TypeOK'
    BY <1>3, <1>4, <1>5, <1>8, <2>1, <2>2, NoIndexType DEF NextStream, Read, HeaderSize, TypeOK, Phases
  <2>4. Bookkeeping'
    <3>1. /\ request' = [count |-> HeaderSize, offset |-> pos']
          /\ state' = "READ_FOOTER" /\ phase' = "reading" /\ file' = file
      BY <1>8, <2>1 DEF NextStream, Read
    <3>2. FooterStage' /\ request'.offset + request'.count <= file'.size
      BY <1>2, <1>3, <1>4, <2>1, <2>2, <3>1 DEF FooterStage, HeaderStage, HeaderSize
    <3> QED
      BY <3>1, <3>2 DEF Bookkeeping
  <2>5. Answers'
    BY <1>1, <1>8, <2>1 DEF NextStream, Read, Answers, Active, FileCovered, Infos
  <2> QED
    BY <2>3, <2>4, <2>5
<1>9. CASE NoRoomForStream
  <2>1. Failure("DATA_ERROR") \in Result /\ Failure("DATA_ERROR").kind = "error"
    BY NoIndexType DEF Failure, Result, Returns
  <2>2. delivered' = <<Failure("DATA_ERROR")>>
    BY <1>1, <1>9 DEF NoRoomForStream, Tell
  <2>3. delivered' \in Seq(Result) /\ Len(delivered') = 1 /\ Infos' = {}
    BY <2>1, <2>2 DEF Infos
  <2>4. live' \in Int
    BY <1>5, <1>9 DEF NoRoomForStream
  <2>5. TypeOK'
    BY <1>3, <1>6, <1>9, <2>3, <2>4, NoIndexType
    DEF NoRoomForStream, TypeOK, Phases, streamVars, readVars
  <2> QED
    BY <1>9, <2>3, <2>5 DEF NoRoomForStream, Bookkeeping, Active, Answers, FileCovered
<1>10. CASE AllParsed
  <2> DEFINE success == Success(Combined, streamPadding')
  <2>1. success \in Result /\ success.kind = "info" /\ success.info.size = Combined.size
    <3>1. cleanupIndexInfo(Combined) \in Index /\ cleanupIndexInfo(Combined).size = Combined.size
      BY <1>4 DEF cleanupIndexInfo, Index
    <3> QED
      BY <1>3, <1>10, <3>1 DEF AllParsed, Success, Result, Returns
  <2>2. delivered' = <<success>>
    BY <1>1, <1>10 DEF AllParsed, Tell
  <2>3. delivered' \in Seq(Result) /\ Len(delivered') = 1
    BY <2>1, <2>2
  <2>4. Combined.size = file.size
    BY <1>2, <1>3, <1>4, <1>10 DEF AllParsed, HeaderStage
  <2>5. FileCovered'
    BY <1>10, <2>1, <2>2, <2>4 DEF AllParsed, FileCovered, Infos
  <2>6. TypeOK'
    BY <1>3, <1>4, <1>5, <1>6, <1>10, <2>3, NoIndexType
    DEF AllParsed, TypeOK, Phases, streamVars, readVars
  <2> QED
    BY <1>10, <2>3, <2>5, <2>6 DEF AllParsed, Bookkeeping, Active, Answers
<1> QED
  BY <1>7, <1>8, <1>9, <1>10

LEMMA ReaderKeepsIInv ==
  ASSUME IInv, Reader
  PROVE  IInv'
<1> USE DEF IInv
<1>1. Active /\ delivered = <<>>
  BY DEF Reader, AnswerNow, RefuseNow, Postpone, AnswerLater, RefuseLater, Active, Answers
<1>2. \A length \in Lengths : length \in Nat
  BY DEF Lengths, TypeOK
<1>3. Failure("IO") \in Result /\ Failure("IO").kind = "error"
  BY NoIndexType DEF Failure, Result, Returns
<1>4. CASE AnswerNow
  <2>1. PICK length \in Lengths :
          /\ Feed(length)
          /\ IF length = request.count
             THEN /\ phase' = "parsing"
                  /\ UNCHANGED <<fileSize, internal, combinedIndex, thisIndex, decoder, live, delivered>>
             ELSE Fail("TRUNCATED")
    BY <1>4 DEF AnswerNow
  <2>2. filled' \in Nat /\ currentReadBuffer' = FALSE
    BY <1>2, <2>1 DEF Feed, TypeOK
  <2>3. CASE length = request.count
    <3>1. TypeOK'
      BY <1>4, <2>1, <2>2, <2>3 DEF AnswerNow, TypeOK, Phases, streamVars
    <3>2. Bookkeeping'
      BY <1>1, <1>4, <2>1, <2>3 DEF AnswerNow, Bookkeeping, Active, streamVars,
         FooterStage, IndexStage, HeaderStage
    <3>3. Answers'
      BY <1>1, <1>4, <2>1, <2>3 DEF AnswerNow, Answers, Active, FileCovered, Infos
    <3> QED
      BY <3>1, <3>2, <3>3
  <2>4. CASE length # request.count
    <3>1. Fail("TRUNCATED") /\ "TRUNCATED" \in Returns
      BY <2>1, <2>4 DEF Returns
    <3>2. /\ fileSize' \in Nat /\ internal' \in BOOLEAN /\ live' \in Int
          /\ combinedIndex' \in Index /\ thisIndex' \in Index
          /\ decoder' \in [start : Nat, limit : Int, owns : BOOLEAN, stuck : BOOLEAN]
          /\ phase' = "over" /\ delivered' \in Seq(Result)
          /\ Len(delivered') = 1 /\ Infos' = {}
      BY <1>1, <3>1, FailFacts
    <3>3. TypeOK'
      BY <1>4, <2>2, <3>2 DEF AnswerNow, TypeOK, Phases, streamVars
    <3> QED
      BY <3>2, <3>3 DEF Bookkeeping, Active, Answers, FileCovered
  <2> QED
    BY <2>3, <2>4
<1>5. CASE RefuseNow \/ RefuseLater
  <2>1. delivered' = <<Failure("IO")>> /\ phase' = "abandoned"
    BY <1>1, <1>5 DEF RefuseNow, RefuseLater, Tell
  <2>2. delivered' \in Seq(Result) /\ Len(delivered') = 1 /\ Infos' = {}
    BY <1>3, <2>1 DEF Infos
  <2>3. UNCHANGED <<file, infoVars, internal, streamVars, indexVars, readVars, filled>> /\ async' \in BOOLEAN
    BY <1>5 DEF RefuseNow, RefuseLater, TypeOK
  <2>4. TypeOK'
    BY <2>1, <2>2, <2>3 DEF TypeOK, Phases, infoVars, streamVars, indexVars, readVars
  <2> QED
    BY <2>1, <2>2, <2>4 DEF Bookkeeping, Active, Answers, FileCovered
<1>6. CASE Postpone \/ AnswerLater
  <2>1. /\ phase' \in {"waiting", "parsing"} /\ delivered' = delivered
        /\ UNCHANGED <<file, infoVars, internal, streamVars, indexVars, state, request>>
    BY <1>6 DEF Postpone, AnswerLater, readVars
  <2>2. async' \in BOOLEAN /\ currentReadBuffer' \in BOOLEAN
    BY <1>6 DEF Postpone, AnswerLater, Feed, readVars, TypeOK
  <2>3. filled' \in Nat
    BY <1>2, <1>6 DEF Postpone, AnswerLater, Feed, TypeOK
  <2>4. TypeOK'
    BY <2>1, <2>2, <2>3 DEF TypeOK, Phases, infoVars, streamVars, indexVars
  <2>5. Bookkeeping'
    BY <1>1, <2>1 DEF Bookkeeping, Active, FooterStage, IndexStage, HeaderStage,
       infoVars, streamVars, indexVars
  <2>6. Answers'
    BY <1>1, <2>1 DEF Answers, Active, FileCovered, Infos
  <2> QED
    BY <2>4, <2>5, <2>6
<1> QED
  BY <1>4, <1>5, <1>6 DEF Reader

LEMMA CollectKeepsIInv ==
  ASSUME IInv, Collect
  PROVE  IInv'
<1> USE DEF IInv
<1>1. /\ phase' = "collected" /\ index' = NoIndex /\ combinedIndex' = NoIndex
      /\ thisIndex' = NoIndex /\ decoder' = NoDecoder /\ internal' = FALSE
      /\ fileSize' = SizeMax /\ SizeMax \in Nat
      /\ UNCHANGED <<file, memlimit, streamPadding, async, streamVars, readVars, filled, delivered>>
  BY FilesAssumption DEF Collect
<1>2. live' \in Int
  BY DEF Collect, Held, Count, TypeOK
<1>3. NoDecoder \in [start : Nat, limit : Int, owns : BOOLEAN, stuck : BOOLEAN]
  BY DEF NoDecoder
<1>4. TypeOK'
  BY <1>1, <1>2, <1>3, NoIndexType DEF TypeOK, Phases, streamVars, readVars
<1> QED
  BY <1>1, <1>4 DEF Bookkeeping, Active, Answers, FileCovered, Infos

LEMMA NextIInv == IInv /\ [Next]_vars => IInv'
<1> SUFFICES ASSUME IInv, [Next]_vars PROVE IInv'
  OBVIOUS
<1>1. CASE ParseStep
  BY <1>1, BeginsKeepIInv, FooterKeepsIInv, IndexKeepsIInv, HeaderKeepsIInv DEF ParseStep
<1>2. CASE Reader
  BY <1>2, ReaderKeepsIInv
<1>3. CASE Collect
  BY <1>3, CollectKeepsIInv
<1>4. CASE UNCHANGED vars
  BY <1>4 DEF IInv, TypeOK, Bookkeeping, Answers, Active, FooterStage, IndexStage, HeaderStage,
     FileCovered, Infos, vars, infoVars, streamVars, indexVars, readVars
<1> QED
  BY <1>1, <1>2, <1>3, <1>4 DEF Next, Rest

LEMMA Inductive == Spec => []IInv
BY InitIInv, NextIInv, PTL DEF Spec

-----------------------------------------------------------------------------
(* Who owns what the parser has allocated *)

(* live counts the owners.  Between two reads each stage has its own: the  *)
(* decoder while an Index is read, thisIndex while the header is read.     *)
Ownership ==
  /\ live = Count(index # NoIndex) + Held
  /\ ~internal => Held = 0
  /\ phase = "new" \/ Active => index = NoIndex
  /\ phase = "new" => ~internal
  /\ phase = "collected" => ~internal /\ index = NoIndex
  /\ Active => /\ internal
               /\ decoder.owns <=> state = "READ_INDEX"
               /\ thisIndex # NoIndex <=> state = "READ_STREAM_HEADER"
               /\ state = "READ_STREAM_HEADER" => thisIndex.streams = 1

LeakInv == IInv /\ Ownership

LEMMA Counts ==
  ASSUME TypeOK
  PROVE  /\ Held \in Nat
         /\ \A b \in BOOLEAN : Count(b) = IF b THEN 1 ELSE 0
         /\ Held = 0 => combinedIndex = NoIndex /\ thisIndex = NoIndex /\ ~decoder.owns
BY DEF Held, Count, TypeOK

LEMMA NothingHeld ==
  ASSUME combinedIndex' = NoIndex, thisIndex' = NoIndex, decoder' = NoDecoder
  PROVE  Held' = 0
BY DEF Held, Count, NoDecoder

(* The error label frees what is held and nothing else. *)
LEMMA FailOwnership ==
  ASSUME LeakInv, NEW ret \in Returns, Fail(ret), Active, index' = index
  PROVE  Ownership'
<1>1. Held' = 0
  BY NothingHeld DEF Fail
<1>2. live = Count(index # NoIndex) + Held /\ index = NoIndex
  BY DEF LeakInv, Ownership
<1>3. live' = 0 /\ Count(index' # NoIndex) = 0
  BY <1>2, Counts DEF Fail, Count, LeakInv, IInv
<1> QED
  BY <1>1, <1>3 DEF Fail, Ownership, Active

(* A step that only asks for another piece leaves the owners alone. *)
LEMMA SameOwners ==
  ASSUME LeakInv, Active, state' = state, decoder'.owns = decoder.owns,
         UNCHANGED <<index, internal, combinedIndex, thisIndex, live>>,
         phase' # "new", phase' # "collected"
  PROVE  Ownership'
<1>1. Held' = Held
  BY DEF Held
<1> QED
  BY <1>1 DEF LeakInv, Ownership, Active

LEMMA InitOwnership == Init => Ownership
BY DEF Init, Ownership, Active, Held, Count, NoDecoder

LEMMA BeginsKeepOwnership ==
  ASSUME LeakInv, MemlimitTooLow \/ TooSmall \/ ParseBegins
  PROVE  Ownership'
<1>1. phase = "new"
  BY DEF MemlimitTooLow, TooSmall, ParseBegins, Parse
<1>2. UNCHANGED <<index, combinedIndex, thisIndex, decoder, live>> /\ internal' \in {internal, TRUE}
  BY DEF MemlimitTooLow, TooSmall, ParseBegins, indexVars
<1>3. phase' = "over" \/ (phase' = "reading" /\ state' = "READ_FOOTER" /\ internal')
  BY DEF MemlimitTooLow, TooSmall, ParseBegins, Read
<1>4. Held' = Held
  BY <1>2 DEF Held
<1>5. ~internal
  BY <1>1 DEF LeakInv, Ownership
<1>6. Held = 0 /\ index = NoIndex
  BY <1>1, <1>5 DEF LeakInv, Ownership
<1>7. combinedIndex = NoIndex /\ thisIndex = NoIndex /\ ~decoder.owns
  BY <1>6, Counts DEF LeakInv, IInv
<1> QED
  BY <1>2, <1>3, <1>4, <1>6, <1>7 DEF LeakInv, Ownership, Active

LEMMA FooterKeepsOwnership ==
  ASSUME LeakInv, SkipPadding \/ BadFooter \/ GoodFooter
  PROVE  Ownership'
<1>1. Active /\ state = "READ_FOOTER"
  BY DEF SkipPadding, BadFooter, GoodFooter, Active
<1>2. index = NoIndex /\ ~decoder.owns /\ thisIndex = NoIndex
  BY <1>1 DEF LeakInv, Ownership
<1>3. {"DATA_ERROR", "PROG_ERROR"} \subseteq Returns
  BY DEF Returns
<1>4. CASE SkipPadding
  <2>1. Fail("DATA_ERROR") => Ownership'
    BY <1>1, <1>3, <1>4, FailOwnership DEF SkipPadding
  <2>2. ASSUME Read(HeaderSize, pos', "READ_FOOTER"),
               UNCHANGED <<internal, combinedIndex, thisIndex, decoder, live>>
        PROVE  Ownership'
    BY <1>1, <1>4, <2>2, SameOwners DEF SkipPadding, Read
  <2> QED
    BY <1>4, <2>1, <2>2 DEF SkipPadding, SeekFooter
<1>5. CASE BadFooter
  <2>1. FooterError(pos) \in Returns
    BY <1>5 DEF BadFooter, FooterError, Returns
  <2> QED
    BY <1>1, <1>5, <2>1, FailOwnership DEF BadFooter
<1>6. CASE GoodFooter
  <2>1. CASE Fail("PROG_ERROR")
    BY <1>1, <1>3, <1>6, <2>1, FailOwnership DEF GoodFooter
  <2>2. CASE ~Fail("PROG_ERROR")
    <3>1. /\ decoder'.owns = TRUE /\ live' = live + 1
          /\ phase' = "reading" /\ state' = "READ_INDEX"
          /\ UNCHANGED <<index, internal, combinedIndex, thisIndex>>
      BY <1>6, <2>2 DEF GoodFooter, Read
    <3>2. Held' = Held + 1
      BY <1>2, <3>1 DEF Held, Count
    <3>3. internal
      BY <1>1, <1>6 DEF LeakInv, Ownership, GoodFooter
    <3>4. live' = Count(index' # NoIndex) + Held'
      BY <3>1, <3>2, Counts DEF Count, LeakInv, IInv, Ownership
    <3> QED
      BY <1>2, <3>1, <3>3, <3>4 DEF Ownership, Active
  <2> QED
    BY <2>1, <2>2
<1> QED
  BY <1>4, <1>5, <1>6

LEMMA IndexKeepsOwnership ==
  ASSUME LeakInv, MoreIndex \/ BadIndex \/ IndexOverLimit \/ IndexDecoded
  PROVE  Ownership'
<1>1. Active /\ state = "READ_INDEX"
  BY DEF MoreIndex, BadIndex, IndexOverLimit, IndexDecoded, IndexArrived, Active
<1>2. index = NoIndex /\ decoder.owns /\ thisIndex = NoIndex /\ internal
  BY <1>1 DEF LeakInv, Ownership
<1>3. {"DATA_ERROR", "MEMLIMIT_ERROR"} \subseteq Returns
  BY DEF Returns
<1>4. CASE MoreIndex
  <2>1. decoder'.owns = decoder.owns
    BY <1>4 DEF MoreIndex, LeakInv, IInv, TypeOK
  <2> QED
    BY <1>1, <1>4, <2>1, SameOwners DEF MoreIndex, Read, infoVars
<1>5. CASE BadIndex
  BY <1>1, <1>3, <1>5, FailOwnership DEF BadIndex
<1>6. CASE IndexOverLimit
  BY <1>1, <1>3, <1>6, FailOwnership DEF IndexOverLimit
<1>7. CASE IndexDecoded
  <2>1. CASE Fail("DATA_ERROR")
    BY <1>1, <1>3, <1>7, <2>1, FailOwnership DEF IndexDecoded
  <2>2. CASE ~Fail("DATA_ERROR")
    <3>1. /\ thisIndex'.streams = 1 /\ decoder' = [decoder EXCEPT !.owns = FALSE]
          /\ phase' = "reading" /\ state' = "READ_STREAM_HEADER"
          /\ UNCHANGED <<index, internal, combinedIndex, live>>
      BY <1>7, <2>2 DEF IndexDecoded, Read
    <3>2. ~decoder'.owns /\ thisIndex' # NoIndex
      BY <3>1 DEF NoIndex, LeakInv, IInv, TypeOK
    <3>3. Held' = Held
      BY <1>2, <3>1, <3>2 DEF Held, Count
    <3> QED
      BY <1>2, <3>1, <3>2, <3>3 DEF LeakInv, Ownership, Active
  <2> QED
    BY <2>1, <2>2
<1> QED
  BY <1>4, <1>5, <1>6, <1>7

LEMMA HeaderKeepsOwnership ==
  ASSUME LeakInv, BadHeader \/ NextStream \/ NoRoomForStream \/ AllParsed
  PROVE  Ownership'
<1>1. Active /\ state = "READ_STREAM_HEADER"
  BY DEF BadHeader, NextStream, NoRoomForStream, AllParsed, HeaderArrived, Active
<1>2. index = NoIndex /\ ~decoder.owns /\ thisIndex # NoIndex /\ internal
  <2>1. internal \/ Held = 0
    BY DEF LeakInv, Ownership
  <2> QED
    BY <1>1, <2>1, Counts DEF LeakInv, IInv, Ownership
<1>3. live = Count(combinedIndex # NoIndex) + 1
  BY <1>2 DEF LeakInv, Ownership, Held, Count
<1>4. AfterCat = 1
  BY <1>3 DEF AfterCat, Count
<1>5. Combined # NoIndex
  <2>1. thisIndex.streams = 1 /\ combinedIndex.streams \in Nat /\ thisIndex \in Index
    BY <1>1 DEF LeakInv, Ownership, IInv, TypeOK, Index
  <2>2. Combined.streams = 1 \/ Combined.streams = 1 + combinedIndex.streams
    BY <2>1 DEF Combined, lzma_index_cat, Index
  <2> QED
    BY <2>1, <2>2 DEF NoIndex
<1>6. CASE BadHeader
  <2>1. {"DATA_ERROR", "FORMAT_ERROR"} \subseteq Returns
    BY DEF Returns
  <2> QED
    BY <1>1, <1>6, <2>1, FailOwnership DEF BadHeader
<1>7. CASE NextStream
  <2>1. /\ combinedIndex' = Combined /\ thisIndex' = NoIndex /\ live' = 1
        /\ phase' = "reading" /\ state' = "READ_FOOTER"
        /\ UNCHANGED <<index, internal, decoder>>
    BY <1>4, <1>7 DEF NextStream, Read
  <2>2. Held' = 1
    BY <1>2, <1>5, <2>1 DEF Held, Count
  <2> QED
    BY <1>2, <2>1, <2>2 DEF Ownership, Active, Count
<1>8. CASE NoRoomForStream
  BY <1>2, <1>4, <1>8, NothingHeld DEF NoRoomForStream, Ownership, Active, Count
<1>9. CASE AllParsed
  BY <1>4, <1>5, <1>9, NothingHeld DEF AllParsed, Ownership, Active, Count
<1> QED
  BY <1>6, <1>7, <1>8, <1>9

LEMMA ReaderKeepsOwnership ==
  ASSUME LeakInv, Reader
  PROVE  Ownership'
<1>1. Active
  BY DEF Reader, AnswerNow, RefuseNow, Postpone, AnswerLater, RefuseLater, Active
<1>2. CASE AnswerNow
  <2>1. Fail("TRUNCATED") => Ownership'
    BY <1>1, <1>2, FailOwnership DEF AnswerNow, Returns
  <2>2. ASSUME phase' = "parsing", UNCHANGED <<internal, combinedIndex, thisIndex, decoder, live>>
        PROVE  Ownership'
    BY <1>1, <1>2, <2>2, SameOwners DEF AnswerNow
  <2> QED
    BY <1>2, <2>1, <2>2 DEF AnswerNow
<1>3. CASE RefuseNow \/ Postpone \/ AnswerLater \/ RefuseLater
  BY <1>1, <1>3, SameOwners
  DEF RefuseNow, Postpone, AnswerLater, RefuseLater, infoVars, indexVars, readVars
<1> QED
  BY <1>2, <1>3 DEF Reader

LEMMA CollectKeepsOwnership ==
  ASSUME LeakInv, Collect
  PROVE  Ownership'
<1>1. Held' = 0 /\ Count(index' # NoIndex) = 0
  BY NothingHeld DEF Collect, Count
<1>2. live' = 0
  BY Counts DEF Collect, LeakInv, IInv, Ownership, Count
<1> QED
  BY <1>1, <1>2 DEF Collect, Ownership, Active

LEMMA LeakInductive == Spec => []LeakInv
<1>1. Init => LeakInv
  BY InitIInv, InitOwnership DEF LeakInv
<1>2. LeakInv /\ [Next]_vars => LeakInv'
  <2> SUFFICES ASSUME LeakInv, [Next]_vars PROVE LeakInv'
    OBVIOUS
  <2>1. IInv'
    BY NextIInv DEF LeakInv
  <2>2. CASE ParseStep
    BY <2>1, <2>2, BeginsKeepOwnership, FooterKeepsOwnership, IndexKeepsOwnership,
       HeaderKeepsOwnership DEF ParseStep, LeakInv
  <2>3. CASE Reader \/ Collect
    BY <2>1, <2>3, ReaderKeepsOwnership, CollectKeepsOwnership DEF LeakInv
  <2>4. CASE UNCHANGED vars
    BY <2>1, <2>4 DEF LeakInv, Ownership, Active, Held, vars, infoVars, indexVars, readVars
  <2> QED
    BY <2>2, <2>3, <2>4 DEF Next, Rest
<1> QED
  BY <1>1, <1>2, PTL DEF Spec

-----------------------------------------------------------------------------
(* The memory limit *)

(* The groups of records that n blocks fill. *)
Groups(n) == (n + GroupSize - 1) \div GroupSize

(* Integer division, and products compared, as lzma_index_memusage rounds *)
(* blocks up to groups.                                                    *)
LEMMA DivFacts ==
  ASSUME NEW x \in Nat, NEW g \in Nat \ {0}
  PROVE  x \div g \in Nat /\ (x \div g) * g <= x /\ x < (x \div g) * g + g
OBVIOUS

LEMMA MultMono ==
  ASSUME NEW a \in Nat, NEW b \in Nat, NEW c \in Nat, a <= b
  PROVE  a * c <= b * c
OBVIOUS

LEMMA MultLess ==
  ASSUME NEW a \in Nat, NEW b \in Nat, NEW c \in Nat \ {0}, a * c < b * c
  PROVE  a < b
OBVIOUS

LEMMA GroupsAdd ==
  ASSUME NEW m \in Nat, NEW n \in Nat
  PROVE  /\ Groups(m) \in Nat /\ Groups(n) \in Nat /\ Groups(m + n) \in Nat
         /\ Groups(m + n) <= Groups(m) + Groups(n)
<1> DEFINE g == GroupSize
<1>1. g \in Nat \ {0}
  BY SizesAssumption
<1>2. m + g - 1 \in Nat /\ n + g - 1 \in Nat /\ (m + n) + g - 1 \in Nat
  BY <1>1
<1>3. Groups(m) \in Nat /\ m + g - 1 < Groups(m) * g + g
  BY <1>1, <1>2, DivFacts DEF Groups
<1>4. Groups(n) \in Nat /\ n + g - 1 < Groups(n) * g + g
  BY <1>1, <1>2, DivFacts DEF Groups
<1>5. Groups(m + n) \in Nat /\ Groups(m + n) * g <= (m + n) + g - 1
  BY <1>1, <1>2, DivFacts DEF Groups
<1> DEFINE a == Groups(m)  b == Groups(n)  c == Groups(m + n)
<1> HIDE DEF a, b, c, g
<1>6. a \in Nat /\ b \in Nat /\ c \in Nat
  BY <1>3, <1>4, <1>5 DEF a, b, c
<1>7. a * g \in Nat /\ b * g \in Nat /\ c * g \in Nat /\ (a + b + 1) * g = a * g + b * g + g
  BY <1>1, <1>6
<1>8. c * g < (a + b + 1) * g
  <2>1. m + g - 1 < a * g + g /\ n + g - 1 < b * g + g /\ c * g <= (m + n) + g - 1
    BY <1>3, <1>4, <1>5 DEF a, b, c
  <2> QED
    BY <2>1, <1>7, <1>1
<1>9. c < a + b + 1
  BY <1>1, <1>6, <1>8, MultLess
<1> QED
  BY <1>6, <1>9 DEF a, b, c

(* Two Indexes together need no more memory than one beside the other. *)
LEMMA MemusageSubadditive ==
  ASSUME NEW s \in Nat, NEW t \in Nat, NEW m \in Nat, NEW n \in Nat
  PROVE  lzma_index_memusage(s + t, m + n)
           <= lzma_index_memusage(s, m) + lzma_index_memusage(t, n)
<1>1. IndexBase \in Nat /\ StreamMem \in Nat /\ GroupMem \in Nat
  BY SizesAssumption
<1>2. \A i \in Nat, k \in Nat : lzma_index_memusage(i, k) = IndexBase + i * StreamMem + Groups(k) * GroupMem
  BY DEF lzma_index_memusage, Groups
<1> DEFINE a == Groups(m)  b == Groups(n)  c == Groups(m + n)
<1>3. a \in Nat /\ b \in Nat /\ c \in Nat /\ c <= a + b
  BY GroupsAdd
<1>4. m + n \in Nat /\ s + t \in Nat
  OBVIOUS
<1> HIDE DEF a, b, c
<1>5. c * GroupMem <= (a + b) * GroupMem
  BY <1>1, <1>3, a + b \in Nat, MultMono
<1>6. (a + b) * GroupMem = a * GroupMem + b * GroupMem /\ (s + t) * StreamMem = s * StreamMem + t * StreamMem
  BY <1>1, <1>3
<1>7. /\ a * GroupMem \in Nat /\ b * GroupMem \in Nat /\ c * GroupMem \in Nat
      /\ s * StreamMem \in Nat /\ t * StreamMem \in Nat
  BY <1>1, <1>3
<1>8. /\ lzma_index_memusage(s + t, m + n) = IndexBase + (s + t) * StreamMem + c * GroupMem
      /\ lzma_index_memusage(s, m) = IndexBase + s * StreamMem + a * GroupMem
      /\ lzma_index_memusage(t, n) = IndexBase + t * StreamMem + b * GroupMem
  BY <1>2, <1>4 DEF a, b, c
<1> QED
  BY <1>1, <1>5, <1>6, <1>7, <1>8

(* Each decoder may use what the Indexes behind it have left, and an Index *)
(* that was decoded has kept to that.                                      *)
Budget ==
  /\ CombinedFitsMemlimit
  /\ Active /\ state # "READ_FOOTER" => decoder.limit = DecoderLimit(memusedBy(combinedIndex))
  /\ Active /\ state = "READ_STREAM_HEADER" => memusedBy(thisIndex) <= decoder.limit

MemInv == IInv /\ Budget

LEMMA FailBudget ==
  ASSUME NEW ret, Fail(ret)
  PROVE  Budget'
BY DEF Fail, Budget, CombinedFitsMemlimit, Active

(* A step that only asks for another piece leaves the budget alone. *)
LEMMA SameBudget ==
  ASSUME MemInv, state' = state, decoder'.limit = decoder.limit,
         UNCHANGED <<memlimit, combinedIndex, thisIndex>>,
         Active' => Active
  PROVE  Budget'
BY DEF MemInv, Budget, CombinedFitsMemlimit, DecoderLimit, memusedBy

(* What is not parsed into keeps nothing to be compared with the limit. *)
LEMMA NothingCombined ==
  ASSUME combinedIndex' = NoIndex, ~Active'
  PROVE  Budget'
BY DEF Budget, CombinedFitsMemlimit

LEMMA BeginsKeepBudget ==
  ASSUME MemInv, MemlimitTooLow \/ TooSmall \/ ParseBegins
  PROVE  Budget'
<1>1. combinedIndex' = NoIndex
  BY DEF MemlimitTooLow, TooSmall, ParseBegins, Parse, indexVars, MemInv, IInv, Bookkeeping
<1>2. phase' = "over" \/ state' = "READ_FOOTER"
  BY DEF MemlimitTooLow, TooSmall, ParseBegins, Read
<1> QED
  BY <1>1, <1>2 DEF Budget, CombinedFitsMemlimit, Active

LEMMA FooterKeepsBudget ==
  ASSUME MemInv, SkipPadding \/ BadFooter \/ GoodFooter
  PROVE  Budget'
<1>1. Active
  BY DEF SkipPadding, BadFooter, GoodFooter, Active
<1>2. CASE SkipPadding
  <2>1. ASSUME Read(HeaderSize, pos', "READ_FOOTER"), combinedIndex' = combinedIndex
        PROVE  Budget'
    BY <1>2, <2>1 DEF SkipPadding, Read, MemInv, Budget, CombinedFitsMemlimit, memusedBy
  <2> QED
    BY <1>2, <2>1, FailBudget DEF SkipPadding, SeekFooter
<1>3. CASE BadFooter
  BY <1>3, FailBudget DEF BadFooter
<1>4. CASE GoodFooter
  <2>1. ASSUME ~Fail("PROG_ERROR")
        PROVE  Budget'
    <3>1. /\ decoder'.limit = DecoderLimit(memused') /\ state' = "READ_INDEX"
          /\ UNCHANGED <<memlimit, combinedIndex>>
          /\ memused' = IF combinedIndex = NoIndex THEN InternalSize ELSE memusedBy(combinedIndex)
      BY <1>4, <2>1 DEF GoodFooter, Read
    <3>2. decoder'.limit = DecoderLimit(memusedBy(combinedIndex))'
      BY <3>1 DEF DecoderLimit, memusedBy
    <3> QED
      BY <3>1, <3>2 DEF MemInv, Budget, CombinedFitsMemlimit, memusedBy
  <2> QED
    BY <2>1, FailBudget
<1> QED
  BY <1>2, <1>3, <1>4

LEMMA IndexKeepsBudget ==
  ASSUME MemInv, MoreIndex \/ BadIndex \/ IndexOverLimit \/ IndexDecoded
  PROVE  Budget'
<1>1. Active /\ state = "READ_INDEX"
  BY DEF MoreIndex, BadIndex, IndexOverLimit, IndexDecoded, IndexArrived, Active
<1>2. decoder \in [start : Nat, limit : Int, owns : BOOLEAN, stuck : BOOLEAN]
  BY DEF MemInv, IInv, TypeOK
<1>3. CASE MoreIndex
  <2>1. decoder'.limit = decoder.limit
    BY <1>2, <1>3 DEF MoreIndex
  <2> QED
    BY <1>1, <1>3, <2>1, SameBudget DEF MoreIndex, Read, infoVars
<1>4. CASE BadIndex \/ IndexOverLimit
  BY <1>4, FailBudget DEF BadIndex, IndexOverLimit
<1>5. CASE IndexDecoded
  <2>1. ASSUME ~Fail("DATA_ERROR")
        PROVE  Budget'
    <3>1. /\ thisIndex'.streams = 1 /\ thisIndex'.blocks = TheIndex.blocks
          /\ decoder' = [decoder EXCEPT !.owns = FALSE]
          /\ UNCHANGED <<memlimit, combinedIndex>>
          /\ ~OverLimit
      BY <1>5, <2>1 DEF IndexDecoded
    <3>2. decoder'.limit = decoder.limit
      BY <1>2, <3>1
    <3>3. lzma_index_memusage(1, TheIndex.blocks) <= decoder.limit
      <4>1. TheIndex.blocks \in Nat
        BY <1>5, FileFacts DEF IndexDecoded, IndexKnown, TheIndex, IndexField, MemInv, IInv
      <4>2. lzma_index_memusage(1, TheIndex.blocks) \in Nat
        BY <4>1, MemusageNat
      <4> QED
        BY <1>2, <3>1, <4>2 DEF OverLimit
    <3>4. memusedBy(thisIndex)' <= decoder'.limit
      BY <3>1, <3>2, <3>3 DEF memusedBy, lzma_index_memusage
    <3>5. decoder'.limit = DecoderLimit(memusedBy(combinedIndex))'
      BY <1>1, <3>1, <3>2 DEF MemInv, Budget, DecoderLimit, memusedBy
    <3> QED
      BY <3>1, <3>4, <3>5 DEF MemInv, Budget, CombinedFitsMemlimit, memusedBy
  <2> QED
    BY <2>1, FailBudget
<1> QED
  BY <1>3, <1>4, <1>5

(* The step the limit is about: an Index joins the others. *)
LEMMA CombinedWithinLimit ==
  ASSUME MemInv, Active, state = "READ_STREAM_HEADER"
  PROVE  memusedBy(Combined) <= memlimit
<1>1. thisIndex \in Index /\ combinedIndex \in Index /\ memlimit \in Nat
  BY DEF MemInv, IInv, TypeOK
<1>2. memusedBy(thisIndex) \in Nat /\ memusedBy(combinedIndex) \in Nat
  BY <1>1, MemusageNat DEF memusedBy, Index
<1>3. memusedBy(thisIndex) <= DecoderLimit(memusedBy(combinedIndex))
  BY DEF MemInv, Budget
<1>4. CASE combinedIndex = NoIndex
  <2>1. Combined.streams = thisIndex.streams /\ Combined.blocks = thisIndex.blocks
    BY <1>1, <1>4 DEF Combined, Index
  <2> QED
    BY <1>3, <1>4, <2>1 DEF DecoderLimit, memusedBy
<1>5. CASE combinedIndex # NoIndex
  <2>1. /\ Combined.streams = thisIndex.streams + combinedIndex.streams
        /\ Combined.blocks = thisIndex.blocks + combinedIndex.blocks
    BY <1>1, <1>5 DEF Combined, lzma_index_cat, Index
  <2>2. memusedBy(Combined) <= memusedBy(thisIndex) + memusedBy(combinedIndex)
    BY <1>1, <2>1, MemusageSubadditive DEF memusedBy, Index
  <2>3. memusedBy(Combined) \in Nat
    BY <1>1, <2>1, MemusageNat DEF memusedBy, Index
  <2>4. memusedBy(thisIndex) <= memlimit - memusedBy(combinedIndex)
    BY <1>3, <1>5 DEF DecoderLimit
  <2> QED
    BY <1>1, <1>2, <2>2, <2>3, <2>4
<1> QED
  BY <1>4, <1>5

LEMMA HeaderKeepsBudget ==
  ASSUME MemInv, BadHeader \/ NextStream \/ NoRoomForStream \/ AllParsed
  PROVE  Budget'
<1>1. CASE BadHeader
  BY <1>1, FailBudget DEF BadHeader
<1>2. CASE NextStream
  <2>1. memusedBy(Combined) <= memlimit
    BY <1>2, CombinedWithinLimit DEF NextStream, HeaderArrived, Active
  <2>2. combinedIndex' = Combined /\ memlimit' = memlimit /\ state' = "READ_FOOTER"
    BY <1>2 DEF NextStream, Read
  <2>3. memusedBy(combinedIndex)' = memusedBy(Combined)
    BY <2>2 DEF memusedBy, lzma_index_memusage
  <2> QED
    BY <2>1, <2>2, <2>3 DEF Budget, CombinedFitsMemlimit
<1>3. CASE NoRoomForStream \/ AllParsed
  BY <1>3, NothingCombined DEF NoRoomForStream, AllParsed, Active
<1> QED
  BY <1>1, <1>2, <1>3

LEMMA ReaderKeepsBudget ==
  ASSUME MemInv, Reader
  PROVE  Budget'
<1>1. Active
  BY DEF Reader, AnswerNow, RefuseNow, Postpone, AnswerLater, RefuseLater, Active
<1>2. CASE AnswerNow
  <2>1. Fail("TRUNCATED") \/ UNCHANGED <<combinedIndex, thisIndex, decoder>>
    BY <1>2 DEF AnswerNow
  <2> QED
    BY <1>1, <1>2, <2>1, FailBudget, SameBudget DEF AnswerNow
<1>3. CASE RefuseNow \/ Postpone \/ AnswerLater \/ RefuseLater
  BY <1>1, <1>3, SameBudget
  DEF RefuseNow, Postpone, AnswerLater, RefuseLater, infoVars, indexVars, readVars
<1> QED
  BY <1>2, <1>3 DEF Reader

LEMMA NextMemInv == MemInv /\ [Next]_vars => MemInv'
<1> SUFFICES ASSUME MemInv, [Next]_vars PROVE MemInv'
  OBVIOUS
<1>1. IInv'
  BY NextIInv DEF MemInv
<1>2. CASE ParseStep
  BY <1>1, <1>2, BeginsKeepBudget, FooterKeepsBudget, IndexKeepsBudget,
     HeaderKeepsBudget DEF ParseStep, MemInv
<1>3. CASE Reader
  BY <1>1, <1>3, ReaderKeepsBudget DEF MemInv
<1>4. CASE Collect
  BY <1>1, <1>4, NothingCombined DEF Collect, Active, MemInv
<1>5. CASE UNCHANGED vars
  BY <1>1, <1>5, SameBudget DEF MemInv, Active, vars, infoVars, indexVars, readVars
<1> QED
  BY <1>2, <1>3, <1>4, <1>5 DEF Next, Rest

LEMMA MemInductive == Spec => []MemInv
<1>1. Init => MemInv
  BY InitIInv DEF Init, MemInv, Budget, CombinedFitsMemlimit, Active
<1> QED
  BY <1>1, NextMemInv, PTL DEF Spec

-----------------------------------------------------------------------------
(* The theorems *)

(* The variables of the parser keep their types, its offsets never become  *)
(* negative (index-parser.cpp computes them in 64 bits without a sign).    *)
THEOREM TypeCorrect == Spec => []TypeOK
BY Inductive, PTL DEF IInv

(* Every read that the parser asks for (parse_indexes_read) lies within    *)
(* the file, whatever sizes the file claims for itself.                    *)
THEOREM ParserReadsInBounds == Spec => []ReadsInBounds
<1>1. IInv => ReadsInBounds
  BY DEF IInv, TypeOK, Bookkeeping, Active, ReadsInBounds
<1> QED
  BY <1>1, Inductive, PTL

(* The Index that parseFileIndex hands out accounts for every byte of the  *)
(* file: headers, blocks, Indexes, footers and padding.                    *)
THEOREM ParserCoversFile == Spec => []FileCovered
BY Inductive, PTL DEF IInv, Answers

(* The callback of parseFileIndex is called no more than once, however the *)
(* reader answers.                                                         *)
THEOREM ParserAnswersOnce == Spec => []AnsweredOnce
<1>1. IInv => AnsweredOnce
  <2>1. Len(<<>>) <= 1
    OBVIOUS
  <2>2. ASSUME Len(delivered) = 1 PROVE Len(delivered) <= 1
    BY <2>2
  <2> QED
    BY <2>1, <2>2 DEF IInv, Answers, AnsweredOnce
<1> QED
  BY <1>1, Inductive, PTL

(* When the parser is collected, in whatever stage it was left, every      *)
(* lzma_index and the internal structure have been freed, each of them     *)
(* once (the error label, lzma_index_cat and the destructor).              *)
THEOREM ParserLeaksNothing == Spec => []NothingLeaks
<1>1. LeakInv => NothingLeaks
  BY DEF LeakInv, Ownership, NothingLeaks, Count
<1> QED
  BY <1>1, LeakInductive, PTL

(* The assertion of index-parser.cpp line 261 never fails: what the        *)
(* combined Index uses is within the limit, for every limit and every cost *)
(* of a Stream, a group of records and an Index.                           *)
THEOREM ParserKeepsMemlimit == Spec => []CombinedFitsMemlimit
BY MemInductive, PTL DEF MemInv, Budget

-----------------------------------------------------------------------------
(* The format, and what the parser finds of it *)

(* What is known of the files does not change. *)
LEMMA StillTold ==
  ASSUME FilesTold
  PROVE  FilesTold'
BY DEF FilesTold, Told, ToldBy, IsContents, ContentsOfLast, LastFooters, IsStream, PaddedUpTo,
       Plus, IndexAt, HeaderAt, NoStreams, Info, HeaderSize, CheckIdMax, Enough, lzma_index_memusage

(* The c of Told. *)
Known(f) == CHOOSE c \in [0 .. f.size -> SUBSET Info] : ToldBy(c, f)

LEMMA KnownFacts ==
  ASSUME FilesTold, NEW f \in Files
  PROVE  /\ Known(f) \in [0 .. f.size -> SUBSET Info] /\ ToldBy(Known(f), f)
         /\ Known(f)[0] = {NoStreams}
         /\ \A e \in 1 .. f.size :
              Known(f)[e] = UNION {ContentsOfLast(Known(f), f, foot, e) : foot \in LastFooters(f, e)}
<1>1. \E c \in [0 .. f.size -> SUBSET Info] : ToldBy(c, f)
  BY DEF FilesTold, Told
<1>2. Known(f) \in [0 .. f.size -> SUBSET Info] /\ ToldBy(Known(f), f)
  BY <1>1 DEF Known
<1>3. f.size \in Nat
  BY FilesAssumption DEF IsFile
<1>4. IsContents(Known(f), f)
  BY <1>2 DEF ToldBy
<1>5. 0 \in 0 .. f.size /\ \A e \in 1 .. f.size : e \in 0 .. f.size /\ e # 0
  BY <1>3
<1> QED
  BY <1>2, <1>4, <1>5 DEF IsContents

(* A Stream adds to what is in front of it, ... *)
LEMMA StreamAdds ==
  ASSUME FilesTold, NEW f \in Files, NEW e \in 1 .. f.size, NEW foot,
         IsStream(f, foot), PaddedUpTo(f, foot, e), NEW u \in Known(f)[HeaderAt(f, foot)]
  PROVE  Plus(u, f, foot, e) \in Known(f)[e]
<1>1. foot \in LastFooters(f, e)
  BY DEF LastFooters, IsStream
<1>2. Plus(u, f, foot, e) \in ContentsOfLast(Known(f), f, foot, e)
  BY DEF ContentsOfLast
<1> QED
  BY <1>1, <1>2, KnownFacts

(* ... and nothing else does. *)
LEMMA StreamInFront ==
  ASSUME FilesTold, NEW f \in Files, NEW e \in 1 .. f.size, Known(f)[e] # {}
  PROVE  \E foot : /\ IsStream(f, foot) /\ PaddedUpTo(f, foot, e)
                   /\ Known(f)[HeaderAt(f, foot)] # {}
<1>1. PICK t : t \in Known(f)[e]
  OBVIOUS
<1>2. Known(f)[e] = UNION {ContentsOfLast(Known(f), f, foot, e) : foot \in LastFooters(f, e)}
  BY KnownFacts
<1>3. PICK foot \in LastFooters(f, e) : t \in ContentsOfLast(Known(f), f, foot, e)
  BY <1>1, <1>2
<1>4. PICK u \in Known(f)[HeaderAt(f, foot)] : t = Plus(u, f, foot, e)
  BY <1>3 DEF ContentsOfLast
<1> QED
  BY <1>3, <1>4 DEF LastFooters

(* A Stream begins within the file, and well in front of its end. *)
LEMMA StreamFacts ==
  ASSUME NEW f \in Files, NEW foot, IsStream(f, foot)
  PROVE  /\ foot \in DOMAIN f.footers /\ foot \in Nat /\ f.footers[foot] \in Footer
         /\ IndexAt(f, foot) \in DOMAIN f.indexes /\ IndexAt(f, foot) \in Nat
         /\ f.indexes[IndexAt(f, foot)] \in IndexField
         /\ HeaderAt(f, foot) \in Nat /\ HeaderAt(f, foot) + 2 * HeaderSize <= foot + HeaderSize
         /\ HeaderAt(f, foot) + HeaderSize + f.indexes[IndexAt(f, foot)].total + f.footers[foot].backward = foot
<1>1. IsFile(f)
  BY FilesAssumption
<1>2. foot \in DOMAIN f.footers /\ foot \in Nat /\ f.footers[foot] \in Footer
  BY <1>1 DEF IsFile, IsStream
<1>3. /\ IndexAt(f, foot) \in DOMAIN f.indexes /\ IndexAt(f, foot) \in Nat
      /\ f.indexes[IndexAt(f, foot)] \in IndexField
  BY <1>1 DEF IsFile, IsStream
<1>4. HeaderAt(f, foot) \in Nat
  BY <1>1 DEF IsFile, IsStream
<1>5. f.footers[foot].backward \in Nat /\ f.indexes[IndexAt(f, foot)].total \in Nat
  BY <1>2, <1>3 DEF Footer, IndexField
<1>6. HeaderAt(f, foot) + HeaderSize + f.indexes[IndexAt(f, foot)].total + f.footers[foot].backward = foot
  <2>1. IndexAt(f, foot) = foot - f.footers[foot].backward
    BY DEF IndexAt
  <2>2. HeaderAt(f, foot) = IndexAt(f, foot) - f.indexes[IndexAt(f, foot)].total - HeaderSize
    BY DEF HeaderAt
  <2> QED
    BY <1>2, <1>3, <1>5, <2>1, <2>2 DEF HeaderSize
<1> QED
  BY <1>2, <1>3, <1>4, <1>5, <1>6 DEF HeaderSize

(* The footer of a padded Stream is found by going back over words of      *)
(* zeroes: it lies m words in front, and the words between are zero.       *)
LEMMA FooterIsBehindZeroes ==
  ASSUME NEW f \in Files, NEW e \in Nat, NEW foot \in DOMAIN f.footers, NEW p \in Nat,
         PaddedUpTo(f, foot, e), PaddedUpTo(f, p, e)
  PROVE  \E m \in Nat : /\ p = foot + 4 * m
                        /\ \A i \in 0 .. m - 1 : foot + HeaderSize + 4 * i \in f.zeros
<1>1. foot \in Nat /\ foot + 8 \notin f.zeros
  BY FilesAssumption DEF IsFile
<1>2. PICK k \in 0 .. e : /\ e = foot + HeaderSize + 4 * k
                          /\ \A i \in 0 .. k - 1 : foot + HeaderSize + 4 * i \in f.zeros
  BY DEF PaddedUpTo
<1>3. PICK n \in 0 .. e : /\ e = p + HeaderSize + 4 * n
                          /\ \A i \in 0 .. n - 1 : p + HeaderSize + 4 * i \in f.zeros
  BY DEF PaddedUpTo
<1>4. ~(n > k)
  <2> SUFFICES ASSUME n > k PROVE FALSE
    OBVIOUS
  <2>1. n - k - 1 \in 0 .. n - 1 /\ p + HeaderSize + 4 * (n - k - 1) = foot + 8
    BY <1>1, <1>2, <1>3 DEF HeaderSize
  <2> QED
    BY <1>1, <1>3, <2>1
<1>5. k - n \in Nat /\ p = foot + 4 * (k - n)
  <2>1. k \in Nat /\ n \in Nat /\ foot + 12 + 4 * k = p + 12 + 4 * n
    BY <1>2, <1>3 DEF HeaderSize
  <2> QED
    BY <1>1, <1>4, <2>1
<1>6. \A i \in 0 .. (k - n) - 1 : i \in 0 .. k - 1
  BY <1>2, <1>3
<1> QED
  BY <1>2, <1>5, <1>6

(* So there is one footer only. *)
LEMMA OneFooter ==
  ASSUME NEW f \in Files, NEW e \in Nat, NEW foot \in DOMAIN f.footers, NEW p \in DOMAIN f.footers,
         PaddedUpTo(f, foot, e), PaddedUpTo(f, p, e)
  PROVE  p = foot
<1>1. foot \in Nat /\ p \in Nat
  BY FilesAssumption DEF IsFile
<1>2. PICK m \in Nat : /\ p = foot + 4 * m
                       /\ \A i \in 0 .. m - 1 : foot + HeaderSize + 4 * i \in f.zeros
  BY <1>1, FooterIsBehindZeroes
<1>3. PICK n \in Nat : /\ foot = p + 4 * n
                       /\ \A i \in 0 .. n - 1 : p + HeaderSize + 4 * i \in f.zeros
  BY <1>1, FooterIsBehindZeroes
<1> QED
  BY <1>1, <1>2, <1>3

(* What PaddingWords counts when the footer lies m words in front. *)
LEMMA WordsSkipped ==
  ASSUME TypeOK, NEW foot \in DOMAIN file.footers, NEW m \in Nat, request.offset = foot + 4 * m,
         \A i \in 0 .. m - 1 : foot + HeaderSize + 4 * i \in file.zeros
  PROVE  /\ Zero(2) <=> m > 0
         /\ m > 0 => PaddingWords \in 1 .. 3 /\ PaddingWords <= m
<1>1. foot \in Nat /\ foot + 8 \notin file.zeros
  BY FilesAssumption DEF TypeOK, IsFile
<1>2. CASE m = 0
  BY <1>1, <1>2 DEF Zero
<1>3. ASSUME m > 0 PROVE Zero(2)
  <2>1. m - 1 \in 0 .. m - 1 /\ foot + HeaderSize + 4 * (m - 1) = request.offset + 4 * 2
    BY <1>1, <1>3 DEF HeaderSize
  <2> QED
    BY <2>1 DEF Zero
<1>4. CASE m = 1
  <2>1. ~Zero(1)
    BY <1>1, <1>4 DEF Zero
  <2> QED
    BY <1>3, <1>4, <2>1 DEF PaddingWords
<1>5. CASE m = 2
  <2>1. ~Zero(0)
    BY <1>1, <1>5 DEF Zero
  <2> QED
    BY <1>3, <1>5, <2>1 DEF PaddingWords
<1>6. CASE m > 2
  BY <1>3, <1>6 DEF PaddingWords
<1> QED
  BY <1>2, <1>4, <1>5, <1>6

-----------------------------------------------------------------------------
(* The parser reads the file as the format describes it *)

(* What is known of the file begins at Boundary; the footer that is looked *)
(* for, or that belongs to the Index that is read, lies at Foot.           *)
Boundary == file.size - combinedIndex.size
Foot == Boundary - padding - HeaderSize

FooterRead ==
  /\ Foot \in DOMAIN file.footers /\ file.footers[Foot] = footerFlags /\ footerFlags.version = 0
  /\ memused = IF combinedIndex = NoIndex THEN InternalSize ELSE memusedBy(combinedIndex)

IndexRead ==
  /\ IndexAt(file, Foot) \in DOMAIN file.indexes
  /\ file.indexes[IndexAt(file, Foot)].size = footerFlags.backward
  /\ pos = HeaderAt(file, Foot)
  /\ thisIndex.streams = 1 /\ thisIndex.blocks = file.indexes[IndexAt(file, Foot)].blocks

Found ==
  /\ PaddedUpTo(file, Foot, Boundary)
  /\ state # "READ_FOOTER" => FooterRead
  /\ state = "READ_INDEX" => request.count = IF indexSize < BufSize THEN indexSize ELSE BufSize
  /\ state = "READ_STREAM_HEADER" => IndexRead

(* u and what was read so far make up the file. *)
MakesUp(u) ==
  /\ file.info.streams = u.streams + combinedIndex.streams
  /\ file.info.blocks = u.blocks + combinedIndex.blocks
  /\ file.info.streamPadding = u.streamPadding + streamPadding
  /\ file.info.checks = u.checks \cup combinedIndex.checks

(* What is in front of the boundary decides what is in the file. *)
TrueSoFar ==
  /\ \A u \in Known(file)[Boundary] : file.wellFormed /\ MakesUp(u)
  /\ file.wellFormed => Known(file)[Boundary] # {}

FoundInv ==
  /\ IInv
  /\ phase = "new" => streamPadding = 0
  /\ Active => Found /\ TrueSoFar
  /\ AnswersTrue

LEMMA FootFacts ==
  ASSUME IInv, Active, Found
  PROVE  /\ file \in Files /\ file.size \in Nat /\ combinedIndex.size \in Nat /\ padding \in Nat
         /\ Foot \in Nat /\ Boundary \in Nat /\ Boundary \in 1 .. file.size
         /\ Boundary = Foot + HeaderSize + padding
         /\ state = "READ_FOOTER" => Foot = pos /\ request.offset = pos
         /\ state = "READ_INDEX" => Foot = decoder.start + footerFlags.backward
<1>1. /\ file \in Files /\ file.size \in Nat /\ combinedIndex.size \in Nat /\ padding \in Nat
      /\ pos \in Nat /\ decoder.start \in Nat /\ footerFlags.backward \in Nat
  BY FileFacts DEF IInv, TypeOK, Index, Footer
<1>2. Bookkeeping
  BY DEF IInv
<1>3. state = "READ_FOOTER" => Foot = pos /\ request.offset = pos
  BY <1>1, <1>2 DEF Bookkeeping, FooterStage, Foot, Boundary, HeaderSize
<1>4. state = "READ_INDEX" => Foot = decoder.start + footerFlags.backward
  BY <1>1, <1>2 DEF Bookkeeping, IndexStage, Foot, Boundary, HeaderSize
<1>5. Foot \in Nat
  BY <1>1, <1>3, FileFacts DEF Found, FooterRead, IInv
<1>6. Boundary = Foot + HeaderSize + padding
  BY <1>1 DEF Foot, Boundary, HeaderSize
<1>7. Boundary \in Nat /\ Boundary \in 1 .. file.size
  BY <1>1, <1>5, <1>6 DEF Boundary, HeaderSize
<1> QED
  BY <1>1, <1>3, <1>4, <1>5, <1>6, <1>7

(* No padding at all. *)
LEMMA NotPadded ==
  ASSUME NEW f, NEW p \in Nat
  PROVE  PaddedUpTo(f, p, p + HeaderSize)
<1>1. 0 \in 0 .. p + HeaderSize /\ p + HeaderSize = p + HeaderSize + 4 * 0
  BY DEF HeaderSize
<1>2. \A i \in 0 .. 0 - 1 : p + HeaderSize + 4 * i \in f.zeros
  OBVIOUS
<1> QED
  BY <1>1, <1>2 DEF PaddedUpTo

LEMMA CombinedCounts ==
  ASSUME TypeOK
  PROVE  /\ Combined.streams = thisIndex.streams + combinedIndex.streams
         /\ Combined.blocks = thisIndex.blocks + combinedIndex.blocks
         /\ Combined.checks = {footerFlags.check} \cup combinedIndex.checks
<1>1. thisIndex \in Index /\ combinedIndex \in Index
  BY DEF TypeOK
<1>2. CASE combinedIndex = NoIndex
  <2>1. /\ combinedIndex.streams = 0 /\ combinedIndex.blocks = 0 /\ combinedIndex.checks = {}
    BY <1>2 DEF NoIndex
  <2>2. /\ Combined.streams = thisIndex.streams /\ Combined.blocks = thisIndex.blocks
        /\ Combined.checks = {footerFlags.check}
    BY <1>1, <1>2 DEF Combined, Index
  <2> QED
    BY <1>1, <2>1, <2>2 DEF Index
<1>3. CASE combinedIndex # NoIndex
  BY <1>1, <1>3 DEF Combined, lzma_index_cat, Index
<1> QED
  BY <1>2, <1>3

LEMMA BeginsFind ==
  ASSUME FilesTold, FoundInv, ParseBegins
  PROVE  Found' /\ TrueSoFar'
<1>1. /\ phase = "new" /\ fileSize = file.size /\ combinedIndex = NoIndex /\ streamPadding = 0
      /\ file \in Files /\ file.size \in Nat /\ file.size >= 2 * HeaderSize
  BY FileFacts DEF FoundInv, IInv, Bookkeeping, TypeOK, ParseBegins, Parse
<1>2. /\ file' = file /\ combinedIndex' = NoIndex /\ streamPadding' = 0 /\ padding' = 0
      /\ state' = "READ_FOOTER"
  BY <1>1 DEF ParseBegins, Read, indexVars
<1>3. NoIndex.size = 0 /\ NoIndex.streams = 0 /\ NoIndex.blocks = 0 /\ NoIndex.checks = {}
  BY DEF NoIndex
<1>4. Boundary' = file.size /\ Foot' = file.size - HeaderSize
  BY <1>1, <1>2, <1>3 DEF Boundary, Foot, HeaderSize
<1>5. PaddedUpTo(file, file.size - HeaderSize, file.size)
  <2>1. file.size - HeaderSize \in Nat /\ (file.size - HeaderSize) + HeaderSize = file.size
    BY <1>1 DEF HeaderSize
  <2>2. PaddedUpTo(file, file.size - HeaderSize, (file.size - HeaderSize) + HeaderSize)
    BY <2>1, NotPadded
  <2> QED
    BY <2>1, <2>2
<1>6. Found'
  BY <1>2, <1>4, <1>5 DEF Found
<1>7. ToldBy(Known(file), file) /\ Known(file) \in [0 .. file.size -> SUBSET Info]
  BY <1>1, KnownFacts
<1>8. file.size > 0 /\ file.size \in 0 .. file.size
  BY <1>1 DEF HeaderSize
<1>9. \A u \in Known(file)[file.size] : file.wellFormed /\ file.info = u /\ u \in Info
  BY <1>7, <1>8 DEF ToldBy
<1>10. \A u \in Known(file)[file.size] : MakesUp(u)'
  <2> SUFFICES ASSUME NEW u \in Known(file)[file.size] PROVE MakesUp(u)'
    OBVIOUS
  <2>1. file'.info = u /\ u.streams \in Nat /\ u.blocks \in Nat /\ u.streamPadding \in Nat
    BY <1>2, <1>9 DEF Info
  <2> QED
    BY <1>2, <1>3, <2>1 DEF MakesUp
<1>11. file.wellFormed => Known(file)[file.size] # {}
  BY <1>7 DEF ToldBy
<1>12. TrueSoFar'
  BY <1>2, <1>4, <1>9, <1>10, <1>11 DEF TrueSoFar
<1> QED
  BY <1>6, <1>12

(* A step that stays between the same Streams. *)
LEMMA SameBoundary ==
  ASSUME FoundInv, Active, file' = file, combinedIndex' = combinedIndex, streamPadding' = streamPadding
  PROVE  TrueSoFar' /\ Boundary' = Boundary
<1>1. Boundary' = Boundary
  BY DEF Boundary
<1>2. \A u : MakesUp(u)' <=> MakesUp(u)
  BY DEF MakesUp
<1> QED
  BY <1>1, <1>2 DEF TrueSoFar, FoundInv

LEMMA SkipFinds ==
  ASSUME FoundInv, SkipPadding, ~(pos' < HeaderSize)
  PROVE  Found' /\ TrueSoFar'
<1>1. Active /\ state = "READ_FOOTER" /\ Zero(2) /\ IInv /\ Found
  BY DEF SkipPadding, Active, FoundInv
<1>2. /\ file \in Files /\ padding \in Nat /\ Foot \in Nat /\ Boundary \in Nat
      /\ Foot = pos /\ request.offset = pos /\ Boundary = Foot + HeaderSize + padding
  BY <1>1, FootFacts
<1>3. PaddingWords \in 1 .. 3
  BY DEF PaddingWords
<1>4. /\ padding' = padding + 4 * PaddingWords /\ pos' = pos - 4 * PaddingWords /\ file' = file
      /\ streamPadding' = streamPadding /\ combinedIndex' = combinedIndex /\ state' = "READ_FOOTER"
  BY DEF SkipPadding, SeekFooter, Read
<1>5. TrueSoFar' /\ Boundary' = Boundary
  BY <1>1, <1>4, SameBoundary
<1>6. Foot' = pos' /\ pos' \in Nat
  BY <1>2, <1>3, <1>4, <1>5 DEF Foot, HeaderSize
<1>7. PaddedUpTo(file, pos', Boundary)
  <2>1. PICK n \in 0 .. Boundary : /\ Boundary = pos + HeaderSize + 4 * n
                                   /\ \A i \in 0 .. n - 1 : pos + HeaderSize + 4 * i \in file.zeros
    BY <1>1, <1>2 DEF Found, PaddedUpTo
  <2> DEFINE w == PaddingWords
  <2>2. w \in 1 .. 3 /\ pos' = pos - 4 * w
    BY <1>3, <1>4
  <2>3. /\ pos + 8 \in file.zeros
        /\ w >= 2 => pos + 4 \in file.zeros
        /\ w >= 3 => pos \in file.zeros
    BY <1>1, <1>2 DEF Zero, PaddingWords
  <2> HIDE DEF w
  <2>4. n + w \in 0 .. Boundary /\ Boundary = pos' + HeaderSize + 4 * (n + w)
    BY <1>2, <1>6, <2>1, <2>2 DEF HeaderSize
  <2>5. ASSUME NEW i \in 0 .. (n + w) - 1 PROVE pos' + HeaderSize + 4 * i \in file.zeros
    <3>1. CASE i >= w
      <4>1. i - w \in 0 .. n - 1 /\ pos + HeaderSize + 4 * (i - w) = pos' + HeaderSize + 4 * i
        BY <1>2, <2>1, <2>2, <3>1 DEF HeaderSize
      <4> QED
        BY <2>1, <4>1
    <3>2. CASE i = w - 1
      BY <1>2, <2>2, <2>3, <3>2 DEF HeaderSize
    <3>3. CASE i = w - 2
      BY <1>2, <2>2, <2>3, <3>3 DEF HeaderSize
    <3>4. CASE i = w - 3
      BY <1>2, <2>2, <2>3, <3>4 DEF HeaderSize
    <3> QED
      BY <2>1, <2>2, <3>1, <3>2, <3>3, <3>4
  <2> QED
    BY <2>4, <2>5 DEF PaddedUpTo
<1>8. Found'
  BY <1>4, <1>5, <1>6, <1>7 DEF Found
<1> QED
  BY <1>5, <1>8

LEMMA FooterFinds ==
  ASSUME FoundInv, GoodFooter, phase' = "reading"
  PROVE  Found' /\ TrueSoFar'
<1>1. Active /\ state = "READ_FOOTER" /\ IInv /\ Found
  BY DEF GoodFooter, Active, FoundInv
<1>2. Foot = pos /\ PaddedUpTo(file, Foot, Boundary)
  BY <1>1, FootFacts DEF Found
<1>3. /\ file' = file /\ padding' = padding /\ streamPadding' = streamPadding
      /\ footerFlags' = file.footers[pos] /\ pos \in DOMAIN file.footers /\ file.footers[pos].version = 0
      /\ memused' = IF combinedIndex = NoIndex THEN InternalSize ELSE memusedBy(combinedIndex)
  BY DEF GoodFooter, FooterError
<1>4. /\ combinedIndex' = combinedIndex /\ state' = "READ_INDEX"
      /\ request'.count = IF indexSize' < BufSize THEN indexSize' ELSE BufSize
  <2>1. ~Fail("PROG_ERROR")
    BY DEF Fail
  <2> QED
    BY <2>1 DEF GoodFooter, Read
<1>5. TrueSoFar' /\ Boundary' = Boundary
  BY <1>1, <1>3, <1>4, SameBoundary
<1>6. Foot' = Foot /\ memusedBy(combinedIndex)' = memusedBy(combinedIndex)
  BY <1>3, <1>4, <1>5 DEF Foot, memusedBy
<1>7. FooterRead'
  BY <1>2, <1>3, <1>4, <1>6 DEF FooterRead
<1>8. Found'
  BY <1>2, <1>3, <1>4, <1>5, <1>6, <1>7 DEF Found
<1> QED
  BY <1>5, <1>8

LEMMA MoreIndexFinds ==
  ASSUME FoundInv, MoreIndex
  PROVE  Found' /\ TrueSoFar'
<1>1. Active /\ state = "READ_INDEX" /\ Found
  BY DEF MoreIndex, IndexArrived, Active, FoundInv
<1>2. /\ file' = file /\ padding' = padding /\ streamPadding' = streamPadding
      /\ footerFlags' = footerFlags /\ memused' = memused /\ combinedIndex' = combinedIndex
      /\ state' = "READ_INDEX"
      /\ request'.count = IF indexSize' < BufSize THEN indexSize' ELSE BufSize
  BY DEF MoreIndex, Read, infoVars
<1>3. TrueSoFar' /\ Boundary' = Boundary
  BY <1>1, <1>2, SameBoundary
<1>4. Foot' = Foot /\ memusedBy(combinedIndex)' = memusedBy(combinedIndex)
  BY <1>2, <1>3 DEF Foot, memusedBy
<1>5. FooterRead'
  BY <1>1, <1>2, <1>4 DEF FooterRead, Found
<1> QED
  BY <1>1, <1>2, <1>3, <1>4, <1>5 DEF Found

LEMMA IndexFinds ==
  ASSUME FoundInv, IndexDecoded, phase' = "reading"
  PROVE  Found' /\ TrueSoFar'
<1>1. Active /\ state = "READ_INDEX" /\ IInv /\ Found /\ IndexKnown
  BY DEF IndexDecoded, IndexArrived, Active, FoundInv
<1>2. ~Fail("DATA_ERROR")
  BY DEF Fail
<1> DEFINE after == pos + request.count
           front == after - footerFlags.backward - HeaderSize
           exact == indexSize' = 0 /\ Given = TheIndex.size
<1>3. /\ indexSize' = 0 /\ indexSize' = indexSize - request.count /\ Given = TheIndex.size
      /\ ~(front < TheIndex.total)
      /\ thisIndex'.streams = 1 /\ thisIndex'.blocks = TheIndex.blocks
      /\ pos' = front - TheIndex.total
      /\ state' = "READ_STREAM_HEADER" /\ combinedIndex' = combinedIndex
  <2>0. indexSize' = 0 /\ indexSize' = indexSize - request.count /\ Given = TheIndex.size
    BY <1>2, Zenon DEF IndexDecoded
  <2>1. ASSUME front < TheIndex.total PROVE FALSE
    <3>1. Fail("DATA_ERROR")
      BY <2>0, <2>1 DEF IndexDecoded
    <3> QED
      BY <1>2, <3>1
  <2>2. /\ thisIndex' = [streams |-> 1, blocks |-> TheIndex.blocks,
                         size |-> TheIndex.total + TheIndex.size + 2 * HeaderSize, checks |-> {}]
        /\ pos' = front - TheIndex.total
        /\ Read(HeaderSize, pos', "READ_STREAM_HEADER") /\ combinedIndex' = combinedIndex
    BY <2>0, <2>1 DEF IndexDecoded
  <2>3. thisIndex'.streams = 1 /\ thisIndex'.blocks = TheIndex.blocks
    BY <2>2
  <2> QED
    BY <2>0, <2>1, <2>2, <2>3 DEF Read
<1>4. /\ file' = file /\ padding' = padding /\ streamPadding' = streamPadding
      /\ footerFlags' = footerFlags /\ memused' = memused
  BY DEF IndexDecoded
<1>5. TrueSoFar' /\ Boundary' = Boundary
  BY <1>1, <1>3, <1>4, SameBoundary
<1>6. Foot' = Foot /\ memusedBy(combinedIndex)' = memusedBy(combinedIndex)
  BY <1>3, <1>4, <1>5 DEF Foot, memusedBy
<1>7. FooterRead'
  BY <1>1, <1>3, <1>4, <1>6 DEF FooterRead, Found
<1>8. IndexAt(file, Foot) = decoder.start
  <2>1. Foot = decoder.start + footerFlags.backward /\ file.footers[Foot] = footerFlags
    BY <1>1, FootFacts DEF Found, FooterRead
  <2>2. decoder.start \in Nat /\ footerFlags.backward \in Nat
    BY <1>1 DEF IInv, TypeOK, Footer
  <2> QED
    BY <2>1, <2>2 DEF IndexAt
<1>9. /\ pos \in Nat /\ request.count \in Nat /\ indexSize \in Nat /\ decoder.start \in Nat
      /\ footerFlags.backward \in Nat /\ TheIndex.total \in Nat
      /\ pos + indexSize = decoder.start + footerFlags.backward
  BY <1>1, FileFacts DEF IInv, TypeOK, Footer, IndexKnown, TheIndex, IndexField, Bookkeeping, IndexStage
<1>10. TheIndex.size = footerFlags.backward
  BY <1>3, <1>9 DEF Given
<1>11. pos' = decoder.start - TheIndex.total - HeaderSize
  BY <1>3, <1>9 DEF HeaderSize
<1>12. HeaderAt(file, Foot) = decoder.start - TheIndex.total - HeaderSize
  BY <1>8 DEF HeaderAt, TheIndex
<1>13. IndexRead'
  BY <1>1, <1>3, <1>4, <1>6, <1>8, <1>10, <1>11, <1>12 DEF IndexRead, TheIndex, IndexKnown
<1> QED
  BY <1>1, <1>3, <1>4, <1>5, <1>6, <1>7, <1>13 DEF Found

(* The Stream whose header was read, when header and footer match. *)
LEMMA StreamRead ==
  ASSUME FilesTold, FoundInv, HeaderArrived, HeaderMatches
  PROVE  /\ IsStream(file, Foot) /\ pos = HeaderAt(file, Foot)
         /\ \A u \in Known(file)[pos] :
              /\ file.wellFormed
              /\ file.info.streams = u.streams + 1 + combinedIndex.streams
              /\ file.info.blocks = u.blocks + thisIndex.blocks + combinedIndex.blocks
              /\ file.info.streamPadding = u.streamPadding + padding + streamPadding
              /\ file.info.checks = u.checks \cup {footerFlags.check} \cup combinedIndex.checks
<1>1. /\ Active /\ state = "READ_STREAM_HEADER" /\ IInv /\ Found /\ TrueSoFar
      /\ FooterRead /\ IndexRead
  BY DEF HeaderArrived, Active, FoundInv, Found
<1>2. IsStream(file, Foot) /\ pos = HeaderAt(file, Foot)
  BY <1>1 DEF IsStream, FooterRead, IndexRead, HeaderMatches
<1>3. ASSUME NEW u \in Known(file)[pos]
      PROVE  /\ file.wellFormed
             /\ file.info.streams = u.streams + 1 + combinedIndex.streams
             /\ file.info.blocks = u.blocks + thisIndex.blocks + combinedIndex.blocks
             /\ file.info.streamPadding = u.streamPadding + padding + streamPadding
             /\ file.info.checks = u.checks \cup {footerFlags.check} \cup combinedIndex.checks
  <2>1. /\ file \in Files /\ Boundary \in 1 .. file.size /\ PaddedUpTo(file, Foot, Boundary)
        /\ Foot \in Nat /\ padding \in Nat /\ Boundary = Foot + HeaderSize + padding
    BY <1>1, FootFacts DEF Found
  <2> DEFINE t == Plus(u, file, Foot, Boundary)
  <2>2. t \in Known(file)[Boundary]
    BY <1>2, <2>1, StreamAdds
  <2>3. file.wellFormed /\ MakesUp(t)
    BY <1>1, <2>2 DEF TrueSoFar
  <2>4. /\ t.streams = u.streams + 1
        /\ t.blocks = u.blocks + thisIndex.blocks
        /\ t.streamPadding = u.streamPadding + padding
        /\ t.checks = u.checks \cup {footerFlags.check}
    <3>1. Boundary - Foot - HeaderSize = padding
      BY <2>1 DEF HeaderSize
    <3>2. /\ t.streams = u.streams + 1
          /\ t.blocks = u.blocks + file.indexes[IndexAt(file, Foot)].blocks
          /\ t.streamPadding = u.streamPadding + (Boundary - Foot - HeaderSize)
          /\ t.checks = u.checks \cup {file.footers[Foot].check}
      BY DEF Plus
    <3> QED
      BY <1>1, <3>1, <3>2 DEF FooterRead, IndexRead
  <2> HIDE DEF t
  <2> QED
    BY <2>3, <2>4 DEF MakesUp
<1> QED
  BY <1>2, <1>3

(* In a good file the next footer lies where the format has it. *)
LEMMA TheStream ==
  ASSUME FilesTold, FoundInv, Active, file.wellFormed
  PROVE  \E foot : /\ IsStream(file, foot) /\ PaddedUpTo(file, foot, Boundary)
                   /\ Known(file)[HeaderAt(file, foot)] # {}
                   /\ state # "READ_FOOTER" => foot = Foot
<1>1. /\ IInv /\ Found /\ TrueSoFar
  BY DEF FoundInv
<1>2. file \in Files /\ Boundary \in 1 .. file.size /\ Boundary \in Nat
  BY <1>1, FootFacts
<1>3. Known(file)[Boundary] # {}
  BY <1>1 DEF TrueSoFar
<1>4. PICK foot : /\ IsStream(file, foot) /\ PaddedUpTo(file, foot, Boundary)
                  /\ Known(file)[HeaderAt(file, foot)] # {}
  BY <1>2, <1>3, StreamInFront
<1>5. foot \in DOMAIN file.footers
  BY <1>2, <1>4, StreamFacts
<1>6. ASSUME state # "READ_FOOTER" PROVE foot = Foot
  <2>1. Foot \in DOMAIN file.footers /\ PaddedUpTo(file, Foot, Boundary)
    BY <1>1, <1>6 DEF Found, FooterRead
  <2> QED
    BY <1>2, <1>4, <1>5, <2>1, OneFooter
<1> QED
  BY <1>4, <1>6

LEMMA HeaderFinds ==
  ASSUME FilesTold, FoundInv, NextStream
  PROVE  Found' /\ TrueSoFar'
<1>1. /\ Active /\ state = "READ_STREAM_HEADER" /\ IInv /\ Found /\ TrueSoFar
      /\ HeaderArrived /\ HeaderMatches
  BY DEF NextStream, HeaderArrived, Active, FoundInv
<1>2. /\ combinedIndex' = Combined /\ streamPadding' = streamPadding + padding /\ padding' = 0
      /\ pos' = pos - HeaderSize /\ pos >= 2 * HeaderSize /\ state' = "READ_FOOTER" /\ file' = file
  BY DEF NextStream, Read
<1>3. /\ thisIndex \in Index /\ combinedIndex \in Index /\ padding \in Nat /\ streamPadding \in Nat
      /\ pos \in Nat /\ file.size \in Nat /\ file \in Files
  BY <1>1, FileFacts DEF IInv, TypeOK
<1>4. Boundary' = pos
  <2>1. pos + thisIndex.size + padding + combinedIndex.size = file.size
    BY <1>1 DEF IInv, Bookkeeping, HeaderStage
  <2>2. Combined.size = thisIndex.size + padding + combinedIndex.size /\ Combined \in Index
    BY <1>1, CombinedFacts DEF IInv
  <2> QED
    BY <1>2, <1>3, <2>1, <2>2 DEF Boundary, Index
<1>5. Foot' = pos - HeaderSize /\ pos - HeaderSize \in Nat /\ (pos - HeaderSize) + HeaderSize = pos
  BY <1>2, <1>3, <1>4 DEF Foot, HeaderSize
<1>6. PaddedUpTo(file, pos - HeaderSize, pos)
  <2>1. PaddedUpTo(file, pos - HeaderSize, (pos - HeaderSize) + HeaderSize)
    BY <1>5, NotPadded
  <2> QED
    BY <1>5, <2>1
<1>7. Found'
  BY <1>2, <1>4, <1>5, <1>6 DEF Found
<1>8. /\ Combined.streams = 1 + combinedIndex.streams
      /\ Combined.blocks = thisIndex.blocks + combinedIndex.blocks
      /\ Combined.checks = {footerFlags.check} \cup combinedIndex.checks
  BY <1>1, CombinedCounts DEF IInv, Found, IndexRead
<1>9. ASSUME NEW u \in Known(file)[pos] PROVE file.wellFormed /\ MakesUp(u)'
  <2>1. /\ file.wellFormed
        /\ file.info.streams = u.streams + 1 + combinedIndex.streams
        /\ file.info.blocks = u.blocks + thisIndex.blocks + combinedIndex.blocks
        /\ file.info.streamPadding = u.streamPadding + padding + streamPadding
        /\ file.info.checks = u.checks \cup {footerFlags.check} \cup combinedIndex.checks
    BY <1>1, StreamRead
  <2>2. u.streams \in Nat /\ u.blocks \in Nat /\ u.streamPadding \in Nat
    <3>1. pos \in 0 .. file.size
      BY <1>1, <1>3, FootFacts, <1>4 DEF IInv, Bookkeeping, HeaderSize, TypeOK
    <3>2. u \in Info
      BY <1>3, <3>1, KnownFacts
    <3> QED
      BY <3>2 DEF Info
  <2>3. /\ combinedIndex.streams \in Nat /\ combinedIndex.blocks \in Nat /\ thisIndex.blocks \in Nat
    BY <1>3 DEF Index
  <2>4. /\ u.streams + 1 + combinedIndex.streams = u.streams + (1 + combinedIndex.streams)
        /\ u.blocks + thisIndex.blocks + combinedIndex.blocks
             = u.blocks + (thisIndex.blocks + combinedIndex.blocks)
        /\ u.streamPadding + padding + streamPadding = u.streamPadding + (streamPadding + padding)
        /\ u.checks \cup {footerFlags.check} \cup combinedIndex.checks
             = u.checks \cup ({footerFlags.check} \cup combinedIndex.checks)
    <3>2. \A a, b, c : a \cup b \cup c = a \cup (b \cup c)
      OBVIOUS
    <3>3. u.streams + 1 + combinedIndex.streams = u.streams + (1 + combinedIndex.streams)
      BY <2>2, <2>3
    <3>4. u.blocks + thisIndex.blocks + combinedIndex.blocks
            = u.blocks + (thisIndex.blocks + combinedIndex.blocks)
      BY <2>2, <2>3
    <3>5. u.streamPadding + padding + streamPadding = u.streamPadding + (streamPadding + padding)
      BY <1>3, <2>2
    <3> QED
      BY <3>2, <3>3, <3>4, <3>5
  <2> QED
    BY <1>2, <1>8, <2>1, <2>4 DEF MakesUp
<1>10. ASSUME file.wellFormed PROVE Known(file)[pos] # {}
  <2>1. PICK foot : /\ Known(file)[HeaderAt(file, foot)] # {} /\ foot = Foot
    BY <1>1, <1>10, TheStream
  <2> QED
    BY <1>1, <2>1, StreamRead
<1>11. TrueSoFar'
  BY <1>2, <1>4, <1>9, <1>10 DEF TrueSoFar
<1> QED
  BY <1>7, <1>11

LEMMA AllParsedTells ==
  ASSUME FilesTold, FoundInv, AllParsed
  PROVE  AnswersTrue'
<1>1. /\ Active /\ state = "READ_STREAM_HEADER" /\ IInv /\ Found /\ TrueSoFar
      /\ HeaderArrived /\ HeaderMatches /\ delivered = <<>> /\ pos = 0 /\ file \in Files
  BY DEF AllParsed, HeaderArrived, Active, FoundInv, IInv, Answers, TypeOK
<1>2. /\ streamPadding' = streamPadding + padding /\ file' = file
      /\ delivered' = <<Success(Combined, streamPadding')>>
  BY <1>1 DEF AllParsed, Tell
<1>3. /\ combinedIndex \in Index /\ thisIndex \in Index /\ padding \in Nat /\ streamPadding \in Nat
      /\ Combined \in Index
  BY <1>1, CombinedFacts DEF IInv, TypeOK
<1>4. /\ Combined.streams = 1 + combinedIndex.streams
      /\ Combined.blocks = thisIndex.blocks + combinedIndex.blocks
      /\ Combined.checks = {footerFlags.check} \cup combinedIndex.checks
  BY <1>1, CombinedCounts DEF IInv, Found, IndexRead
<1>5. NoStreams \in Known(file)[pos]
  BY <1>1, KnownFacts
<1>6. NoStreams.streams = 0 /\ NoStreams.blocks = 0 /\ NoStreams.streamPadding = 0 /\ NoStreams.checks = {}
  BY DEF NoStreams
<1>7. /\ file.wellFormed
      /\ file.info.streams = 0 + 1 + combinedIndex.streams
      /\ file.info.blocks = 0 + thisIndex.blocks + combinedIndex.blocks
      /\ file.info.streamPadding = 0 + padding + streamPadding
      /\ file.info.checks = {} \cup {footerFlags.check} \cup combinedIndex.checks
  BY <1>1, <1>5, <1>6, StreamRead
<1>8. /\ file.info.streams = Combined.streams /\ file.info.blocks = Combined.blocks
      /\ file.info.streamPadding = streamPadding' /\ file.info.checks = Combined.checks
  BY <1>2, <1>3, <1>4, <1>7 DEF Index
<1> DEFINE clean == cleanupIndexInfo(Combined)
<1>9. /\ clean.streams = Combined.streams /\ clean.blocks = Combined.blocks
      /\ clean.checks = Combined.checks \cap (0 .. CheckIdMax - 1)
  BY <1>3 DEF cleanupIndexInfo, Index
<1>10. clean.checks = Combined.checks \ {CheckIdMax}
  <2>1. Combined.checks \subseteq 0 .. CheckIdMax
    BY <1>3 DEF Index
  <2>2. \A k \in 0 .. CheckIdMax : k \in 0 .. CheckIdMax - 1 <=> k # CheckIdMax
    BY DEF CheckIdMax
  <2> QED
    BY <1>9, <2>1, <2>2
<1> HIDE DEF clean
<1>11. ASSUME NEW i \in Infos'
       PROVE  delivered'[i].info = clean /\ delivered'[i].padding = streamPadding'
  <2>1. delivered'[i] = Success(Combined, streamPadding')
    BY <1>2, <1>11 DEF Infos
  <2> QED
    BY <2>1 DEF Success, clean
<1> QED
  BY <1>2, <1>7, <1>8, <1>9, <1>10, <1>11 DEF AnswersTrue

LEMMA ReaderFinds ==
  ASSUME FoundInv, Reader, Active'
  PROVE  Found' /\ TrueSoFar'
<1>1. Active /\ Found
  BY DEF Reader, AnswerNow, RefuseNow, Postpone, AnswerLater, RefuseLater, Active, FoundInv
<1>2. ~Fail("TRUNCATED") /\ ~RefuseNow /\ ~RefuseLater
  BY DEF Fail, RefuseNow, RefuseLater, Active
<1>3. /\ UNCHANGED <<file, padding, streamPadding, footerFlags, memused, combinedIndex, thisIndex,
                     state, request, indexSize, pos>>
  BY <1>2 DEF Reader, AnswerNow, Postpone, AnswerLater, infoVars, streamVars, indexVars, readVars
<1>4. TrueSoFar' /\ Boundary' = Boundary
  BY <1>1, <1>3, SameBoundary
<1>5. Foot' = Foot /\ memusedBy(combinedIndex)' = memusedBy(combinedIndex)
  BY <1>3, <1>4 DEF Foot, memusedBy
<1>6. (FooterRead' <=> FooterRead) /\ (IndexRead' <=> IndexRead)
  BY <1>3, <1>5 DEF FooterRead, IndexRead
<1> QED
  BY <1>1, <1>3, <1>4, <1>5, <1>6 DEF Found

(* Every other way to answer is an error. *)
LEMMA OnlyFailures ==
  ASSUME IInv, [Next]_vars, ~AllParsed
  PROVE  /\ file' = file
         /\ delivered' = delivered \/ (delivered = <<>> /\ \E ret : Tell(Failure(ret)))
<1>1. phase = "new" \/ Active => delivered = <<>>
  BY DEF IInv, Answers
<1>2. \A ret : Fail(ret) => Tell(Failure(ret))
  BY DEF Fail
<1>3. CASE MemlimitTooLow \/ TooSmall \/ ParseBegins
  BY <1>1, <1>3 DEF MemlimitTooLow, TooSmall, ParseBegins, Parse
<1>4. CASE SkipPadding
  BY <1>1, <1>2, <1>4 DEF SkipPadding, SeekFooter, Active
<1>5. CASE BadFooter \/ GoodFooter
  BY <1>1, <1>2, <1>5 DEF BadFooter, GoodFooter, Active
<1>6. CASE MoreIndex \/ BadIndex \/ IndexOverLimit
  BY <1>1, <1>2, <1>6 DEF MoreIndex, BadIndex, IndexOverLimit, IndexArrived, Active
<1>7. CASE IndexDecoded
  BY <1>1, <1>2, <1>7 DEF IndexDecoded, IndexArrived, Active
<1>8. CASE BadHeader \/ NextStream \/ NoRoomForStream
  BY <1>1, <1>2, <1>8 DEF BadHeader, NextStream, NoRoomForStream, HeaderArrived, Active
<1>9. CASE AnswerNow
  BY <1>1, <1>2, <1>9 DEF AnswerNow, Active
<1>10. CASE RefuseNow \/ Postpone \/ AnswerLater \/ RefuseLater
  BY <1>1, <1>10 DEF RefuseNow, Postpone, AnswerLater, RefuseLater, Active
<1>11. CASE Collect \/ UNCHANGED vars
  BY <1>11 DEF Collect, vars
<1> QED
  BY <1>3, <1>4, <1>5, <1>6, <1>7, <1>8, <1>9, <1>10, <1>11 DEF Next, ParseStep, Reader, Rest

LEMMA FailuresAreTrue ==
  ASSUME FoundInv, [Next]_vars, ~AllParsed
  PROVE  AnswersTrue'
<1>1. AnswersTrue /\ IInv
  BY DEF FoundInv
<1>2. file' = file /\ (delivered' = delivered \/ (delivered = <<>> /\ \E ret : Tell(Failure(ret))))
  BY <1>1, OnlyFailures
<1>3. CASE delivered' = delivered
  BY <1>1, <1>2, <1>3 DEF AnswersTrue, Infos
<1>4. CASE delivered = <<>> /\ \E ret : Tell(Failure(ret))
  <2>1. PICK ret : delivered' = <<Failure(ret)>>
    BY <1>4 DEF Tell
  <2>2. Failure(ret).kind = "error"
    BY DEF Failure
  <2>3. Infos' = {}
    BY <2>1, <2>2 DEF Infos
  <2> QED
    BY <2>3 DEF AnswersTrue
<1> QED
  BY <1>2, <1>3, <1>4

LEMMA ParseStepFinds ==
  ASSUME FilesTold, FoundInv, ParseStep, Active'
  PROVE  Found' /\ TrueSoFar'
<1>1. \A ret : ~Fail(ret)
  BY DEF Fail, Active
<1>2. CASE MemlimitTooLow \/ TooSmall \/ NoRoomForStream \/ AllParsed
  BY <1>2 DEF MemlimitTooLow, TooSmall, NoRoomForStream, AllParsed, Active
<1>3. CASE BadFooter \/ BadIndex \/ IndexOverLimit \/ BadHeader
  BY <1>1, <1>3 DEF BadFooter, BadIndex, IndexOverLimit, BadHeader
<1>4. CASE ParseBegins
  BY <1>4, BeginsFind
<1>5. CASE SkipPadding
  <2>1. ~(pos' < HeaderSize)
    BY <1>1, <1>5 DEF SkipPadding, SeekFooter
  <2> QED
    BY <1>5, <2>1, SkipFinds
<1>6. CASE GoodFooter
  <2>1. phase' = "reading"
    BY <1>1, <1>6 DEF GoodFooter, Read
  <2> QED
    BY <1>6, <2>1, FooterFinds
<1>7. CASE MoreIndex
  BY <1>7, MoreIndexFinds
<1>8. CASE IndexDecoded
  <2>1. phase' = "reading"
    BY <1>1, <1>8 DEF IndexDecoded, Read
  <2> QED
    BY <1>8, <2>1, IndexFinds
<1>9. CASE NextStream
  BY <1>9, HeaderFinds
<1> QED
  BY <1>2, <1>3, <1>4, <1>5, <1>6, <1>7, <1>8, <1>9 DEF ParseStep

LEMMA NextFound == FilesTold /\ FoundInv /\ [Next]_vars => FoundInv'
<1> SUFFICES ASSUME FilesTold, FoundInv, [Next]_vars PROVE FoundInv'
  OBVIOUS
<1>1. IInv'
  BY NextIInv DEF FoundInv
<1>2. AnswersTrue'
  BY AllParsedTells, FailuresAreTrue
<1>3. CASE ParseStep
  <2>1. phase' # "new"
    BY <1>3 DEF ParseStep, MemlimitTooLow, TooSmall, ParseBegins, SkipPadding, SeekFooter, BadFooter,
       GoodFooter, MoreIndex, BadIndex, IndexOverLimit, IndexDecoded, BadHeader, NextStream,
       NoRoomForStream, AllParsed, Read, Fail
  <2> QED
    BY <1>1, <1>2, <1>3, <2>1, ParseStepFinds DEF FoundInv
<1>4. CASE Reader
  <2>1. phase' # "new"
    BY <1>4 DEF Reader, AnswerNow, RefuseNow, Postpone, AnswerLater, RefuseLater, Fail
  <2> QED
    BY <1>1, <1>2, <1>4, <2>1, ReaderFinds DEF FoundInv
<1>5. CASE Collect
  BY <1>1, <1>2, <1>5 DEF FoundInv, Collect, Active
<1>6. CASE UNCHANGED vars
  <2>1. UNCHANGED <<phase, streamPadding, file, padding, footerFlags, memused, combinedIndex,
                    thisIndex, state, request, indexSize, pos>>
    BY <1>6 DEF vars, infoVars, streamVars, indexVars, readVars
  <2>2. Boundary' = Boundary /\ Foot' = Foot /\ memusedBy(combinedIndex)' = memusedBy(combinedIndex)
    BY <2>1 DEF Boundary, Foot, memusedBy
  <2>3. (FooterRead' <=> FooterRead) /\ (IndexRead' <=> IndexRead)
    BY <2>1, <2>2 DEF FooterRead, IndexRead
  <2>4. Found' <=> Found
    BY <2>1, <2>2, <2>3 DEF Found
  <2>5. ASSUME Active PROVE TrueSoFar'
    BY <2>1, <2>5, SameBoundary
  <2> QED
    BY <1>1, <1>2, <2>1, <2>4, <2>5 DEF FoundInv, Active
<1> QED
  BY <1>3, <1>4, <1>5, <1>6 DEF Next, Rest

LEMMA InitFound == Init => FoundInv
<1> SUFFICES ASSUME Init PROVE FoundInv
  OBVIOUS
<1>1. delivered = <<>> /\ phase = "new" /\ streamPadding = 0
  BY DEF Init
<1>2. AnswersTrue
  BY <1>1 DEF AnswersTrue, Infos
<1> QED
  BY <1>1, <1>2, InitIInv DEF FoundInv, Active

(* What parseFileIndex reports is what the file contains: when the flags   *)
(* wellFormed and info of each file are true of its bytes, read from the   *)
(* front as the format describes it, then the coroutine, which reads it    *)
(* backwards and piece by piece (index-parser.cpp 100-374), reports an     *)
(* Index for well-formed files only, and with their numbers of Streams and *)
(* blocks, their padding and their checks.                                 *)
THEOREM ParserTellsTheTruth == FilesTold /\ Spec => []AnswersTrue
<1>1. FilesTold /\ [Next]_vars => FilesTold'
  BY StillTold
<1>2. FoundInv => AnswersTrue
  BY DEF FoundInv
<1> QED
  BY InitFound, NextFound, <1>1, <1>2, PTL DEF Spec

-----------------------------------------------------------------------------
(* Nothing of a good file is refused *)

(* More Streams and blocks never need less memory. *)
LEMMA MemusageMonotone ==
  ASSUME NEW s \in Nat, NEW t \in Nat, NEW m \in Nat, NEW n \in Nat, s <= t, m <= n
  PROVE  lzma_index_memusage(s, m) <= lzma_index_memusage(t, n)
<1>1. IndexBase \in Nat /\ StreamMem \in Nat /\ GroupMem \in Nat /\ GroupSize \in Nat \ {0}
  BY SizesAssumption
<1> DEFINE g == GroupSize  a == Groups(m)  b == Groups(n)
<1>2. a \in Nat /\ b \in Nat
  BY GroupsAdd
<1>3. a * g <= m + g - 1 /\ n + g - 1 < b * g + g
  <2>1. m + g - 1 \in Nat /\ n + g - 1 \in Nat
    BY <1>1
  <2> QED
    BY <1>1, <2>1, DivFacts DEF Groups
<1>4. /\ lzma_index_memusage(s, m) = IndexBase + s * StreamMem + a * GroupMem
      /\ lzma_index_memusage(t, n) = IndexBase + t * StreamMem + b * GroupMem
  BY DEF lzma_index_memusage, Groups
<1> HIDE DEF a, b, g
<1>5. g \in Nat \ {0} /\ a * g \in Nat /\ b * g \in Nat /\ (b + 1) * g = b * g + g
  BY <1>1, <1>2 DEF g
<1>6. a * g < (b + 1) * g
  BY <1>3, <1>5
<1>7. a < b + 1
  BY <1>2, <1>5, <1>6, MultLess
<1>8. a * GroupMem <= b * GroupMem /\ s * StreamMem <= t * StreamMem
  BY <1>1, <1>2, <1>7, MultMono
<1>9. /\ a * GroupMem \in Nat /\ b * GroupMem \in Nat
      /\ s * StreamMem \in Nat /\ t * StreamMem \in Nat
  BY <1>1, <1>2
<1> QED
  BY <1>1, <1>4, <1>8, <1>9

(* No sequence of Streams is shorter than a header and a footer. *)
LEMMA NoShortStreams ==
  ASSUME FilesTold, NEW f \in Files, NEW e \in 1 .. f.size, Known(f)[e] # {}
  PROVE  e > 2 * HeaderSize
<1>1. PICK foot : IsStream(f, foot) /\ PaddedUpTo(f, foot, e)
  BY StreamInFront
<1>2. PICK words \in 0 .. e : e = foot + HeaderSize + 4 * words
  BY <1>1 DEF PaddedUpTo
<1>3. /\ foot \in Nat /\ HeaderAt(f, foot) \in Nat
      /\ f.footers[foot] \in Footer /\ f.indexes[IndexAt(f, foot)] \in IndexField
      /\ HeaderAt(f, foot) + HeaderSize + f.indexes[IndexAt(f, foot)].total + f.footers[foot].backward = foot
  BY <1>1, StreamFacts
<1>4. f.footers[foot].backward \in Nat \ {0} /\ f.indexes[IndexAt(f, foot)].total \in Nat
  BY <1>3 DEF Footer, IndexField
<1>5. f.size \in Nat /\ words \in Nat /\ e \in Nat
  BY FilesAssumption, <1>2 DEF IsFile
<1> QED
  BY <1>2, <1>3, <1>4, <1>5 DEF HeaderSize

LEMMA GoodFooterFound ==
  ASSUME FilesTold, FoundInv, file.wellFormed, phase = "parsing", state = "READ_FOOTER"
  PROVE  /\ Zero(2) => ~(pos - 4 * PaddingWords < HeaderSize)
         /\ ~Zero(2) => FooterError(pos) = "OK"
<1>1. Active /\ IInv /\ Found
  BY DEF Active, FoundInv
<1>2. /\ file \in Files /\ Boundary \in Nat /\ Foot = pos /\ request.offset = pos /\ pos \in Nat
      /\ PaddedUpTo(file, pos, Boundary)
  BY <1>1, FootFacts DEF Found
<1>3. PICK foot : IsStream(file, foot) /\ PaddedUpTo(file, foot, Boundary)
  BY <1>1, TheStream
<1>4. /\ foot \in DOMAIN file.footers /\ foot \in Nat /\ HeaderAt(file, foot) \in Nat
      /\ file.footers[foot] \in Footer /\ file.indexes[IndexAt(file, foot)] \in IndexField
      /\ HeaderAt(file, foot) + HeaderSize + file.indexes[IndexAt(file, foot)].total
           + file.footers[foot].backward = foot
  BY <1>2, <1>3, StreamFacts
<1>5. file.footers[foot].backward \in Nat /\ file.indexes[IndexAt(file, foot)].total \in Nat
  BY <1>4 DEF Footer, IndexField
<1>6. PICK m \in Nat : /\ pos = foot + 4 * m
                       /\ \A i \in 0 .. m - 1 : foot + HeaderSize + 4 * i \in file.zeros
  <2> DEFINE Zeroes(f, ft, p) ==
               \E m \in Nat : /\ p = ft + 4 * m
                             /\ \A i \in 0 .. m - 1 : ft + HeaderSize + 4 * i \in f.zeros
  <2>1. \A f \in Files, e \in Nat, p \in Nat : \A ft \in DOMAIN f.footers :
          PaddedUpTo(f, ft, e) /\ PaddedUpTo(f, p, e) => Zeroes(f, ft, p)
    BY FooterIsBehindZeroes
  <2> HIDE DEF Zeroes
  <2>2. Zeroes(file, foot, pos)
    BY <1>2, <1>3, <1>4, <2>1
  <2> QED
    BY <2>2 DEF Zeroes
<1>7. /\ Zero(2) <=> m > 0
      /\ m > 0 => PaddingWords \in 1 .. 3 /\ PaddingWords <= m
  <2>1. TypeOK /\ request.offset = foot + 4 * m
    BY <1>1, <1>2, <1>6 DEF IInv
  <2> QED
    BY <1>4, <1>6, <2>1, WordsSkipped
<1>8. foot >= HeaderSize + file.footers[foot].backward
  BY <1>4, <1>5 DEF HeaderSize
<1>9. ASSUME Zero(2) PROVE ~(pos - 4 * PaddingWords < HeaderSize)
  BY <1>4, <1>5, <1>6, <1>7, <1>8, <1>9 DEF HeaderSize
<1>10. ASSUME ~Zero(2) PROVE FooterError(pos) = "OK"
  <2>1. pos = foot
    BY <1>4, <1>6, <1>7, <1>10
  <2>2. file.footers[pos].version = 0 /\ pos \in DOMAIN file.footers
    BY <1>3, <2>1 DEF IsStream
  <2>3. ~(pos < file.footers[pos].backward + HeaderSize)
    BY <1>4, <1>5, <1>8, <2>1 DEF HeaderSize
  <2> QED
    BY <2>2, <2>3 DEF FooterError
<1> QED
  BY <1>9, <1>10

LEMMA GoodIndexFound ==
  ASSUME FilesTold, FoundInv, file.wellFormed, IndexArrived
  PROVE  /\ IndexKnown /\ decoder.start = IndexAt(file, Foot)
         /\ ~(Given < TheIndex.size /\ request.count = 0)
         /\ Given >= TheIndex.size => indexSize - request.count = 0 /\ Given = TheIndex.size
         /\ Given >= TheIndex.size => ~(pos + request.count - footerFlags.backward - HeaderSize < TheIndex.total)
<1>1. Active /\ state = "READ_INDEX" /\ IInv /\ Found /\ FooterRead
  BY DEF IndexArrived, Active, FoundInv, Found
<1>2. PICK foot : IsStream(file, foot) /\ foot = Foot
  BY <1>1, TheStream
<1>3. file \in Files /\ Foot = decoder.start + footerFlags.backward
  BY <1>1, FootFacts
<1>4. file.footers[Foot] = footerFlags
  BY <1>1 DEF FooterRead
<1>5. /\ decoder.start \in Nat /\ footerFlags.backward \in Nat /\ pos \in Nat /\ indexSize \in Nat
      /\ request.count \in Nat
  BY <1>1 DEF IInv, TypeOK, Footer
<1>6. IndexAt(file, Foot) = decoder.start
  BY <1>3, <1>4, <1>5 DEF IndexAt
<1>7. IndexKnown /\ TheIndex.size = footerFlags.backward
  BY <1>2, <1>4, <1>6 DEF IsStream, IndexKnown, TheIndex
<1>8. /\ pos + indexSize = decoder.start + footerFlags.backward
      /\ request.count = IF indexSize < BufSize THEN indexSize ELSE BufSize
      /\ request.count <= indexSize
  BY <1>1 DEF IInv, Bookkeeping, IndexStage, Found
<1>9. BufSize \in Nat /\ BufSize >= HeaderSize
  BY SizesAssumption
<1>10. ~(Given < TheIndex.size /\ request.count = 0)
  BY <1>5, <1>7, <1>8, <1>9 DEF Given, HeaderSize
<1>11. ASSUME Given >= TheIndex.size
       PROVE  /\ indexSize - request.count = 0 /\ Given = TheIndex.size
              /\ ~(pos + request.count - footerFlags.backward - HeaderSize < TheIndex.total)
  <2>1. indexSize = request.count /\ Given = TheIndex.size
    BY <1>5, <1>7, <1>8, <1>11 DEF Given
  <2>2. HeaderAt(file, Foot) = decoder.start - TheIndex.total - HeaderSize
    BY <1>6 DEF HeaderAt, TheIndex
  <2>3. HeaderAt(file, Foot) \in Nat /\ TheIndex.total \in Nat
    BY <1>2, <1>3, <1>6, StreamFacts DEF TheIndex, IndexField
  <2>4. indexSize - request.count = 0
    BY <1>5, <2>1
  <2>5. pos + request.count - footerFlags.backward - HeaderSize = decoder.start - HeaderSize
    BY <1>5, <1>8, <2>1 DEF HeaderSize
  <2>6. ~(decoder.start - HeaderSize < TheIndex.total)
    BY <1>5, <2>2, <2>3 DEF HeaderSize
  <2> QED
    BY <2>1, <2>4, <2>5, <2>6
<1> QED
  BY <1>6, <1>7, <1>10, <1>11

LEMMA GoodHeaderFound ==
  ASSUME FilesTold, FoundInv, file.wellFormed, HeaderArrived
  PROVE  HeaderMatches /\ ~(pos \in 1 .. 2 * HeaderSize - 1)
<1>1. Active /\ state = "READ_STREAM_HEADER" /\ IInv /\ Found /\ FooterRead /\ IndexRead
  BY DEF HeaderArrived, Active, FoundInv, Found
<1>2. PICK foot : IsStream(file, foot) /\ foot = Foot /\ Known(file)[HeaderAt(file, foot)] # {}
  BY <1>1, TheStream
<1>3. HeaderMatches
  BY <1>1, <1>2 DEF IsStream, HeaderMatches, FooterRead, IndexRead
<1>4. ASSUME pos \in 1 .. 2 * HeaderSize - 1 PROVE FALSE
  <2>1. Known(file)[pos] # {}
    BY <1>1, <1>2 DEF IndexRead
  <2>2. file \in Files /\ pos \in 1 .. file.size
    <3>1. file \in Files /\ file.size \in Nat /\ pos \in Nat /\ pos + HeaderSize <= file.size
      BY <1>1, FootFacts DEF IInv, TypeOK, Bookkeeping, HeaderStage
    <3> QED
      BY <1>4, <3>1 DEF HeaderSize
  <2>3. pos > 2 * HeaderSize
    BY <2>1, <2>2, NoShortStreams
  <2> QED
    BY <1>4, <2>2, <2>3 DEF HeaderSize
<1> QED
  BY <1>3, <1>4

(* What a good file has in front of what is known, and the Stream between. *)
LEMMA WhatIsLeft ==
  ASSUME FilesTold, FoundInv, Active, file.wellFormed
  PROVE  \E foot : \E v \in Known(file)[HeaderAt(file, foot)] :
           /\ foot \in LastFooters(file, Boundary) /\ Boundary \in 0 .. file.size
           /\ state # "READ_FOOTER" => foot = Foot
           /\ v.streams \in Nat /\ v.blocks \in Nat
           /\ file.indexes[IndexAt(file, foot)].blocks \in Nat
           /\ file.info.streams = v.streams + 1 + combinedIndex.streams
           /\ file.info.blocks = v.blocks + file.indexes[IndexAt(file, foot)].blocks + combinedIndex.blocks
<1>1. IInv /\ Found /\ TrueSoFar /\ file \in Files /\ file.size \in Nat
  BY FileFacts DEF FoundInv, IInv, TypeOK
<1>2. PICK foot : /\ IsStream(file, foot) /\ PaddedUpTo(file, foot, Boundary)
                  /\ Known(file)[HeaderAt(file, foot)] # {}
                  /\ state # "READ_FOOTER" => foot = Foot
  BY TheStream
<1>3. PICK v : v \in Known(file)[HeaderAt(file, foot)]
  BY <1>2
<1>4. Boundary \in 1 .. file.size /\ Boundary \in 0 .. file.size
  BY <1>1, FootFacts
<1>5. MakesUp(Plus(v, file, foot, Boundary))
  BY <1>1, <1>2, <1>3, <1>4, StreamAdds DEF TrueSoFar
<1>6. /\ file.info.streams = v.streams + 1 + combinedIndex.streams
      /\ file.info.blocks = v.blocks + file.indexes[IndexAt(file, foot)].blocks + combinedIndex.blocks
  BY <1>5 DEF MakesUp, Plus
<1>7. v.streams \in Nat /\ v.blocks \in Nat
  <2>1. /\ HeaderAt(file, foot) \in Nat /\ foot \in Nat
        /\ HeaderAt(file, foot) + 2 * HeaderSize <= foot + HeaderSize
    BY <1>1, <1>2, StreamFacts
  <2>2. PICK words \in 0 .. Boundary : Boundary = foot + HeaderSize + 4 * words
    BY <1>2 DEF PaddedUpTo
  <2>3. Boundary <= file.size /\ words \in Nat
    BY <1>1, <1>4, <2>2
  <2>4. HeaderAt(file, foot) \in 0 .. file.size
    BY <1>1, <2>1, <2>2, <2>3 DEF HeaderSize
  <2>5. v \in Info
    BY <1>1, <1>3, <2>4, KnownFacts
  <2> QED
    BY <2>5 DEF Info
<1>8. file.indexes[IndexAt(file, foot)].blocks \in Nat
  BY <1>1, <1>2, StreamFacts DEF IndexField
<1>9. foot \in LastFooters(file, Boundary)
  BY <1>1, <1>2, StreamFacts DEF LastFooters
<1> QED
  BY <1>2, <1>3, <1>4, <1>6, <1>7, <1>8, <1>9

(* The memory of a good file stays below what FilesFit bounds. *)
LEMMA GoodMemory ==
  ASSUME FilesTold, FilesFit, FoundInv, file.wellFormed, Active
  PROVE  /\ memusedBy(combinedIndex) \in Nat
         /\ InternalSize + memusedBy(combinedIndex) < SizeMax
         /\ state = "READ_INDEX" /\ decoder.start = IndexAt(file, Foot) =>
              InternalSize + memusedBy(combinedIndex)
                + lzma_index_memusage(1, TheIndex.blocks) < SizeMax
              /\ lzma_index_memusage(1, TheIndex.blocks) \in Nat
<1>1. file \in Files /\ combinedIndex \in Index
  BY DEF FoundInv, IInv, TypeOK
<1>2. PICK foot : \E v \in Known(file)[HeaderAt(file, foot)] :
        /\ state # "READ_FOOTER" => foot = Foot
        /\ v.streams \in Nat /\ v.blocks \in Nat
        /\ file.indexes[IndexAt(file, foot)].blocks \in Nat
        /\ file.info.streams = v.streams + 1 + combinedIndex.streams
        /\ file.info.blocks = v.blocks + file.indexes[IndexAt(file, foot)].blocks + combinedIndex.blocks
  BY WhatIsLeft
<1> DEFINE blocks == file.indexes[IndexAt(file, foot)].blocks
<1>3. PICK v : /\ v.streams \in Nat /\ v.blocks \in Nat
               /\ file.info.streams = v.streams + 1 + combinedIndex.streams
               /\ file.info.blocks = v.blocks + blocks + combinedIndex.blocks
  BY <1>2
<1>4. blocks \in Nat /\ combinedIndex.streams \in Nat /\ combinedIndex.blocks \in Nat
  BY <1>1, <1>2 DEF Index
<1> HIDE DEF blocks
<1> DEFINE used == memusedBy(combinedIndex)
           all == lzma_index_memusage(file.info.streams, file.info.blocks)
           one == lzma_index_memusage(1, file.info.blocks)
           this == lzma_index_memusage(1, blocks)
<1>5. file.info.streams \in Nat /\ file.info.blocks \in Nat
  BY <1>3, <1>4
<1>6. used \in Nat /\ all \in Nat /\ one \in Nat /\ this \in Nat
  BY <1>4, <1>5, MemusageNat DEF memusedBy
<1>7. used <= all
  <2>1. combinedIndex.streams <= file.info.streams /\ combinedIndex.blocks <= file.info.blocks
    BY <1>3, <1>4
  <2> QED
    BY <1>4, <1>5, <2>1, MemusageMonotone DEF memusedBy
<1>8. this <= one
  <2>1. blocks <= file.info.blocks
    BY <1>3, <1>4
  <2> QED
    BY <1>4, <1>5, <2>1, MemusageMonotone
<1>9. InternalSize + all + one < SizeMax /\ InternalSize \in Nat /\ SizeMax \in Nat
  BY <1>1, FilesAssumption, SizesAssumption DEF FilesFit
<1>10. ASSUME state = "READ_INDEX", decoder.start = IndexAt(file, Foot)
       PROVE  TheIndex.blocks = blocks
  BY <1>2, <1>10 DEF TheIndex, blocks
<1> HIDE DEF used, all, one, this
<1>11. used \in Nat /\ InternalSize + used < SizeMax /\ InternalSize + used + this < SizeMax
  BY <1>6, <1>7, <1>8, <1>9
<1> QED
  BY <1>6, <1>10, <1>11 DEF used, this

(* What a good file may be answered with. *)
Excused(ret, limit) ==
  ret \in {"STREAM_END", "IO", "TRUNCATED"}
            \cup (IF limit # SizeMax THEN {"MEMLIMIT_ERROR", "PROG_ERROR"} ELSE {})

LEMMA ExcusedAnswer ==
  ASSUME NEW result, delivered' = <<result>>, file'.wellFormed => Excused(result.ret, memlimit')
  PROVE  GoodFilesParsed'
<1>1. \A i \in DOMAIN delivered' : delivered'[i] = result
  OBVIOUS
<1> QED
  BY <1>1 DEF GoodFilesParsed, Excused

LEMMA SameAnswers ==
  ASSUME GoodFilesParsed, delivered' = delivered, file' = file, memlimit' = memlimit \/ delivered = <<>>
  PROVE  GoodFilesParsed'
<1>1. CASE memlimit' = memlimit
  BY <1>1 DEF GoodFilesParsed
<1>2. CASE delivered = <<>>
  <2>1. DOMAIN delivered' = {}
    BY <1>2
  <2> QED
    BY <2>1 DEF GoodFilesParsed
<1> QED
  BY <1>1, <1>2

LEMMA FailTells ==
  ASSUME delivered = <<>>, NEW ret, Fail(ret)
  PROVE  delivered' = <<Failure(ret)>> /\ Failure(ret).ret = ret
<1>1. Append(<<>>, Failure(ret)) = <<Failure(ret)>>
  OBVIOUS
<1> QED
  BY <1>1 DEF Fail, Tell, Failure

LEMMA BeginsExcused ==
  ASSUME FilesTold, FoundInv, GoodFilesParsed, MemlimitTooLow \/ TooSmall \/ ParseBegins
  PROVE  GoodFilesParsed'
<1>1. /\ phase = "new" /\ delivered = <<>> /\ file' = file /\ file \in Files
      /\ fileSize = file.size /\ file.size \in Nat
  BY FileFacts DEF MemlimitTooLow, TooSmall, ParseBegins, Parse, FoundInv, IInv, Answers, Bookkeeping, TypeOK
<1>2. \A ret : Tell(Failure(ret)) => delivered' = <<Failure(ret)>> /\ Failure(ret).ret = ret
  BY <1>1 DEF Tell, Failure
<1>3. CASE MemlimitTooLow
  <2>1. delivered' = <<Failure("MEMLIMIT_ERROR")>> /\ Failure("MEMLIMIT_ERROR").ret = "MEMLIMIT_ERROR"
    BY <1>2, <1>3 DEF MemlimitTooLow
  <2>2. memlimit' # SizeMax
    BY <1>3, SizesAssumption, FilesAssumption DEF MemlimitTooLow
  <2>3. Excused("MEMLIMIT_ERROR", memlimit')
    BY <2>2 DEF Excused
  <2> QED
    BY <2>1, <2>3, ExcusedAnswer
<1>4. CASE TooSmall
  <2>1. ~file.wellFormed
    <3> SUFFICES ASSUME file.wellFormed PROVE FALSE
      OBVIOUS
    <3>1. file.size > 0 /\ Known(file)[file.size] # {}
      BY <1>1, KnownFacts DEF ToldBy
    <3>2. file.size \in 1 .. file.size
      BY <1>1, <3>1
    <3>3. file.size > 2 * HeaderSize
      BY <1>1, <3>1, <3>2, NoShortStreams
    <3> QED
      BY <1>1, <1>4, <3>3 DEF TooSmall, HeaderSize
  <2> QED
    BY <1>1, <2>1 DEF GoodFilesParsed
<1>5. CASE ParseBegins
  BY <1>1, <1>5, SameAnswers DEF ParseBegins
<1> QED
  BY <1>3, <1>4, <1>5

LEMMA FooterExcused ==
  ASSUME FilesTold, FilesFit, FoundInv, GoodFilesParsed, SkipPadding \/ BadFooter \/ GoodFooter
  PROVE  GoodFilesParsed'
<1>1. /\ Active /\ phase = "parsing" /\ state = "READ_FOOTER" /\ IInv
      /\ delivered = <<>> /\ file' = file /\ memlimit' = memlimit /\ memlimit \in Nat
  BY DEF SkipPadding, BadFooter, GoodFooter, Active, FoundInv, IInv, Answers, TypeOK
<1>2. CASE ~file.wellFormed
  BY <1>1, <1>2 DEF GoodFilesParsed
<1>3. CASE file.wellFormed /\ SkipPadding
  <2>1. ~(pos' < HeaderSize)
    <3>1. ~(pos - 4 * PaddingWords < HeaderSize)
      BY <1>1, <1>3, GoodFooterFound DEF SkipPadding
    <3> QED
      BY <1>3, <3>1 DEF SkipPadding, SeekFooter
  <2>2. delivered' = delivered
    BY <1>3, <2>1 DEF SkipPadding, SeekFooter
  <2> QED
    BY <1>1, <2>2, SameAnswers
<1>4. CASE file.wellFormed /\ BadFooter
  BY <1>1, <1>4, GoodFooterFound DEF BadFooter
<1>5. CASE file.wellFormed /\ GoodFooter
  <2>1. CASE Fail("PROG_ERROR")
    <3>1. delivered' = <<Failure("PROG_ERROR")>> /\ Failure("PROG_ERROR").ret = "PROG_ERROR"
      BY <1>1, <2>1, FailTells
    <3>2. memlimit' # SizeMax
      <4> SUFFICES ASSUME memlimit = SizeMax PROVE FALSE
        BY <1>1
      <4>1. InternalSize \in Nat /\ SizeMax \in Nat /\ InternalSize < SizeMax
        BY SizesAssumption, FilesAssumption
      <4>2. memusedBy(combinedIndex) \in Nat /\ InternalSize + memusedBy(combinedIndex) < SizeMax
        BY <1>1, <1>5, GoodMemory
      <4>3. memused' = IF combinedIndex = NoIndex THEN InternalSize ELSE memusedBy(combinedIndex)
        BY <1>5 DEF GoodFooter
      <4>4. ~(DecoderLimit(memused') <= 0)
        BY <4>1, <4>2, <4>3 DEF DecoderLimit
      <4>5. phase' = "reading"
        BY <1>5, <4>4 DEF GoodFooter, Read
      <4> QED
        BY <2>1, <4>5 DEF Fail
    <3>3. Excused("PROG_ERROR", memlimit')
      BY <3>2 DEF Excused
    <3> QED
      BY <3>1, <3>3, ExcusedAnswer
  <2>2. CASE ~Fail("PROG_ERROR")
    <3>1. delivered' = delivered
      BY <1>5, <2>2 DEF GoodFooter
    <3> QED
      BY <1>1, <3>1, SameAnswers
  <2> QED
    BY <2>1, <2>2
<1> QED
  BY <1>2, <1>3, <1>4, <1>5

LEMMA IndexExcused ==
  ASSUME FilesTold, FilesFit, FoundInv, GoodFilesParsed,
         MoreIndex \/ BadIndex \/ IndexOverLimit \/ IndexDecoded
  PROVE  GoodFilesParsed'
<1>1. /\ Active /\ IndexArrived /\ state = "READ_INDEX" /\ IInv /\ FooterRead
      /\ delivered = <<>> /\ file' = file
  BY DEF MoreIndex, BadIndex, IndexOverLimit, IndexDecoded, IndexArrived, Active, FoundInv, IInv,
         Answers, Found
<1>2. CASE ~file.wellFormed
  BY <1>1, <1>2 DEF GoodFilesParsed
<1>3. CASE file.wellFormed /\ MoreIndex
  BY <1>1, <1>3, SameAnswers DEF MoreIndex
<1>4. CASE file.wellFormed /\ BadIndex
  BY <1>1, <1>4, GoodIndexFound DEF BadIndex
<1>5. CASE file.wellFormed /\ IndexOverLimit
  <2>1. delivered' = <<Failure("MEMLIMIT_ERROR")>> /\ Failure("MEMLIMIT_ERROR").ret = "MEMLIMIT_ERROR"
    BY <1>1, <1>5, FailTells DEF IndexOverLimit
  <2>2. decoder.start = IndexAt(file, Foot)
    BY <1>1, <1>5, GoodIndexFound
  <2>3. /\ memusedBy(combinedIndex) \in Nat
        /\ InternalSize + memusedBy(combinedIndex)
             + lzma_index_memusage(1, TheIndex.blocks) < SizeMax
        /\ lzma_index_memusage(1, TheIndex.blocks) \in Nat
    BY <1>1, <1>5, <2>2, GoodMemory
  <2>4. memused = InternalSize \/ memused = memusedBy(combinedIndex)
    BY <1>1 DEF FooterRead
  <2>5. memlimit' = lzma_index_memusage(1, TheIndex.blocks) + memused
    BY <1>5 DEF IndexOverLimit
  <2>6. memlimit' # SizeMax
    BY <2>3, <2>4, <2>5, SizesAssumption, FilesAssumption
  <2>7. Excused("MEMLIMIT_ERROR", memlimit')
    BY <2>6 DEF Excused
  <2> QED
    BY <2>1, <2>7, ExcusedAnswer
<1>6. CASE file.wellFormed /\ IndexDecoded
  <2>1. Given >= TheIndex.size /\ indexSize' = indexSize - request.count
    BY <1>6 DEF IndexDecoded
  <2>2. /\ indexSize - request.count = 0 /\ Given = TheIndex.size
        /\ ~(pos + request.count - footerFlags.backward - HeaderSize < TheIndex.total)
    BY <1>1, <1>6, <2>1, GoodIndexFound
  <2> DEFINE after == pos + request.count
             front == after - footerFlags.backward - HeaderSize
             exact == indexSize' = 0 /\ Given = TheIndex.size
  <2>3. exact
    BY <2>1, <2>2
  <2>4. ~(front < TheIndex.total)
    <3>1. front = pos + request.count - footerFlags.backward - HeaderSize
      BY <1>1 DEF IInv, TypeOK, Footer, HeaderSize
    <3> HIDE DEF front
    <3> QED
      BY <2>2, <3>1
  <2>5. memlimit' = memlimit
    BY <1>6 DEF IndexDecoded
  <2>6. delivered' = delivered
    BY <1>6, <2>3, <2>4 DEF IndexDecoded
  <2> QED
    BY <1>1, <2>5, <2>6, SameAnswers
<1> QED
  BY <1>2, <1>3, <1>4, <1>5, <1>6

LEMMA HeaderExcused ==
  ASSUME FilesTold, FoundInv, GoodFilesParsed, BadHeader \/ NextStream \/ NoRoomForStream \/ AllParsed
  PROVE  GoodFilesParsed'
<1>1. HeaderArrived /\ delivered = <<>> /\ file' = file
  BY DEF BadHeader, NextStream, NoRoomForStream, AllParsed, HeaderArrived, Active, FoundInv, IInv, Answers
<1>2. CASE ~file.wellFormed
  BY <1>1, <1>2 DEF GoodFilesParsed
<1>3. CASE file.wellFormed /\ (BadHeader \/ NoRoomForStream)
  BY <1>1, <1>3, GoodHeaderFound DEF BadHeader, NoRoomForStream
<1>4. CASE file.wellFormed /\ NextStream
  BY <1>1, <1>4, SameAnswers DEF NextStream
<1>5. CASE file.wellFormed /\ AllParsed
  <2> DEFINE success == Success(Combined, streamPadding')
  <2>1. delivered' = <<success>>
    BY <1>1, <1>5 DEF AllParsed, Tell
  <2>2. success.ret = "STREAM_END"
    BY DEF Success
  <2>3. Excused(success.ret, memlimit')
    BY <2>2 DEF Excused
  <2> HIDE DEF success
  <2> QED
    BY <2>1, <2>3, ExcusedAnswer
<1> QED
  BY <1>2, <1>3, <1>4, <1>5

LEMMA ReaderExcused ==
  ASSUME FoundInv, GoodFilesParsed, Reader
  PROVE  GoodFilesParsed'
<1>1. delivered = <<>> /\ file' = file /\ memlimit' = memlimit
  BY DEF Reader, AnswerNow, RefuseNow, Postpone, AnswerLater, RefuseLater, Active, FoundInv, IInv,
         Answers, infoVars
<1>2. \A ret : Tell(Failure(ret)) => delivered' = <<Failure(ret)>> /\ Failure(ret).ret = ret
  BY <1>1 DEF Tell, Failure
<1>3. /\ \/ delivered' = delivered
         \/ Tell(Failure("TRUNCATED")) \/ Tell(Failure("IO"))
  BY DEF Reader, AnswerNow, RefuseNow, Postpone, AnswerLater, RefuseLater, Fail
<1>4. Excused("TRUNCATED", memlimit') /\ Excused("IO", memlimit')
  BY DEF Excused
<1>5. CASE delivered' = delivered
  BY <1>1, <1>5, SameAnswers
<1>6. CASE Tell(Failure("TRUNCATED"))
  <2>1. delivered' = <<Failure("TRUNCATED")>> /\ Excused(Failure("TRUNCATED").ret, memlimit')
    BY <1>2, <1>4, <1>6
  <2> QED
    BY <2>1, ExcusedAnswer
<1>7. CASE Tell(Failure("IO"))
  <2>1. delivered' = <<Failure("IO")>> /\ Excused(Failure("IO").ret, memlimit')
    BY <1>2, <1>4, <1>7
  <2> QED
    BY <2>1, ExcusedAnswer
<1> QED
  BY <1>3, <1>5, <1>6, <1>7

(* A well-formed file is parsed to its end, however its padding and its    *)
(* Indexes are cut into reads and the answers spread over ticks: nothing   *)
(* of it is taken for an error (index-parser.cpp 152-353), unless the      *)
(* reader fails or the caller has set a memory limit.                      *)
THEOREM ParserParsesGoodFiles == FilesTold /\ FilesFit /\ Spec => []GoodFilesParsed
<1> DEFINE Inv == FilesTold /\ FilesFit /\ FoundInv /\ GoodFilesParsed
<1>1. FilesTold /\ FilesFit /\ Init => Inv
  BY InitFound DEF Init, GoodFilesParsed
<1>2. Inv /\ [Next]_vars => Inv'
  <2> SUFFICES ASSUME Inv, [Next]_vars PROVE Inv'
    OBVIOUS
  <2>1. FilesTold'
    BY StillTold
  <2>2. FilesFit'
    BY DEF FilesFit, lzma_index_memusage
  <2>3. FoundInv'
    BY NextFound
  <2>4. FilesTold /\ FilesFit /\ FoundInv /\ GoodFilesParsed
    OBVIOUS
  <2>5. ASSUME ParseStep PROVE GoodFilesParsed'
    <3> HIDE DEF Inv
    <3>1. CASE MemlimitTooLow \/ TooSmall \/ ParseBegins
      BY <2>4, <3>1, BeginsExcused
    <3>2. CASE SkipPadding \/ BadFooter \/ GoodFooter
      BY <2>4, <3>2, FooterExcused
    <3>3. CASE MoreIndex \/ BadIndex \/ IndexOverLimit \/ IndexDecoded
      BY <2>4, <3>3, IndexExcused
    <3>4. CASE BadHeader \/ NextStream \/ NoRoomForStream \/ AllParsed
      BY <2>4, <3>4, HeaderExcused
    <3> QED
      BY <2>5, <3>1, <3>2, <3>3, <3>4 DEF ParseStep
  <2>6. ASSUME Reader PROVE GoodFilesParsed'
    BY <2>4, <2>6, ReaderExcused
  <2>7. ASSUME Collect \/ UNCHANGED vars PROVE GoodFilesParsed'
    <3>1. delivered' = delivered /\ file' = file /\ memlimit' = memlimit
      BY <2>7 DEF Collect, vars, infoVars
    <3> QED
      BY <2>4, <3>1, SameAnswers
  <2>8. GoodFilesParsed'
    BY <2>5, <2>6, <2>7 DEF Next, Rest
  <2> QED
    BY <2>1, <2>2, <2>3, <2>8
<1>3. Inv => GoodFilesParsed
  OBVIOUS
<1> QED
  BY <1>1, <1>2, <1>3, PTL DEF Spec

-----------------------------------------------------------------------------
(* The bytes that are looked at *)

LEMMA ParseStepAsks == ParseStep => phase' # "parsing"
<1>1. MemlimitTooLow \/ TooSmall \/ ParseBegins => phase' # "parsing"
  BY DEF MemlimitTooLow, TooSmall, ParseBegins, Read
<1>2. SkipPadding \/ BadFooter \/ GoodFooter => phase' # "parsing"
  BY DEF SkipPadding, BadFooter, GoodFooter, SeekFooter, Read, Fail
<1>3. MoreIndex \/ BadIndex \/ IndexOverLimit \/ IndexDecoded => phase' # "parsing"
  BY DEF MoreIndex, BadIndex, IndexOverLimit, IndexDecoded, Read, Fail
<1>4. BadHeader \/ NextStream \/ NoRoomForStream \/ AllParsed => phase' # "parsing"
  BY DEF BadHeader, NextStream, NoRoomForStream, AllParsed, Read, Fail
<1> QED
  BY <1>1, <1>2, <1>3, <1>4 DEF ParseStep

LEMMA ReaderFills ==
  ASSUME TypeOK, ~ShortAsync, Reader, phase' = "parsing"
  PROVE  filled' = request'.count
<1>1. request' = request /\ request.count \in Nat
  BY DEF Reader, AnswerNow, RefuseNow, Postpone, AnswerLater, RefuseLater, readVars, TypeOK
<1>2. PICK length \in Lengths : Feed(length) /\ length >= request.count
  <2>1. CASE AnswerNow
    <3>1. PICK length \in Lengths :
            /\ Feed(length)
            /\ length # request.count => phase' = "over"
      BY <2>1 DEF AnswerNow, Fail
    <3> QED
      BY <1>1, <3>1
  <2>2. CASE AnswerLater
    <3>1. PICK length \in Lengths : Feed(length) /\ ~(length < request.count)
      BY <2>2 DEF AnswerLater
    <3>2. length \in Nat
      BY <1>1 DEF Lengths
    <3> QED
      BY <1>1, <3>1, <3>2
  <2> QED
    BY <2>1, <2>2 DEF Reader, RefuseNow, Postpone, RefuseLater
<1>3. length \in Nat
  BY <1>1 DEF Lengths
<1> QED
  BY <1>1, <1>2, <1>3 DEF Feed

(* A reader whose late answers are whole, as those of a file are, never    *)
(* makes the parser look at bytes of an earlier read: the length of a late *)
(* answer is not compared with anything (IndexParser::Feed, 565-584).      *)
THEOREM ParserReadsFreshBytes == ~ShortAsync /\ Spec => []FreshBytes
<1> DEFINE Inv == ~ShortAsync /\ IInv /\ FreshBytes
<1>1. ~ShortAsync /\ Init => Inv
  BY InitIInv DEF Init, FreshBytes
<1>2. Inv /\ [Next]_vars => Inv'
  <2> SUFFICES ASSUME Inv, [Next]_vars PROVE Inv'
    OBVIOUS
  <2>1. IInv'
    BY NextIInv
  <2>2. FreshBytes'
    <3>1. CASE ParseStep
      BY <3>1, ParseStepAsks DEF FreshBytes
    <3>2. CASE Reader
      BY <3>2, ReaderFills DEF FreshBytes, IInv
    <3>3. CASE Collect \/ UNCHANGED vars
      BY <3>3 DEF Collect, FreshBytes, vars, readVars
    <3> QED
      BY <3>1, <3>2, <3>3 DEF Next, Rest
  <2> QED
    BY <2>1, <2>2
<1>3. Inv => FreshBytes
  OBVIOUS
<1> QED
  BY <1>1, <1>2, <1>3, PTL DEF Spec

-----------------------------------------------------------------------------
(* A sufficient memory limit *)

(* An Index that others are counted in is that of a Stream at least. *)
Counted == combinedIndex # NoIndex => combinedIndex.streams > 0

LimitInv == FoundInv /\ Budget /\ Counted

LEMMA NextCounted == LimitInv /\ [Next]_vars => Counted'
<1> SUFFICES ASSUME LimitInv, [Next]_vars PROVE Counted'
  OBVIOUS
<1>1. FoundInv /\ IInv /\ Counted
  BY DEF LimitInv, FoundInv
<1>2. CASE NextStream
  <2>1. Active /\ state = "READ_STREAM_HEADER" /\ Found
    BY <1>1, <1>2 DEF NextStream, HeaderArrived, Active, FoundInv
  <2>2. thisIndex.streams = 1
    BY <2>1 DEF Found, IndexRead
  <2>3. Combined.streams = thisIndex.streams + combinedIndex.streams /\ combinedIndex.streams \in Nat
    BY <1>1, CombinedCounts DEF IInv, TypeOK, Index
  <2>4. Combined.streams > 0
    BY <2>2, <2>3
  <2> QED
    BY <1>2, <2>4 DEF NextStream, Counted
<1>3. CASE combinedIndex' = combinedIndex \/ combinedIndex' = NoIndex
  BY <1>1, <1>3 DEF Counted
<1>4. ASSUME ~NextStream PROVE combinedIndex' = combinedIndex \/ combinedIndex' = NoIndex
  <2>1. CASE MemlimitTooLow \/ TooSmall \/ ParseBegins \/ SkipPadding \/ BadFooter \/ GoodFooter
    BY <2>1 DEF MemlimitTooLow, TooSmall, ParseBegins, SkipPadding, SeekFooter, BadFooter, GoodFooter,
                Fail, indexVars
  <2>2. CASE MoreIndex \/ BadIndex \/ IndexOverLimit \/ IndexDecoded
    BY <2>2 DEF MoreIndex, BadIndex, IndexOverLimit, IndexDecoded, Fail
  <2>3. CASE BadHeader \/ NoRoomForStream \/ AllParsed \/ Collect \/ UNCHANGED vars
    BY <2>3 DEF BadHeader, NoRoomForStream, AllParsed, Fail, Collect, vars, indexVars
  <2>4. CASE Reader
    BY <2>4 DEF Reader, AnswerNow, RefuseNow, Postpone, AnswerLater, RefuseLater, Fail, indexVars
  <2> QED
    BY <1>4, <2>1, <2>2, <2>3, <2>4 DEF Next, ParseStep, Rest
<1> QED
  BY <1>2, <1>3, <1>4

(* What the parser holds and decodes next is within the memory of the file. *)
LEMMA LimitEnough ==
  ASSUME FilesTold, LimitInv, Active, file.wellFormed
  PROVE  /\ memusedBy(combinedIndex) \in Nat /\ file.memory \in Nat
         /\ combinedIndex # NoIndex => memusedBy(combinedIndex) < file.memory
         /\ state = "READ_INDEX" /\ decoder.start = IndexAt(file, Foot) =>
              /\ lzma_index_memusage(1, TheIndex.blocks) \in Nat
              /\ lzma_index_memusage(1, TheIndex.blocks)
                   + (IF combinedIndex = NoIndex THEN 0 ELSE memusedBy(combinedIndex)) <= file.memory
<1>1. /\ file \in Files /\ combinedIndex \in Index /\ FoundInv /\ Counted /\ file.memory \in Nat
  BY FilesAssumption DEF LimitInv, FoundInv, IInv, TypeOK, IsFile
<1>2. PICK foot : \E v \in Known(file)[HeaderAt(file, foot)] :
        /\ foot \in LastFooters(file, Boundary) /\ Boundary \in 0 .. file.size
        /\ state # "READ_FOOTER" => foot = Foot
        /\ v.streams \in Nat /\ v.blocks \in Nat
        /\ file.indexes[IndexAt(file, foot)].blocks \in Nat
        /\ file.info.streams = v.streams + 1 + combinedIndex.streams
        /\ file.info.blocks = v.blocks + file.indexes[IndexAt(file, foot)].blocks + combinedIndex.blocks
  BY <1>1, WhatIsLeft
<1> DEFINE blocks == file.indexes[IndexAt(file, foot)].blocks
<1>3. PICK v \in Known(file)[HeaderAt(file, foot)] :
        /\ v.streams \in Nat /\ v.blocks \in Nat
        /\ file.info.streams = v.streams + 1 + combinedIndex.streams
        /\ file.info.blocks = v.blocks + blocks + combinedIndex.blocks
  BY <1>2
<1>4. blocks \in Nat /\ combinedIndex.streams \in Nat /\ combinedIndex.blocks \in Nat
  BY <1>1, <1>2 DEF Index
<1>5. /\ file.info.streams - v.streams - 1 = combinedIndex.streams
      /\ file.info.blocks - v.blocks - blocks = combinedIndex.blocks
  <2> HIDE DEF blocks
  <2> QED
    BY <1>3, <1>4
<1> DEFINE this == lzma_index_memusage(1, blocks)
           held == IF combinedIndex.streams = 0 THEN 0 ELSE memusedBy(combinedIndex)
<1>6. file.memory >= this + held
  <2>1. Enough(Known(file), file)
    BY <1>1, KnownFacts DEF ToldBy
  <2>2. file.memory >= lzma_index_memusage(1, blocks)
          + IF file.info.streams - v.streams - 1 = 0 THEN 0
            ELSE lzma_index_memusage(file.info.streams - v.streams - 1, file.info.blocks - v.blocks - blocks)
    BY <1>2, <1>3, <2>1 DEF Enough
  <2> QED
    BY <1>5, <2>2 DEF memusedBy
<1>7. held = IF combinedIndex = NoIndex THEN 0 ELSE memusedBy(combinedIndex)
  <2>1. combinedIndex.streams = 0 <=> combinedIndex = NoIndex
    <3>1. NoIndex.streams = 0
      BY DEF NoIndex
    <3> QED
      BY <1>1, <1>4, <3>1 DEF Counted
  <2> QED
    BY <2>1
<1>8. this \in Nat /\ memusedBy(combinedIndex) \in Nat /\ this > 0
  <2>1. this \in Nat /\ memusedBy(combinedIndex) \in Nat
    BY <1>4, MemusageNat DEF memusedBy
  <2>2. lzma_index_memusage(1, blocks) = IndexBase + 1 * StreamMem + Groups(blocks) * GroupMem
    BY DEF lzma_index_memusage, Groups
  <2>3. Groups(blocks) \in Nat
    BY <1>4, GroupsAdd
  <2>4. Groups(blocks) * GroupMem \in Nat /\ IndexBase \in Nat \ {0} /\ 1 * StreamMem \in Nat
    BY <2>3, SizesAssumption
  <2> QED
    BY <2>1, <2>2, <2>4
<1>9. ASSUME state = "READ_INDEX", decoder.start = IndexAt(file, Foot)
       PROVE  TheIndex.blocks = blocks
  BY <1>2, <1>9 DEF TheIndex, blocks
<1> HIDE DEF this, held, blocks
<1>10. combinedIndex # NoIndex => memusedBy(combinedIndex) < file.memory
  BY <1>1, <1>6, <1>7, <1>8
<1>11. this + (IF combinedIndex = NoIndex THEN 0 ELSE memusedBy(combinedIndex)) <= file.memory
  BY <1>1, <1>6, <1>7, <1>8
<1> QED
  BY <1>1, <1>8, <1>9, <1>10, <1>11 DEF this

OfMemory == {"MEMLIMIT_ERROR", "PROG_ERROR"}

(* A step gives no answer, or one that has nothing to do with memory,      *)
(* unless it is one of these three.                                        *)
LEMMA HowAnswered ==
  ASSUME IInv, [Next]_vars,
         ~MemlimitTooLow, ~IndexOverLimit, ~(GoodFooter /\ Fail("PROG_ERROR"))
  PROVE  \/ delivered' = delivered
         \/ delivered = <<>> /\ \E result : Tell(result) /\ result.ret \notin OfMemory
<1> DEFINE Fine(result) == Tell(result) /\ result.ret \notin OfMemory
<1>1. phase = "new" \/ Active => delivered = <<>>
  BY DEF IInv, Answers
<1>2. \A ret : Failure(ret).ret = ret
  BY DEF Failure
<1>3. \A ret : Fail(ret) /\ ret \notin OfMemory => Fine(Failure(ret))
  BY <1>2 DEF Fail
<1>4. {"DATA_ERROR", "FORMAT_ERROR", "OPTIONS_ERROR", "TRUNCATED", "IO", "STREAM_END"} \cap OfMemory = {}
  BY DEF OfMemory
<1> SUFFICES delivered' = delivered \/ (delivered = <<>> /\ \E result : Fine(result))
  OBVIOUS
<1>5. CASE TooSmall \/ ParseBegins
  <2>1. Tell(Failure("DATA_ERROR")) => Fine(Failure("DATA_ERROR"))
    BY <1>2, <1>4
  <2> HIDE DEF Fine
  <2> QED
    BY <1>1, <1>5, <2>1 DEF TooSmall, ParseBegins, Parse
<1>6. CASE SkipPadding \/ BadFooter \/ GoodFooter
  <2>1. Active
    BY <1>6 DEF SkipPadding, BadFooter, GoodFooter, Active
  <2>2. FooterError(pos) \in {"OK", "FORMAT_ERROR", "OPTIONS_ERROR", "DATA_ERROR"}
    BY DEF FooterError
  <2>3. \/ delivered' = delivered \/ Fail("DATA_ERROR")
        \/ Fail(FooterError(pos)) /\ FooterError(pos) # "OK"
    BY <1>6 DEF SkipPadding, SeekFooter, BadFooter, GoodFooter
  <2> HIDE DEF Fine
  <2> QED
    BY <1>1, <1>3, <1>4, <2>1, <2>2, <2>3
<1>7. CASE MoreIndex \/ BadIndex \/ IndexDecoded
  <2>1. Active
    BY <1>7 DEF MoreIndex, BadIndex, IndexDecoded, IndexArrived, Active
  <2>2. delivered' = delivered \/ Fail("DATA_ERROR")
    BY <1>7 DEF MoreIndex, BadIndex, IndexDecoded
  <2> HIDE DEF Fine
  <2> QED
    BY <1>1, <1>3, <1>4, <2>1, <2>2
<1>8. CASE BadHeader \/ NextStream \/ NoRoomForStream \/ AllParsed
  <2>1. Active
    BY <1>8 DEF BadHeader, NextStream, NoRoomForStream, AllParsed, HeaderArrived, Active
  <2>2. Success(Combined, streamPadding').ret = "STREAM_END"
    BY DEF Success
  <2>3. \/ delivered' = delivered \/ Fail("DATA_ERROR") \/ Fail("FORMAT_ERROR")
        \/ Tell(Failure("DATA_ERROR")) \/ Tell(Success(Combined, streamPadding'))
    BY <1>8 DEF BadHeader, NextStream, NoRoomForStream, AllParsed
  <2>4. /\ Tell(Failure("DATA_ERROR")) => Fine(Failure("DATA_ERROR"))
        /\ Tell(Success(Combined, streamPadding')) => Fine(Success(Combined, streamPadding'))
    BY <1>2, <1>4, <2>2
  <2> HIDE DEF Fine
  <2> QED
    BY <1>1, <1>3, <1>4, <2>1, <2>3, <2>4
<1>9. CASE Reader
  <2>1. Active
    BY <1>9 DEF Reader, AnswerNow, RefuseNow, Postpone, AnswerLater, RefuseLater, Active
  <2>2. delivered' = delivered \/ Fail("TRUNCATED") \/ Tell(Failure("IO"))
    BY <1>9 DEF Reader, AnswerNow, RefuseNow, Postpone, AnswerLater, RefuseLater
  <2>3. Tell(Failure("IO")) => Fine(Failure("IO"))
    BY <1>2, <1>4
  <2> HIDE DEF Fine
  <2> QED
    BY <1>1, <1>3, <1>4, <2>1, <2>2, <2>3
<1>10. CASE Collect \/ UNCHANGED vars
  BY <1>10 DEF Collect, vars
<1> QED
  BY <1>5, <1>6, <1>7, <1>8, <1>9, <1>10 DEF Next, ParseStep, Rest

(* A limit that covers each Index of a good file beside those read before  *)
(* it is enough, whether or not that leaves the decoder anything to spare: *)
(* neither the decoder (IndexOverLimit) nor the check of what is left for  *)
(* it (index-parser.cpp 255-271) refuses the file.                         *)
THEOREM ParserNeedsNoMore == FilesTold /\ Spec => LimitSuffices
<1> DEFINE Inv == FilesTold /\ LimitInv
           Suffices == file.wellFormed /\ memlimit > InternalSize /\ memlimit >= file.memory =>
                         \A i \in DOMAIN delivered' \ DOMAIN delivered : delivered'[i].ret \notin OfMemory
<1>1. FilesTold /\ Init => Inv
  BY InitFound DEF Init, LimitInv, Budget, Counted, CombinedFitsMemlimit, Active
<1>2. Inv /\ [Next]_vars => Inv'
  <2> SUFFICES ASSUME Inv, [Next]_vars PROVE Inv'
    OBVIOUS
  <2>1. FilesTold' /\ FoundInv'
    BY StillTold, NextFound DEF LimitInv
  <2>2. MemInv
    BY DEF LimitInv, FoundInv, MemInv
  <2>3. MemInv'
    BY <2>2, NextMemInv
  <2> QED
    BY <2>1, <2>3, NextCounted DEF LimitInv, MemInv
<1>3. Inv /\ [Next]_vars => Suffices
  <2> SUFFICES ASSUME Inv, [Next]_vars, file.wellFormed, memlimit > InternalSize, memlimit >= file.memory
               PROVE  \A i \in DOMAIN delivered' \ DOMAIN delivered : delivered'[i].ret \notin OfMemory
    OBVIOUS
  <2>1. /\ FilesTold /\ LimitInv /\ FoundInv /\ IInv /\ Budget
        /\ memlimit \in Nat /\ InternalSize \in Nat
    BY SizesAssumption DEF LimitInv, FoundInv, IInv, TypeOK
  <2>2. ~MemlimitTooLow
    BY <2>1 DEF MemlimitTooLow
  <2>3. ASSUME GoodFooter, Fail("PROG_ERROR") PROVE FALSE
    <3>1. Active
      BY <2>3 DEF GoodFooter, Active
    <3>2. ~(DecoderLimit(memused') <= 0)
      <4>1. memused' = IF combinedIndex = NoIndex THEN InternalSize ELSE memusedBy(combinedIndex)
        BY <2>3 DEF GoodFooter
      <4>2. /\ memusedBy(combinedIndex) \in Nat /\ file.memory \in Nat
            /\ combinedIndex # NoIndex => memusedBy(combinedIndex) < file.memory
        BY <2>1, <3>1, LimitEnough
      <4> QED
        BY <2>1, <4>1, <4>2 DEF DecoderLimit
    <3>3. phase' = "reading"
      BY <2>3, <3>2 DEF GoodFooter, Read
    <3>4. phase' = "over"
      BY <2>3 DEF Fail
    <3> QED
      BY <3>3, <3>4
  <2>4. ASSUME IndexOverLimit PROVE FALSE
    <3>1. Active /\ state = "READ_INDEX" /\ IndexArrived
      BY <2>4 DEF IndexOverLimit, IndexArrived, Active
    <3>2. decoder.start = IndexAt(file, Foot)
      BY <2>1, <3>1, GoodIndexFound
    <3>3. /\ memusedBy(combinedIndex) \in Nat /\ file.memory \in Nat
          /\ lzma_index_memusage(1, TheIndex.blocks) \in Nat
          /\ lzma_index_memusage(1, TheIndex.blocks)
               + (IF combinedIndex = NoIndex THEN 0 ELSE memusedBy(combinedIndex)) <= file.memory
      BY <2>1, <3>1, <3>2, LimitEnough
    <3>4. lzma_index_memusage(1, TheIndex.blocks) > decoder.limit
      BY <2>4 DEF IndexOverLimit, OverLimit
    <3>5. decoder.limit = DecoderLimit(memusedBy(combinedIndex))
      BY <2>1, <3>1 DEF Budget
    <3> QED
      BY <2>1, <3>3, <3>4, <3>5 DEF DecoderLimit
  <2>5. \/ delivered' = delivered
        \/ delivered = <<>> /\ \E result : Tell(result) /\ result.ret \notin OfMemory
    BY <2>1, <2>2, <2>3, <2>4, HowAnswered
  <2>6. CASE delivered' = delivered
    BY <2>6
  <2>7. CASE delivered = <<>> /\ \E result : Tell(result) /\ result.ret \notin OfMemory
    <3>1. PICK result : Tell(result) /\ result.ret \notin OfMemory
      BY <2>7
    <3>2. Append(<<>>, result) = <<result>>
      OBVIOUS
    <3>3. delivered' = <<result>>
      BY <2>7, <3>1, <3>2 DEF Tell
    <3>4. \A i \in DOMAIN delivered' : delivered'[i] = result
      BY <3>3
    <3> QED
      BY <3>1, <3>4
  <2> QED
    BY <2>5, <2>6, <2>7
<1>4. Suffices <=> (file.wellFormed /\ memlimit > InternalSize /\ memlimit >= file.memory =>
                      \A i \in DOMAIN delivered' \ DOMAIN delivered :
                        delivered'[i].ret \notin {"MEMLIMIT_ERROR", "PROG_ERROR"})
  BY DEF OfMemory
<1> QED
  BY <1>1, <1>2, <1>3, <1>4, PTL DEF Spec, LimitSuffices

-----------------------------------------------------------------------------
(* The reads advance *)

(* What the decoder is offered: nothing only when the footer has promised  *)
(* nothing more, and nothing of a file again after that.                   *)
Offered ==
  Active /\ state = "READ_INDEX" =>
    /\ request.count = 0 => indexSize = 0
    /\ decoder.stuck => request.count = 0

LEMMA NextOffered == IInv /\ Offered /\ [Next]_vars => Offered'
<1> SUFFICES ASSUME IInv, Offered, [Next]_vars PROVE Offered'
  OBVIOUS
<1>1. IInv'
  BY NextIInv
<1>2. BufSize \in Nat /\ BufSize > 0
  BY SizesAssumption DEF HeaderSize
<1>3. CASE MemlimitTooLow \/ TooSmall \/ ParseBegins
  BY <1>3 DEF MemlimitTooLow, TooSmall, ParseBegins, Read, Offered, Active
<1>4. CASE SkipPadding \/ BadFooter
  BY <1>4 DEF SkipPadding, BadFooter, SeekFooter, Read, Fail, Offered, Active
<1>5. CASE GoodFooter
  <2>1. CASE DecoderLimit(memused') <= 0
    BY <1>5, <2>1 DEF GoodFooter, Fail, Offered, Active
  <2>2. CASE ~(DecoderLimit(memused') <= 0)
    <3>1. /\ ~decoder'.stuck
          /\ request'.count = IF indexSize' < BufSize THEN indexSize' ELSE BufSize
      BY <1>5, <2>2 DEF GoodFooter, Read
    <3> QED
      BY <1>2, <3>1 DEF Offered
  <2> QED
    BY <2>1, <2>2
<1>6. CASE MoreIndex
  <2>1. /\ decoder' = [decoder EXCEPT !.stuck = request.count = 0]
        /\ indexSize' = indexSize - request.count
        /\ request'.count = IF indexSize' < BufSize THEN indexSize' ELSE BufSize
    BY <1>6 DEF MoreIndex, MoveOn, Read
  <2>2. decoder'.stuck => request.count = 0
    BY <2>1 DEF IInv, TypeOK
  <2>3. request.count = 0 => indexSize = 0
    BY <1>6 DEF MoreIndex, IndexArrived, Offered, Active
  <2>4. indexSize \in Nat /\ request.count \in Nat
    BY DEF IInv, TypeOK
  <2> QED
    BY <1>2, <2>1, <2>2, <2>3, <2>4 DEF Offered
<1>7. CASE BadIndex \/ IndexOverLimit
  BY <1>7 DEF BadIndex, IndexOverLimit, Fail, Offered, Active
<1>8. CASE IndexDecoded
  BY <1>8 DEF IndexDecoded, Read, Fail, Offered, Active
<1>9. CASE BadHeader \/ NextStream \/ NoRoomForStream \/ AllParsed
  BY <1>9 DEF BadHeader, NextStream, NoRoomForStream, AllParsed, Read, Fail, Offered, Active
<1>10. CASE Reader
  <2>1. phase' = "over" \/ UNCHANGED <<state, request, indexSize, decoder>>
    BY <1>10 DEF Reader, AnswerNow, RefuseNow, Postpone, AnswerLater, RefuseLater, Fail,
                 streamVars, indexVars, readVars
  <2>2. Active
    BY <1>10 DEF Reader, AnswerNow, RefuseNow, Postpone, AnswerLater, RefuseLater, Active
  <2> QED
    BY <2>1, <2>2 DEF Offered, Active
<1>11. CASE Collect \/ UNCHANGED vars
  BY <1>11 DEF Collect, Offered, Active, vars, streamVars, indexVars, readVars
<1> QED
  BY <1>3, <1>4, <1>5, <1>6, <1>7, <1>8, <1>9, <1>10, <1>11 DEF Next, ParseStep, Rest

(* A step from a footer, from an Index or from a header to the next read.  *)
LEMMA FooterAdvances ==
  ASSUME IInv, SkipPadding \/ GoodFooter, phase' = "reading"
  PROVE  BytesLeft' \in 0 .. BytesLeft - 1
<1>1. Active /\ state = "READ_FOOTER"
  BY DEF SkipPadding, GoodFooter, Active
<1>2. pos \in Nat /\ BytesLeft = pos + HeaderSize
  BY <1>1 DEF BytesLeft, IInv, TypeOK
<1>3. CASE SkipPadding
  <2>1. state' = "READ_FOOTER" /\ pos' = pos - 4 * PaddingWords /\ ~(pos' < HeaderSize)
    BY <1>3 DEF SkipPadding, SeekFooter, Read, Fail
  <2>2. PaddingWords \in 1 .. 3
    BY DEF PaddingWords
  <2>3. BytesLeft' = pos' + HeaderSize
    BY <2>1 DEF BytesLeft
  <2> QED
    BY <1>2, <2>1, <2>2, <2>3 DEF HeaderSize
<1>4. CASE GoodFooter
  <2>1. ~(DecoderLimit(memused') <= 0)
    BY <1>4 DEF GoodFooter, Fail
  <2>2. /\ state' = "READ_INDEX" /\ pos' = pos - indexSize'
        /\ decoder'.start = pos' /\ ~decoder'.stuck
    BY <1>4, <2>1 DEF GoodFooter, Read
  <2>3. BytesLeft' = pos' + indexSize' + 1 + 1
    BY <2>2 DEF BytesLeft, Count
  <2>4. indexSize' = file.footers[pos].backward /\ pos \in DOMAIN file.footers
    BY <1>4 DEF GoodFooter, FooterError
  <2>5. indexSize' \in Nat
    BY <2>4, FileFacts DEF IInv, Footer
  <2> DEFINE left == BytesLeft
             left1 == BytesLeft'
             size1 == indexSize'
             pos1 == pos'
  <2>6. /\ pos1 = pos - size1 /\ size1 \in Nat
        /\ left1 = pos1 + size1 + 1 + 1 /\ left = pos + 12
    BY <1>2, <2>2, <2>3, <2>5 DEF HeaderSize
  <2> HIDE DEF left, left1, size1, pos1
  <2>7. pos1 \in Int /\ pos1 = pos - size1
    BY <1>2, <2>6
  <2>8. left1 = pos + 2 /\ left = pos + 12
    BY <1>2, <2>6, <2>7
  <2>9. left1 \in 0 .. left - 1
    BY <1>2, <2>8
  <2> QED
    BY <2>9 DEF left, left1
<1> QED
  BY <1>3, <1>4

LEMMA IndexAdvances ==
  ASSUME IInv, Offered, MoreIndex \/ IndexDecoded, phase' = "reading"
  PROVE  BytesLeft' \in 0 .. BytesLeft - 1
<1>1. Active /\ state = "READ_INDEX"
  BY DEF MoreIndex, IndexDecoded, IndexArrived, Active
<1>2. IndexStage
  BY <1>1 DEF IInv, Bookkeeping
<1>3. /\ pos \in Nat /\ indexSize \in Nat /\ request.count \in Nat /\ decoder.start \in Nat
      /\ footerFlags.backward \in Nat /\ decoder.stuck \in BOOLEAN
  BY DEF IInv, TypeOK, Footer
<1>4. BytesLeft = decoder.start + indexSize + Count(~decoder.stuck) + 1
  BY <1>1 DEF BytesLeft
<1>5. request.count <= indexSize
  BY <1>2 DEF IndexStage
<1>6. Count(~decoder.stuck) \in Nat
  BY DEF Count
<1>7. CASE MoreIndex
  <2>1. /\ decoder' = [decoder EXCEPT !.stuck = request.count = 0]
        /\ indexSize' = indexSize - request.count
        /\ state' = "READ_INDEX"
    BY <1>7 DEF MoreIndex, MoveOn, Read
  <2>2. decoder'.start = decoder.start /\ (decoder'.stuck <=> request.count = 0)
    BY <2>1 DEF IInv, TypeOK
  <2>3. BytesLeft' = decoder.start + (indexSize - request.count) + Count(request.count # 0) + 1
    BY <2>1, <2>2 DEF BytesLeft, Count
  <2>4. CASE request.count = 0
    <3>1. Count(~decoder.stuck) = 1 /\ Count(request.count # 0) = 0
      BY <1>7, <2>4, <1>3 DEF MoreIndex, Count
    <3> QED
      BY <1>3, <1>4, <1>5, <2>3, <2>4, <3>1
  <2>5. CASE request.count # 0
    <3>1. Count(~decoder.stuck) = 1 /\ Count(request.count # 0) = 1
      BY <1>1, <2>5 DEF Offered, Count
    <3> QED
      BY <1>3, <1>4, <1>5, <2>3, <2>5, <3>1
  <2> QED
    BY <2>4, <2>5
<1>8. CASE IndexDecoded
  <2> DEFINE front == (pos + request.count) - footerFlags.backward - HeaderSize
  <2>1. /\ indexSize' = indexSize - request.count /\ indexSize' = 0
        /\ ~(front < TheIndex.total) /\ pos' = front - TheIndex.total
        /\ state' = "READ_STREAM_HEADER"
    BY <1>8 DEF IndexDecoded, Read, Fail
  <2>2. TheIndex.total \in Nat
    BY <1>8, FileFacts DEF IndexDecoded, IndexKnown, TheIndex, IndexField, IInv
  <2>3. pos + indexSize = decoder.start + footerFlags.backward
    BY <1>2 DEF IndexStage
  <2>4. front = decoder.start - HeaderSize
    BY <1>3, <2>1, <2>3 DEF HeaderSize
  <2>5. BytesLeft' = pos' + HeaderSize
    BY <2>1 DEF BytesLeft
  <2> HIDE DEF front
  <2> QED
    BY <1>3, <1>4, <1>6, <2>1, <2>2, <2>4, <2>5 DEF HeaderSize
<1> QED
  BY <1>7, <1>8

LEMMA HeaderAdvances ==
  ASSUME IInv, NextStream
  PROVE  BytesLeft' \in 0 .. BytesLeft - 1
<1>1. state = "READ_STREAM_HEADER" /\ state' = "READ_FOOTER" /\ pos' = pos - HeaderSize
  BY DEF NextStream, HeaderArrived, Read
<1>2. BytesLeft = pos + HeaderSize /\ BytesLeft' = pos' + HeaderSize
  BY <1>1 DEF BytesLeft
<1>3. pos \in Nat /\ pos >= 2 * HeaderSize
  BY DEF IInv, TypeOK, NextStream
<1> QED
  BY <1>1, <1>2, <1>3 DEF HeaderSize

(* Every read leaves less to be read, for every file, whatever sizes it    *)
(* claims and wherever it has zeroes: the coroutine cannot go round in     *)
(* circles (index-parser.cpp 160-361).                                     *)
THEOREM ParserAdvances == Spec => ReadsAdvance
<1> DEFINE Inv == IInv /\ Offered
           Advance == phase = "parsing" /\ phase' = "reading" => BytesLeft' \in 0 .. BytesLeft - 1
<1>1. Init => Inv
  BY InitIInv DEF Init, Offered, Active
<1>2. Inv /\ [Next]_vars => Inv'
  BY NextIInv, NextOffered
<1>3. Inv /\ [Next]_vars => Advance
  <2> SUFFICES ASSUME Inv, [Next]_vars, phase = "parsing", phase' = "reading"
               PROVE  BytesLeft' \in 0 .. BytesLeft - 1
    OBVIOUS
  <2>1. ~MemlimitTooLow /\ ~TooSmall /\ ~ParseBegins
    BY DEF MemlimitTooLow, TooSmall, ParseBegins, Parse
  <2>2. ~BadFooter /\ ~BadIndex /\ ~IndexOverLimit /\ ~BadHeader
    BY DEF BadFooter, BadIndex, IndexOverLimit, BadHeader, Fail
  <2>3. ~NoRoomForStream /\ ~AllParsed /\ ~Collect /\ ~UNCHANGED vars
    BY DEF NoRoomForStream, AllParsed, Collect, vars
  <2>4. ~Reader
    BY DEF Reader, AnswerNow, RefuseNow, Postpone, AnswerLater, RefuseLater
  <2>5. SkipPadding \/ GoodFooter \/ MoreIndex \/ IndexDecoded \/ NextStream
    BY <2>1, <2>2, <2>3, <2>4 DEF Next, ParseStep, Rest
  <2> QED
    BY <2>5, FooterAdvances, IndexAdvances, HeaderAdvances
<1> QED
  BY <1>1, <1>2, <1>3, PTL DEF Spec, ReadsAdvance

=============================================================================
