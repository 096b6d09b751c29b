--------------------------- MODULE MCIndexParser ---------------------------
(* Files for TLC, built from the layout of their streams. *)
EXTENDS IndexParser

(* A stream: body bytes of blocks, of which the Index records total; an    *)
(* Index of index bytes, which the footer gives as claim.                  *)
Stream(body, blocks, idx, check, pad) ==
  [body |-> body, total |-> body, blocks |-> blocks, idx |-> idx, claim |-> idx,
   check |-> check, headerCheck |-> check, version |-> 0, pad |-> pad]

Length(s) == 2 * HeaderSize + s.body + s.idx + s.pad

(* lead bytes of something else, then the streams. *)
MakeFile(lead, streams) ==
  LET n == Len(streams)
      start[i \in 1 .. n + 1] ==
        IF i = 1 THEN lead ELSE start[i - 1] + Length(streams[i - 1])
      idx(i) == start[i] + HeaderSize + streams[i].body
      foot(i) == idx(i) + streams[i].idx
      at(f(_), p) == CHOOSE i \in 1 .. n : f(i) = p
      begin(i) == start[i]
      total[i \in 0 .. n] == IF i = 0 THEN 0 ELSE total[i - 1] + streams[i].blocks
      pads[i \in 0 .. n] == IF i = 0 THEN 0 ELSE pads[i - 1] + streams[i].pad
      need == {lzma_index_memusage(1, streams[i].blocks)
                 + (IF i = n THEN 0
                    ELSE lzma_index_memusage(n - i, total[n] - total[i])) : i \in 1 .. n}
  IN [size |-> start[n + 1],
      zeros |-> {p \in 0 .. start[n + 1] :
                   \E i \in 1 .. n : p \in foot(i) + HeaderSize .. start[i + 1] - 4
                                     /\ (p - foot(i)) % 4 = 0},
      footers |-> [p \in {foot(i) : i \in 1 .. n} |->
                     LET s == streams[at(foot, p)]
                     IN [version |-> s.version, check |-> s.check, backward |-> s.claim]],
      headers |-> [p \in {start[i] : i \in 1 .. n} |-> streams[at(begin, p)].headerCheck],
      indexes |-> [p \in {idx(i) : i \in 1 .. n} |->
                     LET s == streams[at(idx, p)]
                     IN [size |-> s.idx, total |-> s.total, blocks |-> s.blocks]],
      wellFormed |-> n > 0 /\ lead = 0 /\ \A i \in 1 .. n :
                       /\ streams[i].total = streams[i].body
                       /\ streams[i].claim = streams[i].idx
                       /\ streams[i].check = streams[i].headerCheck
                       /\ streams[i].version = 0,
      info |-> [streams |-> n, blocks |-> total[n], fileSize |-> start[n + 1],
                streamPadding |-> pads[n],
                checks |-> {streams[i].check : i \in 1 .. n}],
      memory |-> IF n = 0 THEN 0 ELSE CHOOSE m \in need : \A k \in need : k <= m]

One == Stream(16, 1, 8, 1, 0)
Padded == Stream(20, 2, 20, 4, 16)
Big == Stream(40, 3, 36, 15, 4)
Plain == Stream(0, 0, 8, 0, 8)

GoodFiles ==
  {MakeFile(0, <<One>>), MakeFile(0, <<Padded>>), MakeFile(0, <<One, Padded>>),
   MakeFile(0, <<Big, One, Padded>>), MakeFile(0, <<Plain, Big>>)}

BadFiles ==
  {MakeFile(lead, <<>>) : lead \in {0, 8, 24, 40}}
  \cup {MakeFile(lead, <<Padded>>) : lead \in {4, 12, 24, 48}}
  \cup {MakeFile(0, <<One, s>>) :
          s \in {[Padded EXCEPT !.claim = 12], [Padded EXCEPT !.claim = 24],
                 [Padded EXCEPT !.claim = 8], [Padded EXCEPT !.claim = 400],
                 [Padded EXCEPT !.total = 16], [Padded EXCEPT !.total = 400],
                 [Padded EXCEPT !.headerCheck = 1], [Padded EXCEPT !.version = 1],
                 [Big EXCEPT !.pad = 12, !.claim = 32]}}
  \cup {MakeFile(0, <<[One EXCEPT !.pad = 40], [One EXCEPT !.claim = 12]>>)}
  \cup {[MakeFile(16, <<>>) EXCEPT !.zeros = {0, 4, 8, 12}, !.size = 24]}

AllFiles == GoodFiles \cup BadFiles

(* What the proofs assume of the files: Contents is the c of Told. *)
Contents(f) ==
  LET c[e \in 0 .. f.size] ==
        IF e = 0 THEN {NoStreams}
        ELSE UNION {ContentsOfLast(c, f, foot, e) : foot \in LastFooters(f, e)}
  IN c
ASSUME AllFilesTold == \A f \in AllFiles : ToldBy(Contents(f), f)
ASSUME AllFilesFit == FilesFit
=============================================================================
