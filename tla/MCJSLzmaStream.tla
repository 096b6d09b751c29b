--------------------------- MODULE MCJSLzmaStream ---------------------------
(* Values of the constants of JSLzmaStream for TLC. *)
EXTENDS JSLzmaStream

Decode(units, ends) ==
  [units |-> units, ends |-> ends,
   cuts |-> (1 .. Len(units)) \ {e - 1 : e \in ends},  \* no footer is parted
   decoder |-> TRUE, restartable |-> TRUE, canFail |-> FALSE, timeout |-> FALSE]

(* Two members with padding between and behind them; the payload of the    *)
(* first one contains the bytes 'YZ' by chance.                            *)
TwoMembers ==
  Decode(<<"head", "data", "Y", "Z", "data", "Y", "Z", "zero", "zero",
           "head", "data", "Y", "Z", "zero">>, {7, 13})

(* A good member, then one that is damaged, cut short, or no member. *)
SecondDamaged ==
  Decode(<<"head", "data", "Y", "Z", "zero", "head", "data", "junk", "Y", "Z">>, {4, 10})
SecondTruncated ==
  Decode(<<"head", "data", "Y", "Z", "head", "data", "data">>, {4})
JunkBehind ==
  Decode(<<"head", "data", "data", "Y", "Z", "zero", "junk">>, {5})

(* A .lzma file: its member has no footer; something else is behind it. *)
AloneAndMore ==
  [Decode(<<"head", "data", "data", "junk">>, {3}) EXCEPT
     !.restartable = FALSE, !.cuts = 1 .. 4]

(* Something to compress, with a 'YZ' and zeroes in it. *)
Encode ==
  [Decode(<<"zero", "data", "Y", "Z", "data">>, {}) EXCEPT !.decoder = FALSE, !.restartable = FALSE]

StreamJobs ==
  {TwoMembers, SecondDamaged, SecondTruncated, JunkBehind, AloneAndMore, Encode}
  \cup {[j EXCEPT !.canFail = TRUE] : j \in {SecondTruncated, Encode}}

(* What the theorems about the payload assume of a job, these jobs meet;   *)
(* the good ones begin with a header and so does every member.             *)
ASSUME StreamJobsSound ==
  /\ \A j \in StreamJobs : Sound(j)
  /\ \A j \in {TwoMembers, AloneAndMore, Encode} : Begins(j)

DecodeJobs == {TwoMembers}

(* Footers that are parted by a cut. *)
PartedFooters == {[TwoMembers EXCEPT !.cuts = 1 .. 14]}

AloneJobs == {AloneAndMore}
TimeoutJobs == {[Encode EXCEPT !.timeout = TRUE]}
=============================================================================
