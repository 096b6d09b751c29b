----------------------------- MODULE MCOneShot -----------------------------
(* Values of the constants of OneShot for TLC.  All calls of singleString- *)
(* Coding decode with an autoDecoder, which can be restarted; a .lzma      *)
(* member has no 'YZ' at its end.                                          *)
EXTENDS OneShot

Decode(units, ends) ==
  [units |-> units, ends |-> ends, cuts |-> {Len(units)},
   decoder |-> TRUE, restartable |-> TRUE, canFail |-> FALSE, timeout |-> FALSE]
Encode(units) ==
  [Decode(units, {}) EXCEPT !.decoder = FALSE, !.restartable = FALSE]

GoodJobs ==
  {Decode(<<"head", "data", "Y", "Z">>, {4}),
   Decode(<<"head", "data", "Y", "Z", "data", "Y", "Z", "zero", "head", "data", "Y", "Z", "zero">>, {7, 12}),
   Decode(<<"head", "data", "data">>, {3}),
   Encode(<<"data", "Y", "Z", "zero">>)}

BadJobs ==
  {Decode(<<"head", "data", "Y", "Z", "head", "data", "junk", "Y", "Z">>, {4, 9}),
   Decode(<<"head", "data", "Y", "Z", "head", "data">>, {4}),
   Decode(<<"head", "data", "Y", "Z", "zero", "junk">>, {4}),
   Decode(<<"junk", "Y", "Z", "data">>, {}),
   Decode(<<"zero">>, {})}

OneShotJobs == GoodJobs \cup BadJobs \cup {[j EXCEPT !.canFail = TRUE] : j \in GoodJobs}

(* What the proofs assume of the input holds of all of these: it comes in *)
(* one piece, and a member that something may follow ends in YZ.           *)
ASSUME OneShotJobsSound == \A j \in OneShotJobs : Sound(j)
=============================================================================
