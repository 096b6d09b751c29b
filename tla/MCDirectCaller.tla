--------------------------- MODULE MCDirectCaller ---------------------------
(* Values of the constants of DirectCaller for TLC. *)
EXTENDS DirectCaller

Decode(units, ends, cuts) ==
  [units |-> units, ends |-> ends, cuts |-> cuts,
   decoder |-> TRUE, restartable |-> TRUE, canFail |-> FALSE, timeout |-> FALSE]

Encode ==
  [Decode(<<"data", "zero", "data">>, {}, 1 .. 3) EXCEPT !.decoder = FALSE, !.restartable = FALSE]
Member == Decode(<<"head", "data", "data", "Y", "Z">>, {5}, {1, 2, 3, 5})
TwoMembers == Decode(<<"head", "data", "Z", "head", "data", "Z">>, {3, 6}, {1, 3, 5, 6})
Junk == Decode(<<"head", "data", "junk">>, {}, {1, 2, 3})

DirectJobs == {Encode, Member, TwoMembers, Junk, [Encode EXCEPT !.canFail = TRUE]}
=============================================================================
