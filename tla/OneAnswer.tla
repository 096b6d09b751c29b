----------------------------- MODULE OneAnswer -----------------------------
(***************************************************************************)
(* What compress(), decompress() and the LZMA object promise their caller: *)
(* one answer, given to the callback and to the promise alike, and a       *)
(* result only when it is the whole payload of an input that can be coded. *)
(***************************************************************************)
EXTENDS Naturals, Sequences

VARIABLES
  payload, wellFormed,  \* of the input, fixed
  answers,              \* what on_finish was called with: "result" or "error"
  promise,              \* "pending", "resolved" or "rejected"
  result                \* the payload in the result

vars == <<payload, wellFormed, answers, promise, result>>

Init ==
  /\ payload \subseteq Nat /\ wellFormed \in BOOLEAN
  /\ answers = <<>> /\ promise = "pending" /\ result = {}

Finish ==
  /\ answers = <<>> /\ wellFormed
  /\ answers' = <<"result">> /\ promise' = "resolved" /\ result' = payload
  /\ UNCHANGED <<payload, wellFormed>>

Fail ==
  /\ answers = <<>>
  /\ answers' = <<"error">> /\ promise' = "rejected"
  /\ UNCHANGED <<payload, wellFormed, result>>

Next == Finish \/ Fail

Spec == Init /\ [][Next]_vars
=============================================================================
