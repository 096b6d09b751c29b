------------------------------ MODULE BytePipe ------------------------------
(***************************************************************************)
(* What a caller of a compressing or decompressing stream is promised: the *)
(* payload of the input comes out in order, without a gap, and a stream    *)
(* that ends without an error has delivered all of it.                     *)
(***************************************************************************)
EXTENDS Naturals

VARIABLES
  payload,     \* the units of the input that have to come out, fixed
  wellFormed,  \* the input is one the coder can code to its end, fixed
  out,         \* what was delivered
  status       \* "open", "ended" or "failed"

vars == <<payload, wellFormed, out, status>>

Init ==
  /\ payload \subseteq Nat /\ wellFormed \in BOOLEAN
  /\ out = {} /\ status = "open"

(* The next units of the payload come out. *)
Deliver ==
  /\ status = "open"
  /\ \E bound \in payload :
       /\ out' = {u \in payload : u <= bound}
       /\ out \subseteq out' /\ out' # out
  /\ UNCHANGED <<payload, wellFormed, status>>

End ==
  /\ status = "open"
  /\ wellFormed /\ out = payload
  /\ status' = "ended"
  /\ UNCHANGED <<payload, wellFormed, out>>

Fail ==
  /\ status = "open"
  /\ status' = "failed"
  /\ UNCHANGED <<payload, wellFormed, out>>

Next == Deliver \/ End \/ Fail

Spec == Init /\ [][Next]_vars
=============================================================================
