------------------------------- MODULE Sample -------------------------------
(* The input on which a pure function of the code is checked: Init chooses *)
(* it from the inputs of one kind, and it stays.                           *)
VARIABLE sample

Samples(kind, values) == {[of |-> kind, value |-> v] : v \in values}
NoSample == [of |-> "none"]
=============================================================================
