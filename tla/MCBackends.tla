------------------------------ MODULE MCBackends ------------------------------
(***************************************************************************)
(* Backends with int attributes from -1 to 1, the empty table name and   *)
(* "a" with and without a trailing "/", a session whose path is "a", two *)
(* kv items, a filter selecting one of them and the empty filter         *)
(* selecting both, and two calls.                                         *)
(***************************************************************************)
EXTENDS Backends

MCIntVals == -1..1

MCBases == {"", "a"}

MCItems == {"i1", "i2"}

MCFilters == {{"i1"}, {"i1", "i2"}}

MCSessionPath == [base |-> "a", slash |-> FALSE]

MCMaxCalls == 2

=============================================================================
