---------------------------- MODULE FrameIterator ----------------------------
(***************************************************************************)
(* What the design (spec section 4.3) promises of a frame iterator that    *)
(* pages through a row source, with no cursor, column or loop in it.  The  *)
(* iterator is Ready, Exhausted or Failed.  From Ready, next() yields the  *)
(* next page (the rows of the next Limit source positions, marker rows    *)
(* taken out), or fails, or, once the pages cover the whole source,       *)
(* returns false with a nil error and the iterator is Exhausted for good. *)
(* A failed iterator keeps its error; what it yields after that is not    *)
(* promised.                                                             *)
(*                                                                         *)
(* KVIterator implements this specification under the instance FI         *)
(* defined there, with the schema row as the marker.                     *)
(***************************************************************************)
EXTENDS Naturals, Sequences

CONSTANTS
    Rows,           \* the rows a source may hold
    MaxRows,        \* bound on the length of the source
    Limit,          \* rows per page
    IsMarker(_)     \* the row is an internal schema marker

VARIABLES
    src,        \* the rows of the source, in order
    out,        \* the pages yielded, each the sequence of its rows
    state       \* "ready", "exhausted" or "failed"

fvars == <<src, out, state>>

(* The last source position of page k.                                  *)
PageEnd(k) == IF k * Limit < Len(src) THEN k * Limit ELSE Len(src)

(* d is page k: the non-marker rows of its positions, in order.          *)
IsPage(d, k) ==
    \E idx \in [1..Len(d) -> ((k - 1) * Limit + 1)..PageEnd(k)] :
        /\ \A i, j \in 1..Len(d) : i < j => idx[i] < idx[j]
        /\ {idx[i] : i \in 1..Len(d)} =
               {j \in ((k - 1) * Limit + 1)..PageEnd(k) : ~IsMarker(src[j])}
        /\ \A i \in 1..Len(d) : d[i] = src[idx[i]]

Init ==
    /\ src \in Seq(Rows) /\ Len(src) <= MaxRows
    /\ out = <<>>
    /\ state = "ready"

(* next() returns true with the next page of the source.                 *)
Yield ==
    /\ state = "ready"
    /\ Len(out) * Limit < Len(src)
    /\ Len(out') = Len(out) + 1
    /\ \A k \in DOMAIN out : out'[k] = out[k]
    /\ IsPage(out'[Len(out) + 1], Len(out) + 1)
    /\ UNCHANGED <<src, state>>

(* next() returns false with a nil error: the pages cover the source.    *)
Exhaust ==
    /\ state = "ready"
    /\ Len(src) <= Len(out) * Limit
    /\ state' = "exhausted"
    /\ UNCHANGED <<src, out>>

(* next() returns false and err() is not nil.                            *)
Fail ==
    /\ state = "ready"
    /\ state' = "failed"
    /\ UNCHANGED <<src, out>>

(* After a failure the error stays; further pages are not promised.      *)
AfterFailure ==
    /\ state = "failed"
    /\ state' = "failed"
    /\ UNCHANGED src

Next == Yield \/ Exhaust \/ Fail \/ AfterFailure

Spec == Init /\ [][Next]_fvars

=============================================================================
