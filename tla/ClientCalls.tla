------------------------------ MODULE ClientCalls ------------------------------
(***************************************************************************)
(* The request side of the frames client (src/client.go): NewClient,      *)
(* Client.Read with the streamFrameIterator over the response body, and   *)
(* jsonCall behind Client.Create and Client.Delete, used by one caller    *)
(* that runs its calls one after another.                                 *)
(*                                                                         *)
(* A read's response body is a stream of encoded frames (1..nrec) that    *)
(* ends in a clean end of stream, a cut in mid-record (io.ErrUnexpected-   *)
(* EOF from the decoder) or a record the decoder rejects.  The bytes, the  *)
(* JSON and msgpack encodings and the logging are left out.               *)
(***************************************************************************)
EXTENDS Naturals

CONSTANTS
    MaxFrames,  \* bound on the frames of one read's response
    MaxOps      \* bound on the calls the caller makes

ASSUME ClientAssumption == MaxFrames \in Nat /\ MaxOps \in Nat

VARIABLES
    client,     \* "none" before NewClient, then "ready" or "failed"
    ops,        \* calls made so far
    phase,      \* "idle", or "iter" while the caller holds a read's iterator
    nrec,       \* frames in the current read's response body
    term,       \* how that body ends
    got,        \* frames the iterator has decoded
    itClosed,   \* the iterator has closed the response body
    itErr,      \* it.err
    ret,        \* what the last call of Next returned
    leaked      \* response bodies of finished jsonCalls never closed

vars == <<client, ops, phase, nrec, term, got, itClosed, itErr, ret, leaked>>

Terms == {"eof", "truncated", "corrupt"}

(* What http.DefaultClient.Do gives back: an error, a non-200 response or *)
(* a 200 response.                                                       *)
DoOutcomes == {"neterr", "bad", "ok"}

Init ==
    /\ client = "none"
    /\ ops = 0
    /\ phase = "idle"
    /\ nrec = 0
    /\ term = "eof"
    /\ got = 0
    /\ itClosed = FALSE
    /\ itErr = "none"
    /\ ret = "none"
    /\ leaked = 0

(* NewClient: the URL argument, else $V3IO_URL; neither gives an error.   *)
NewClient ==
    /\ client = "none"
    /\ \E urlArg, urlEnv \in BOOLEAN :
          client' = IF urlArg \/ urlEnv THEN "ready" ELSE "failed"
    /\ UNCHANGED <<ops, phase, nrec, term, got, itClosed, itErr, ret, leaked>>

(* Client.Read: a call error is returned; a non-200 response is read and  *)
(* closed (defer) and turned into an error; a 200 response becomes the    *)
(* body of a new streamFrameIterator.                                     *)
Read ==
    /\ client = "ready"
    /\ phase = "idle"
    /\ ops < MaxOps
    /\ ops' = ops + 1
    /\ \E o \in DoOutcomes :
          \/ /\ o \in {"neterr", "bad"}
             /\ UNCHANGED <<phase, nrec, term, got, itClosed, itErr, ret>>
          \/ /\ o = "ok"
             /\ phase' = "iter"
             /\ \E n \in 0..MaxFrames, t \in Terms : nrec' = n /\ term' = t
             /\ got' = 0
             /\ itClosed' = FALSE
             /\ itErr' = "none"
             /\ ret' = "none"
    /\ UNCHANGED <<client, leaked>>

(* Mutant: every decode error taken for the end of the stream.           *)
NextErrAsEOF ==
    /\ phase = "iter"
    /\ \/ /\ ~itClosed /\ got < nrec
          /\ got' = got + 1 /\ ret' = "true"
          /\ UNCHANGED <<itClosed, itErr>>
       \/ /\ ~itClosed /\ got = nrec
          /\ itClosed' = TRUE /\ ret' = "false"
          /\ UNCHANGED <<got, itErr>>
       \/ /\ itClosed
          /\ itErr' = "closed" /\ ret' = "false"
          /\ UNCHANGED <<got, itClosed>>
    /\ UNCHANGED <<client, ops, phase, nrec, term, leaked>>

(* Mutant: the decoder's frame count not checked (a record past the end). *)
NextUnbounded ==
    /\ phase = "iter"
    /\ ~itClosed
    /\ got' = got + 1 /\ ret' = "true"
    /\ UNCHANGED <<client, ops, phase, nrec, term, itClosed, itErr, leaked>>

(* streamFrameIterator.Next: DecodeFrame gives a frame; io.EOF closes the *)
(* body and returns false; any other error is kept in it.err, the body    *)
(* left open.  Decoding from a closed body fails ("read on closed body"). *)
NextFrame ==
    /\ phase = "iter"
    /\ \/ /\ ~itClosed /\ got < nrec
          /\ got' = got + 1 /\ ret' = "true"
          /\ UNCHANGED <<itClosed, itErr>>
       \/ /\ ~itClosed /\ got = nrec /\ term = "eof"
          /\ itClosed' = TRUE /\ ret' = "false"
          /\ UNCHANGED <<got, itErr>>
       \/ /\ ~itClosed /\ got = nrec /\ term # "eof"
          /\ itErr' = "decode" /\ ret' = "false"
          /\ UNCHANGED <<got, itClosed>>
       \/ /\ itClosed
          /\ itErr' = "closed" /\ ret' = "false"
          /\ UNCHANGED <<got, itClosed>>
    /\ UNCHANGED <<client, ops, phase, nrec, term, leaked>>

(* The caller leaves its for it.Next() loop once Next returned false.   *)
EndIteration ==
    /\ phase = "iter"
    /\ ret = "false"
    /\ phase' = "idle"
    /\ UNCHANGED <<client, ops, nrec, term, got, itClosed, itErr, ret, leaked>>

(* jsonCall (Create, Delete): an error from Do, an error for a non-200    *)
(* status, or nil; the response body is not closed on either response.   *)
JsonCall ==
    /\ client = "ready"
    /\ phase = "idle"
    /\ ops < MaxOps
    /\ ops' = ops + 1
    /\ \E o \in DoOutcomes :
          leaked' = IF o = "neterr" THEN leaked ELSE leaked + 1
    /\ UNCHANGED <<client, phase, nrec, term, got, itClosed, itErr, ret>>

Next == NewClient \/ Read \/ NextFrame \/ EndIteration \/ JsonCall

Spec == Init /\ [][Next]_vars

-----------------------------------------------------------------------------
(* Every variable has its type.                                          *)
TypeOK ==
    /\ client \in {"none", "ready", "failed"}
    /\ ops \in 0..MaxOps
    /\ phase \in {"idle", "iter"}
    /\ nrec \in 0..MaxFrames
    /\ term \in Terms
    /\ got \in 0..nrec
    /\ itClosed \in BOOLEAN
    /\ itErr \in {"none", "decode", "closed"}
    /\ ret \in {"none", "true", "false"}
    /\ leaked \in 0..MaxOps

(* The advance-then-check contract of streamFrameIterator: when Next has  *)
(* returned false with Err() nil, the caller has decoded every frame of   *)
(* the response and the body ended cleanly; a cut or corrupt stream is    *)
(* never taken for the end of the data.                                   *)
CleanEndComplete ==
    phase = "iter" /\ ret = "false" /\ itErr = "none" =>
        got = nrec /\ term = "eof"

(* No response body of a Create or Delete call is left open once the     *)
(* call has returned.                                                    *)
NoLeakedResponse ==
    leaked = 0

=============================================================================
