--------------------------- MODULE ClientCallsProofs ---------------------------
(***************************************************************************)
(* Proofs about the client's calls (ClientCalls): type correctness and   *)
(* the advance-then-check contract of streamFrameIterator, for every     *)
(* bound on the frames of a response and on the calls.                   *)
(***************************************************************************)
EXTENDS ClientCalls, TLAPS

(* The iterator closed the body only at a clean end of stream, after    *)
(* decoding every frame.                                                 *)
ClosedInv ==
    itClosed => got = nrec /\ term = "eof"

(* While the caller iterates, a false from Next with a nil Err() was the *)
(* clean end that closed the body.                                       *)
FalseInv ==
    phase = "iter" /\ ret = "false" /\ itErr = "none" => itClosed

(* Every jsonCall that leaked a body was one of the calls made.          *)
LeakInv ==
    leaked <= ops

(* The inductive invariant.                                               *)
IInv ==
    /\ TypeOK
    /\ ClosedInv
    /\ FalseInv
    /\ LeakInv

-----------------------------------------------------------------------------
(* The initial state satisfies the inductive invariant.                  *)
LEMMA InitIInv == Init => IInv
  <1> SUFFICES ASSUME Init PROVE IInv
    OBVIOUS
  <1>1. TypeOK
    <2>1. client \in {"none", "ready", "failed"} /\ phase \in {"idle", "iter"}
      BY DEF Init
    <2>2. ops \in 0..MaxOps /\ nrec \in 0..MaxFrames /\ got \in 0..nrec /\ leaked \in 0..MaxOps
      BY ClientAssumption DEF Init
    <2>3. term \in Terms
      BY DEF Init, Terms
    <2>4. itClosed \in BOOLEAN
      BY DEF Init
    <2>5. itErr \in {"none", "decode", "closed"} /\ ret \in {"none", "true", "false"}
      BY DEF Init
    <2>6. QED
      BY <2>1, <2>2, <2>3, <2>4, <2>5 DEF TypeOK
  <1>2. ClosedInv /\ FalseInv /\ LeakInv
    BY DEF Init, ClosedInv, FalseInv, LeakInv
  <1>3. QED
    BY <1>1, <1>2 DEF IInv

(* Every action keeps the inductive invariant; one step per action, and *)
(* under it one for the types and one for the rest.                     *)
LEMMA NextIInv == IInv /\ [Next]_vars => IInv'
  <1> SUFFICES ASSUME IInv, [Next]_vars PROVE IInv'
    OBVIOUS
  <1> USE ClientAssumption DEF IInv
  <1>1. CASE NewClient
    <2>1. TypeOK'
      BY <1>1 DEF NewClient, TypeOK
    <2>2. (ClosedInv /\ FalseInv /\ LeakInv)'
      BY <1>1 DEF NewClient, ClosedInv, FalseInv, LeakInv
    <2>3. QED
      BY <2>1, <2>2
  <1>2. CASE Read
    <2>1. PICK o \in DoOutcomes :
              \/ /\ o \in {"neterr", "bad"}
                 /\ UNCHANGED <<phase, nrec, term, got, itClosed, itErr, ret>>
              \/ /\ o = "ok"
                 /\ phase' = "iter"
                 /\ \E n \in 0..MaxFrames, t \in Terms : nrec' = n /\ term' = t
                 /\ got' = 0
                 /\ itClosed' = FALSE
                 /\ itErr' = "none"
                 /\ ret' = "none"
      BY <1>2 DEF Read
    <2>2. TypeOK'
      <3>1. itClosed' \in BOOLEAN
        BY <1>2, <2>1 DEF Read, TypeOK
      <3>2. QED
        BY <1>2, <2>1, <3>1 DEF Read, TypeOK, Terms
    <2>3. (ClosedInv /\ FalseInv)'
      BY <1>2, <2>1 DEF Read, ClosedInv, FalseInv
    <2>4. LeakInv'
      BY <1>2 DEF Read, LeakInv, TypeOK
    <2>5. QED
      BY <2>2, <2>3, <2>4
  <1>3. CASE NextFrame
    <2>1. TypeOK'
      <3>1. itClosed' \in BOOLEAN
        BY <1>3 DEF NextFrame, TypeOK
      <3>2. QED
        BY <1>3, <3>1 DEF NextFrame, TypeOK
    <2>2. ClosedInv'
      BY <1>3 DEF NextFrame, ClosedInv, TypeOK
    <2>3. FalseInv'
      BY <1>3 DEF NextFrame, FalseInv
    <2>4. LeakInv'
      BY <1>3 DEF NextFrame, LeakInv
    <2>5. QED
      BY <2>1, <2>2, <2>3, <2>4
  <1>4. CASE EndIteration
    <2>1. TypeOK'
      BY <1>4 DEF EndIteration, TypeOK
    <2>2. (ClosedInv /\ FalseInv /\ LeakInv)'
      BY <1>4 DEF EndIteration, ClosedInv, FalseInv, LeakInv
    <2>3. QED
      BY <2>1, <2>2
  <1>5. CASE JsonCall
    <2>1. (TypeOK /\ LeakInv)'
      BY <1>5 DEF JsonCall, DoOutcomes, TypeOK, LeakInv
    <2>2. (ClosedInv /\ FalseInv)'
      BY <1>5 DEF JsonCall, ClosedInv, FalseInv
    <2>3. QED
      BY <2>1, <2>2
  <1>6. CASE UNCHANGED vars
    BY <1>6 DEF vars, TypeOK, ClosedInv, FalseInv, LeakInv
  <1>7. QED
    BY <1>1, <1>2, <1>3, <1>4, <1>5, <1>6 DEF Next

(* The inductive invariant holds in every reachable state.               *)
LEMMA AlwaysIInv == Spec => []IInv
  BY InitIInv, NextIInv, PTL DEF Spec

(* Every variable of the client's calls keeps its type.                  *)
THEOREM TypeCorrect == Spec => []TypeOK
  BY AlwaysIInv, PTL DEF IInv

(* When streamFrameIterator.Next returned false and Err() is nil, the    *)
(* caller has decoded every frame of the response and the body ended    *)
(* cleanly: a cut or corrupt stream, or a Next called again on a closed *)
(* body, is never taken for the end of the data.                        *)
THEOREM CleanEndHonest == Spec => []CleanEndComplete
  <1>1. IInv => CleanEndComplete
    BY DEF IInv, ClosedInv, FalseInv, CleanEndComplete
  <1>2. QED
    BY <1>1, AlwaysIInv, PTL

=============================================================================
